# Ollama gateway: a TLA+ model of its core

`ollama-gateway` is an HTTP gateway in front of several Ollama servers. It
authenticates a request, limits its rate, resolves the model it names to a set
of weighted backends, picks one of them, proxies the request, and records what
it used. Backends are health-checked; backends, models and users can be changed
while it runs, from a dashboard and by reloading the configuration file.

This directory holds TLA+ modules translated from the Go sources, TLC
configurations that check small instances of them, and proofs that TLAPS checks
for every instance. `PROJECT.json` lists the components, runs, mutants,
hazards and theorems, and maps each definition to the lines it models.

## 1. Inventory

| component | source | state | operations |
|---|---|---|---|
| Backend object | `internal/backends/backend.go` | weight, effectiveWeight, currentWeight, healthy, enabled, failureCount, URL: plain fields (`backend.go:17-37`), loaded and stored without a lock | SetHealth, SetEnabled, MarkFailure, MarkSuccess, UpdateConfig |
| Backend pool | `internal/backends/pool.go` | a list of (backend, weight); the credit is in the backend | Select |
| Backend manager | `internal/backends/manager.go` | list and name index, under one RWMutex | PoolForModel, DefaultPool, UpsertBackend, RemoveBackend, GetByName |
| Health checker | `internal/backends/healthcheck.go` | its position in a snapshot of the list | Run, CheckAll, checkBackend |
| Model resolver | `internal/models/resolver.go` | the registry and weights in use | Resolve, RefreshCatalog |
| Model registry | `internal/models/registry.go`, `normalize.go` | none of its own | ResolveModel (VisibleModelsFor has no caller) |
| Model catalog | `internal/models/store.go`, `discovery.go` | tables `models`, `model_backends`, `model_pricing` | LoadActiveCatalog, SyncDiscoveredCatalog, UpsertModel, DeactivateModel, ReplaceModelPricing, discovery |
| Backend store | `internal/backends/store.go` | table `backend_configs` | SeedBackends, LoadActiveBackends, UpsertBackend, RemoveBackend |
| Proxy handler | `internal/proxy/handler.go`, `response.go`, `transport.go` | none of its own | ServeHTTP, canReachBackend, logUsage |
| Usage logger | `internal/usage/logger.go` | a channel, a batch, a ticker, a stop channel | Log, run, Shutdown |
| Usage store | `internal/usage/store.go` | table `usage_records` | BatchInsert, reports |
| API keys and users | `internal/auth/*.go` | table `api_users`, over the users of the file | LookupAPIKey, CreateUser, UpdateUser, RotateUserKey, DeactivateUser |
| Rate limiter | `internal/ratelimit/*.go` | a token bucket per user | Allow, Take, RetryAfterSeconds (Cleanup has no caller) |
| Configuration reload | `internal/config/reloader.go`, `runtime_policy.go` | hashes applied, attempted, candidate; the current configuration | watcher poll, TriggerReload, reload |
| TLS runtime | `internal/tlsruntime/*.go` | certificate in use, hash of the files, paths | Run, reloadIfChanged, UpdatePaths |
| Dashboard | `internal/dashboard/handler.go` | its own lists of backends and models, disabledBackends, the model download job | the pages for backends, models and users; download |
| Process | `cmd/gateway/main.go` | server, signal and main goroutines, database | start-up, reload, shutdown |

**Who calls whom.** A request goroutine runs the middleware (auth, rate limit),
then `ProxyHandler.ServeHTTP`, which asks the resolver for a pool (manager read
lock), selects from it (no lock that another request holds), proxies, and calls
`UsageLogger.Log`. The checker's goroutine stores health into the same Backend
objects. The dashboard's handlers and the reload callbacks change them through
the manager, or directly through a pointer. The logger's goroutine drains a
channel into the database. The signal goroutine and the main goroutine both end
the process.

**What is hard.** The Backend objects are shared by every pool but each pool has
its own mutex; SetHealth and UpdateConfig are several separate stores, and a
selection loads the fields they store one after the other; the
checker applies answers to objects that have changed or gone; a full channel is
displaced by several callers at once while a batch is inserted; the logger can
be stopped between any two of those steps; the process has two exits; the
configuration is read, decided about and applied in steps that signals and edits
come between; users live in a table and in a file; two requests may create one
bucket; a backend or a model is a row, an entry of the dashboard's list and an
object or a catalog entry in use, written one after the other, and what each page
checks of the other it checks before it writes; a backend may
break off, or a client leave, at any point of an answer. The full list, each at its
line and with the property that watches it, is under `hazards` in
`PROJECT.json`.

**What makes each part correct.** Selection: requests go only to backends
found healthy and enabled on the way, are refused only with cause, and are spread
by weight. Manager:
both indexes agree. Checker: health follows the network. Logger: every record is
accounted for exactly once, in order, and a shutdown drains and ends. Shutdown:
no request in flight and no record queued when the process ends in time.
Reload: what the status shows is what runs, and a lasting edit or a signal is
served. TLS: every handshake finds a certificate with its key, the certificate
follows its files, and a replaced watcher ends. Users: a request runs under the
user its key was issued to, a disabled row stays so, and no key of a disabled
user is admitted but the one the file has. Rate limiter: nobody is
admitted more than burst and refill allow. Administration: tables and memory
agree, confirmed changes last, references exist as far as the two pages' checks
reach. Proxy: whole answers are charged as the backend reported them, to that
backend, or not at all if they are a stream that was not seen as one; others are
not charged.

## 2. Modules

| module | models | abstraction of |
|---|---|---|
| `Backends` | the Backend object: a record and one operator per method | |
| `BackendRouting` | manager, health checker, pool building and `Select`, interleaved; the refinement mapping of each model's pool to `SmoothWRR` | |
| `SmoothWRR` | abstract: smooth weighted round-robin, one pick per step | a pool used by one request at a time |
| `MCBackendRouting` | its instances | |
| `BackendRouting_proofs` | the theorems about types, registry and routing of `BackendRouting` | |
| `Shares_proofs` | the theorems about its credits and shares, and its refinement of `SmoothWRR`, over those | |
| `UsageLogger` | `Log`, `run`, `Shutdown`, `BatchInsert` | |
| `UsageLog` | abstract: a lossy log, ordered and exactly once | `UsageLogger` |
| `MCUsageLogger` | its instance | |
| `UsageLogger_proofs` | the theorems about `UsageLogger`, its refinement among them | |
| `Lifecycle` | handlers, signal goroutine, main goroutine around `UsageLogger` (EXTENDS it) | |
| `MCLifecycle` | its instance | |
| `Lifecycle_proofs` | the theorems about `Lifecycle`, over those about `UsageLogger` | |
| `TLSRuntime` | certificate managers, the provider and the two files | |
| `ConfigReload` | the reloader, its two goroutines and the callbacks of `main.go` (EXTENDS `TLSRuntime`) | |
| `MCConfigReload` | its instance | |
| `ConfigReload_proofs` | the theorems about `ConfigReload` | |
| `Users` | the user store: table, file, `UpdateUser` in two statements | |
| `RateLimiter` | the token bucket: a record and one operator per method | |
| `AccessControl` | the two middlewares, the clock, the users page, restarts (EXTENDS both) | |
| `MCAccessControl` | its instance | |
| `AccessControl_proofs` | the theorems about `AccessControl` | |
| `ModelCatalog` | the tables of models and prices, discovery, normalisation: one operator per transaction | |
| `Administration` | start of the process, backend page, model page, reload of backends, crashes (EXTENDS `ModelCatalog`) | |
| `MCAdministration` | its instance | |
| `Administration_proofs` | the theorems about `Administration` | |
| `Proxy` | one request from its model's name to its usage record, with backend and client | |
| `MCProxy` | its instances | |
| `Proxy_proofs` | the theorems about `Proxy` | |

### Backend selection

`heap[o]` is the Backend object `o`; a removed object stays in the heap as long
as the checker's snapshot or a pool points to it, and a name that is created
again gets a new object. `byName` and `list` are the manager's fields. `sel[r]`
holds the locals of request `r` inside `Select`; `todo` and `probe` are the
checker's position and the answer it is applying. `everHealthy`, `everOK` and
`alwaysOK` are history variables: which objects of a request's pool have been
healthy at some moment of its selection, which of them enabled at that moment or
a later one, and which could take traffic throughout.

| action | code |
|---|---|
| UpsertBackend, RemoveBackend | the manager's methods, under its lock |
| SetBackendEnabled | the dashboard's toggle, through a pointer |
| StartCycle, Probe | `CheckAll` over a copy of the list; the URL is read before the call |
| ApplyHealth, ApplyWeight | the two stores of `SetHealth`, the second together with the failure count, which routing never reads |
| BuildPool | `Resolve` or `DefaultPool`; an unknown backend is an error |
| LoadHealthy, LoadEnabled, LoadWeight, LoadCredit (Visit), Accrue, EndScan, Charge | the loads and stores of `Select`'s loop and end, each a step |
| Flip | the network (external) |

Steps are as small as the shared state needs. What runs under the manager's lock
is one step, since everything else that reads the list takes the lock. Within
`Select`, the loads made of one entry (healthy, enabled, effectiveWeight,
currentWeight) are a step each, so that checker and administrators come between
any two of them, and the store is another; the pool's mutex is not modelled,
because no two requests share a pool. The compiler keeps the
raised currentWeight in a register for the comparison after the store.
`UpdateConfig` loads the health while the checker may be storing it; `MaySee`
says which values it may have seen. An update or toggle that the code refuses
early, without a change, is left out. Names, URLs and weights are small sets;
tag, timeout and headers are not modelled; the failure count stops at the
threshold, above which it tells nothing apart.

### Usage logger and process

`ch` is the channel, `batch` the goroutine's slice, `caller[c]` where a caller is
between the three channel operations of `Log`; `db`, `displaced`, `refused` and
`failed` together are where a record can end. `atStop` remembers what the logger
held when the stop was requested. `runner` and `resume` are the goroutine's place
and where it goes after an insert. In `Lifecycle`, the handlers log at most one
record before they return, the logger's inserts fail once the database is
closed, and every action is disabled when the process has ended.

### Configuration reload and TLS

| action | code |
|---|---|
| Poll, Decide (Baseline, Compare), Record | `pollAndMaybeReload`: the file is read without the lock, the decision and the record are made under it, and the lock is free between them |
| Debounce | the time of the debounce is over when a poll compares |
| SendHup, TakeHup | a signal in a channel with room for one; the goroutine that takes it |
| LoadFile | `reload` takes the lock, reads the file again, and asks the policy |
| ApplyBackends, ApplyBackendsFails | `applyReloadBackends`: nothing if the table has rows; an error before anything if it cannot be read |
| ReadNewCert, ReadNewKey | `UpdatePaths`: two reads, then `SetManager` or an error; after it the admin token and `current`, which nothing can come between for a reader of the status |
| ReadCert, ReadKey, EndRun | a manager's own goroutine |
| WriteCert, WriteKey, Edit | whoever replaces the files (external) |

A content of the file stands for its hash, and `Config` says what loading it
gives; a file that does not parse is a content that is not valid. The file can
always be read. The fields that the policy refuses to change are one field,
`fixed`. Fields that the policy does not compare and nothing applies (models,
users, limits, pricing) are left out: a reload accepts a change of them and it
has no effect until a restart. A certificate file that cannot be read or parsed
is a key that does not fit: either leaves what was loaded. A manager's
fingerprint is that of the pair it has loaded, so a tick that finds the same
files changes nothing, as in the model. The gateway serves TLS in the model,
since without it the certificate's part of a reload does nothing. Whether the
table has rows is a constant here; `Administration` changes it.
Locals that nobody reads any more are reset, which merges states that cannot be
told apart. A slot of `mgr` whose goroutine has ended is used again.

A reload that fails at the certificate has replaced the backends already and
keeps them; `current` still names the old configuration. The code does not undo
it. What it does ensure, and `StatusTellsTheTruth` states, is that the status
shows an error until a later reload has applied everything.

### Users and the rate limiter

| action | code |
|---|---|
| Authenticate | `Middleware` and `LookupAPIKey`: the active rows, then the file's users |
| ResolveSettings | `LimiterStore.resolveSettings`, through `GetUserConfig`, which may fail |
| LoadBucket, StoreBucket | `getOrCreateBucket`: `Load`, then `LoadOrStore` of a bucket made between |
| TakeToken, Refuse | `Take`, and `RetryAfterSeconds` under the lock a second time |
| CreateUser, RotateUserKey, DeactivateUser | one SQL statement each |
| BeginUpdate, FinishUpdate | `UpdateUser`: the row is read for its key, then written |
| Restart | a new process: no buckets, the same table, a file that may have changed |
| Tick | a second passes (external) |

A key and its hash are one value. The two queries of `LookupAPIKey` (table, then
the file's map in memory) are one step: a step of another goroutine between them
can only change the table, and the answer is then what the table gave. Of a
user's settings the rate limit is kept. Tokens are natural numbers of fractions
of a token and time is whole seconds, where the code has floating-point numbers
of both; rounding of floats is left out. `first` and `admitted` are history: when
a bucket was created and how many tokens were taken. `owner` remembers whom a
key was issued to. The file's users keep their keys among themselves
(`UsersAssumption`), since a file that gives one user's key to another has no
owner to speak of.

### Administration

| action | code |
|---|---|
| LoadBackends | `SeedBackends`, whole or in part, and `LoadActiveBackends`, with the file's list as the fallback; either or both may fail |
| LoadCatalog, SeedCatalog, Discover, LoadPrices | the catalog's way from the tables, the file and the backends' answers |
| Wire | manager, resolver, proxy and dashboard are made; the process serves |
| End | the process ends, by a crash at any step |
| ToggleBackend | `handleBackendToggle` |
| BeginBackend, WriteBackendRow, WriteBackendMemory, ReloadBackends | `createBackend`, `updateBackend` and `removeBackend`, which are alike |
| BeginModel | `parseModelBackendRefs`: the form's references are checked against the list |
| SaveModel, DeleteModel, WriteModelRow, WritePrices, ReloadModels | the rest of `handleModelAction`, in the order of its writes |
| BeginReload, ApplyReload | `applyReloadBackends` |

Each database statement or transaction is one step with its failure beside it; a
seeding that fails leaves the rows it had written. The model keeps a backend's
name and settings as one value, some of which do not parse. Each page has one
handler at a time: two on one page would race on the dashboard's unguarded maps,
which Go leaves undefined. The two pages and a reload run at the same time. The
users' lists that a model's change updates are kept as a step that may fail in
the middle, not as lists: what UpdateUser does is in `Users`.

None of the administrative actions has a guard for who asks: the dashboard hands
POSTs for users, models and backends to their handlers before it asks for the
login (`dashboard/handler.go:222-241`), and the handlers do not ask for it.

The code does not undo a change that fails half way, and it does not claim to.
The history variables `torn`, `tornModels`, `emptied` and `exposed` say when the
properties excuse it, no wider than the code's gaps: `torn` holds the names of
backends whose last change was refused after its row was written, and those for
which a start that could not read the table took another setting from the file;
`tornModels` lasts until a change or a start goes through; `emptied` until the
next start with rows in the table. `exposed` holds the backends that a model may
refer to although they are gone. It only grows, since a reference that dangles
stays in its row. Each page checks the other's data once, before it writes, and
what comes in between is what a backend becomes exposed by:

- a model whose references were checked is stored in memory when the backend's
  removal has passed its own check, or when the backend has gone since
  (`Leaving`, in `ModelStored`);
- a removal passes its check on the page's copy of the catalog, which no longer
  has the reference, while the row still has it (`Unwritten`, in `BeginBackend`);
- a removal is refused by the manager after its row was written;
- a start has backends the table has not: it could not read the table, or the
  table is empty, or the file's models were seeded into a table of other backends;
- a change of a model fails half way, which exposes every backend.

Both pages being open is not excused as such: `RefsExist` speaks of such states
too. Without any one of the clauses TLC finds it violated, except the third, which
takes one change more than the run has; the proof needs it.

### A proxied request

`req[r]` is a request's locals, `sent`, `upstream` and `staying` are what its
backend has sent, whether it still sends, and whether the client is there; the
handler reads them as the reverse proxy does.

| action | code |
|---|---|
| Arrive | `ServeHTTP` is entered, the model's name read from the body; a body that cannot be read or parsed is answered 400 |
| Resolve, BuildPool | `resolveBackendPool`, `ResolveModel`; the manager's pool, later |
| Select | `pool.Select` (any member; `BackendRouting` says which) and `buildReverseProxy` |
| Reach | `canReachBackend` |
| Forward | the call, which may fail although the address was reached |
| ReadBody | `modifyResponse`: the body to its end, or an empty one |
| Write | a `Write` of the reverse proxy, of any length, and `parseForUsage` |
| Abort, EndAnswer | the reverse proxy's panic when a copy fails, and its return (external) |
| LogUsage | `logUsage` |
| RefreshCatalog, UpdateAddress, RemoveBackend, CreateBackend | what the dashboard does to resolver and manager |

A request is a "stream" if `isStreamingGenerate` sees it as one: a POST to
`/api/generate` whose body says `"stream": true`. A stream of `/api/chat`, or of
`/api/generate` where the body leaves `stream` to Ollama's default, is "unseen":
the backend answers with many lines, and the code reads them as one JSON value. A
call of the two that is answered at once is "plain", and any other request
"other".

Of a line of an answer the token counts are kept, and a write may end in the
middle of a line: writes are counted in halves of lines. `name` and `had` are
history: what the backend was called when it was chosen, and the addresses it
has had since.

## 3. Runs

| run | asks | bounds |
|---|---|---|
| `routing_requests` | types, index agreement, safe and complete routing at every load, convergence of health and weight | 2 backends, 3 objects, 3 URLs (one malformed), 1 request goroutine making 2 selections, 2 administrator operations, 1 change of the network |
| `routing_share` | the WRR properties and the refinement of `SmoothWRR` | 5 backends, two disjoint models (3:1:2 and 4:3), 14 selections in any mix |
| `routing_shared_models` | violation: shares of models with common backends | 3 backends, 6 selections |
| `routing_race` | violation: credits under two selections at a time | 2 requests |
| `usage_logger` | the logger's safety, refinement and liveness | 2 callers of 2 records, channel of 2, batches of 2, 1 failure |
| `shutdown_orderly` | types, and the signal goroutine's order of shutdown | same, each record a request |
| `shutdown_exit` | violation: the main goroutine's exit | same |
| `config_reload` | safety and liveness of reload and certificates | 3 contents (one refused by the policy), 2 edits, 1 SIGHUP, 2 writes to one pair of files, 4 managers |
| `access` | attribution, the budget, Retry-After, what deactivation leaves | 2 users, 3 keys, 2 requests at a time and 3 in all, 2 edits, 1 restart, 2 seconds, a token of 2 fractions |
| `administration` | tables against memory, confirmed changes, references across both pages | 2 backends, 2 names of one model, 3 changes, 2 starts, 3 failing statements |
| `proxy` | what is charged, and to which address | 1 request of any of the four kinds, 3 lines, 2 changes by the dashboard, 3 objects |
| `proxy_streaming` | violation: a stream is passed on as it comes | 1 request, 2 lines |

*Why the bounds are enough.* In `routing_requests` a selection can meet every
administrator operation and every stage of a check between any two of its loads,
and two operations are enough to remove and create again a name, or to move a
backend and switch it off; the third object is what the second creation needs.
The safety properties of this run are also proved without bounds, for any number
of requests. `routing_share` makes two full cycles of both models; 14 selections
mix them in every order. Its properties are proved too, for any weights and any
number of models and backends. In `usage_logger` two callers are the least that can
race for displaced room, four records overfill the channel, and a batch of two
leaves both full and partial batches. `shutdown_orderly` runs with the same. In
`config_reload` two edits and a signal let a content come back, be refused, or
change between any two steps of the other goroutine's reload; two writes replace
one pair of files in either order, before, during and after the reload that
moves to it; three managers is what three reloads leave behind, and one more
serves. The table has no rows there; the theorems cover both cases. In `access`
two requests race for the creation of a bucket and for its last token, the third
comes after a refusal; two edits are an update and what comes between its two
statements, or a rotation and a deactivation; the restart finds another file. A
refill of one fraction a second makes a token take two seconds, so that
Retry-After has something to round. The safety properties are also proved
without bounds. In `administration` three changes let a creation, a
removal and the other page's change mix step by step, or one change be made again after it
failed, with a failure in each of them or in either start, and a crash between
any two steps; its properties are also proved without bounds. In `proxy` one request is
enough: requests share nothing but what the dashboard changes, so another
request could not disturb it. Three lines cut in halves meet every way a count
can be split, repeated or missing.

*Deadlock.* `CHECK_DEADLOCK FALSE` only where the modelled thing stops: the
logger after its shutdown, the process after its exit; and in the last four runs,
where the bounded requests, changes and starts are used up.

*Fairness.* The checker's goroutine runs until the process stops and each probe
ends with its timeout: weak fairness of its four actions. Go's `select` chooses
at random among ready cases, so a case that is ready again and again is taken:
strong fairness of the logger's three cases; its other steps, once enabled, stay
so: weak fairness. In the reload the tickers go on, reads return and Go's mutex
is handed to a goroutine that waits long (weak fairness of each step); the
debounce is a lapse of time, which polls cannot put off (strong fairness); and a
cancelled goroutine's `select` takes the cancellation in the end (strong
fairness). A request's handler goes on as long as it can (weak fairness of
`Handle` in `proxy_streaming`). No fairness is assumed of callers, clients,
backends, administrators, editors or the network.

*Liveness.* `HealthConverges`: after the bounded changes of the configuration
and the network have ended, health is what the address answers.
`QueuedRecordsSettle` and `ShutdownEnds` hold with callers that log late.
`HupLoadsTheFile` and `LastingEditIsLoaded` hold while reloads fail and edits go
on; `CertificateFollowsFiles` and `OldWatchersEnd` once the writes and the
reloads have ended.

*Mutants.* Each property of a passing run has a mutant in `PROJECT.json`: a
definition of a module replaced by one of the operators commented "Fault", as a
slip in the code would have it, after which TLC finds the property violated.
The Fault operators are not part of the specifications.

## 4. Disagreements with the documents

- `routing_shared_models`: the WRR credit lives in the Backend, so models that
  share backends disturb each other's shares;
  `docs/specs/06-backend-routing-spec.md:182` promises independent counters.
- `routing_race`: `backend.go:26` says the scheduling fields are guarded by the
  pool's mutex; every request has a pool, and so a mutex, of its own. An update
  is lost and the credits no longer sum to zero.
- `shutdown_exit`: `main.go:320-321` says that a signal waits for active
  requests and flushes the logger; the main goroutine leaves `ListenAndServe`
  as soon as the shutdown begins, closes the database and returns.
- `proxy_streaming`: `docs/specs/02-api-proxy-spec.md:79` promises that streams
  are passed through without buffering; `modifyResponse` reads the whole body of
  every answer of `/api/generate` and `/api/chat` before any of it is passed on.

Some more that no run is spent on. Where a property touches one of them, it
states what the code does ensure, and says so in its comment.

- *A backend never healthy and enabled at once.* `pool.go:50` says "Only healthy
  backends are considered". `IsHealthy` (`backend.go:336`) loads `healthy` and
  then `enabled`, with nothing to hold the two together: a selection loads
  `healthy` of a disabled backend as true, the checker stores false, an
  administrator enables it, the selection loads `enabled` as true and, until the
  checker has stored the weight too, a positive `effectiveWeight`. The backend is
  chosen though it was at no moment both. `RoutedWhileRoutable` states the rest:
  healthy at some moment of the selection, and enabled then or later.
- *A disabled user admitted through the file.* `auth/store.go:386` says that a
  deactivated user's "key no longer authenticates", and `auth_test.go:449-463`
  tests it, on a store without a database. With one, `DeactivateUser` marks the
  row, and `LookupAPIKey`, which finds no active row, goes on to the file's users
  (`auth/store.go:47`): a user who is in the file is admitted with the key the
  file has. `DeactivationSticks` states the rest: no other key of the user is.
- *A reference to a removed backend.* The repository's `README.md:217` says
  "Removed backends are blocked when referenced by active models". The removal is
  checked at `dashboard/handler.go:1504`, and a model's references at `:1742`,
  each before the first write of its page. Three orders leave a model in use with
  a backend that is gone. The removal passes its check, and a model that refers to
  the backend, which is still listed, is stored before the row is removed. Or the
  model's form is checked, the whole removal goes through, and the model is stored
  after it. Or the model is deleted or moved to another backend in memory, the
  removal passes its check on that, and the model's row, which keeps the reference,
  is not yet written: if the process ends there, or the write fails, the reference
  stays. `RefsExist` states that nothing else, short of a half-failed change or
  start, leaves such a reference.
- *Streams whose tokens are not counted.* `docs/specs/05-usage-tracking-spec.md:69-83`
  and `docs/specs/02-api-proxy-spec.md:84-127` say that tokens of streams are counted
  as they pass, and `proxy/handler.go:347-349` that this is done for `/api/generate`
  and `/api/chat`. `isStreamingGenerate` (`proxy/handler.go:293-313`) sees only calls
  of `/api/generate` that say `"stream": true`. A stream of `/api/chat`, or one that
  leaves `stream` to its default, is parsed as one JSON value, which many lines are
  not, and is recorded with no tokens. `ChargedAsReported` demands of such a stream
  that it is recorded once, with the backend's counts or none.
- *A refused address that stays.* `createBackend` and `updateBackend` write the row
  before the manager parses the address (`dashboard/handler.go:1449`). The page
  reports the change as failed, the row stays, and the next start ends with an error.
- *The model's name in usage records.* `docs/specs/05-usage-tracking-spec.md:22` says
  "resolved (real) model name after aliasing"; `logUsage` stores, and prices, the name
  as the client wrote it (`proxy/handler.go:316`).
- *The threshold.* `unhealthy_threshold` is documented as the number of consecutive
  failures (`configs/config.example.yaml:54`); nothing reads it, and one failure is
  enough.
- *The first content.* `reloader.go:79` says that `Run` reloads when the content
  changes; the first poll only takes what it finds for the baseline, so an edit
  between the start and that poll is never loaded. `LastingEditIsLoaded` states what
  does hold: a content that is neither the last polled nor the last attempted is
  loaded. The second condition matters too: once B was attempted, a file edited to C,
  reloaded by a signal, and edited back to B before the watcher has got to C stays
  unloaded.

What the code does and no document speaks of, met while modelling: an update that
was under way writes back the key that a rotation has replaced; prices deleted to
the last come back from the file at the next start, and so do the file's backends
after the last one was removed; the file's models may be seeded with backends the
table does not have, and requests for them then get status 500; a model saved under
a name that is not canonical is not found by requests.

Two documents say that there is no hot reload at all (`docs/plan.md:26`,
`docs/specs/01-product-spec.md:33`); they predate it and no run is spent on them.

## 5. Proofs

`BackendRouting_proofs` proves, for every choice of the constants that satisfies
`BackendsAssumption` and `RoutingAssumption`:

- `TypeCorrect`: `Spec => []TypeOK`
- `RegistryIsConsistent`: `Spec => []RegistryConsistent`
- `RoutesToRoutable`: `Spec => []RoutedWhileRoutable`
- `RejectsOnlyWithCause`: `Spec => []NoSpuriousRejection`

They follow from `Invariance`, `Spec => []Inv`. The parts of `Inv` and why each
is there:

- `TypeOK`.
- `RegistryConsistent`, inductive together with the types: removal drops one
  position, and the indexes agree afterwards only because no two positions hold
  the same name.
- `HealthCoherent`: an object that reads healthy has a positive effectiveWeight
  unless the checker is between the two stores for it; an object whose failure
  is half stored does not read healthy. Without it a selection could skip a
  steady backend, and `NoSpuriousRejection` would not be inductive.
- `ScanOK`: what a selection knows of the entries it has passed, and of the one it
  is at. After the load of `healthy` that entry has been healthy (`everHealthy`),
  after the load of `enabled` it is in `everOK`, and so is the best entry. No
  more can be said, as nothing holds the two loads together. If there is no best
  entry yet, then nothing passed was steady throughout (`alwaysOK`): a steady
  backend passes each of the three tests, whenever it is made. It is the loop
  invariant of `Select`, stated over the history variables.

The proof has a lemma per method of the Backend, one per conjunct and group of
actions, and combines them in `Invariance`. The assumptions on the constants
say that names and URLs exist, that the threshold is positive, that weights are
integers and positive where the code has clamped them, that the starting
backends have distinct names, and that a model names a backend once (the primary
key of `model_backends`).

`Shares_proofs` proves what the weights promise, from the same assumptions, for
any number of requests, models and backends and any weights:

- `CreditsConserved`: `Spec /\ []Serial => []WeightsConserved`

and, if the models share no backend and name only backends of the configuration,
no request goes without a model, and names are finitely many (`Separate`, a
condition on the constants):

- `SharesAreProportional`: `Spec /\ []Serial /\ []Undisturbed => []ProportionalShare`
- `SharesAreSmooth`: `Spec /\ []Serial /\ []Undisturbed => []LagBounded`
- `SelectionImplementsSmoothWRR`:
  `Spec /\ []Serial /\ []Undisturbed => ImplementsSmoothWRR`

`Serial` says that no two selections are under way at once, `Undisturbed` that no
administrator has acted and every backend can take traffic. The code guarantees
neither, and the properties are false without them: `routing_race` shows what
overlapping selections do to the credits, `routing_shared_models` what a shared
backend does to the shares. They are therefore hypotheses about a behaviour, and
not assumptions on constants; in `routing_share`, with one goroutine, no
administrator and a steady network, they hold in every state. `CreditsConserved`
needs only the first: failing backends, changes by administrators and shared
backends do not disturb the sum.

The invariants:

- `ConservedInv`: while a selection is under way, the credits of all objects sum
  to what it has given out so far, its `total`; objects not yet created hold
  nothing. The value it keeps in a register is the one in memory, which is where
  overlapping selections would break it.
- `CreditIsLag`: the credit of a slot is what it is behind its share, turns times
  weight less total weight times picks. The share properties are not inductive
  over picks alone; this ties them to what `Select` reads.
- `NoTurnAhead`: no lag is as low as minus the total weight. The lags of a model
  sum to zero (`LagsAddUp`), so once each slot has earned its weight they sum to
  the total, and the richest is positive and can pay it (`RichestCanPay`).
- `Rounds`: the loop invariant of `Select`: the pool is the model's, `total` the
  weights of the slots passed, and `best` the first among the richest of them.
- `SlotsCreated` and `OthersUnpicked`: the models' backends exist, and only their
  own names are picked for a model.

Every step leaves all shares alone (`Standstill`) or is a whole pick of one slot
(`Picked`, at `Charge`), and each of the four theorems needs to look at these two
cases only. After full cycles each lag is a multiple of the total weight above
minus the total, so none is negative, and as they sum to zero all are zero
(`CyclesAreFair`). The bound on how far a slot falls behind is what the others
can be ahead together (`BehindByTheRest`). It cannot be one turn: with weights
1, 1, 1, 6, 6 a slot comes to be exactly one turn behind, and with
1, 1, 1, 7, 7, 7 more than that. The step of the refinement that matters is that
the first among the richest in the order of the loop is the one `SmoothWRR` picks.

The sums are `SumFunctionOnSet` of the community modules, a fold. Its defining
equation is derived for finite sets (`SumEquation`, `SumSplit`), by an induction
over subsets that takes the property as a set of subsets (`SubsetInduction`) and
so needs no operator as a parameter.

`ConfigReload_proofs` proves, from `TLSAssumption` and `ReloadAssumption` (there
are paths and certificates, the file read at start is valid, the constants have
their kinds), for any number of edits, signals, renewals and managers:

- `ReloadTypes`: `Spec => []TypeOK`, which says among the types that the mutex is
  held exactly by the goroutine that applies a configuration
- `HandshakesFindPairs`: `Spec => []ServesWholePairs`
- `StatusIsTrue`: `Spec => []StatusTellsTheTruth`

They follow from an `Invariance` of its own. Its `IInv` adds to them
`ActiveLives` (the provider's manager is not cancelled, so that its goroutine
cannot end under a handshake) and `ReloadKnows` (a reload under way has a
configuration; until it has applied the backends the old one runs if the status
shows no error, and from then on the backends in use are the new one's, or the
table's). `StatusTellsTheTruth` is not inductive without the last: it says
nothing of the states in the middle of a reload. One lemma covers the steps
around a reload, one the steps of managers and renewals, one those of a reload.

`AccessControl_proofs` proves, from `UsersAssumption`, `UnitAssumption` and
`AccessAssumption` (every user of every file has a key of his own, a token has
fractions, limits are natural numbers), for any number of users, keys, requests
at a time, edits and restarts:

- `TypesHold`: `Spec => []TypeOK`
- `BudgetHolds`: `Spec => []WithinBudget`
- `RequestsAttributed`: `Spec => []AttributedToOwner`
- `WaitIsEnough`: `Spec => []RetryAfterSuffices`
- `DisabledForGood`: `Spec => DeactivationSticks`

The first two follow from `AccountsHold`, `Spec => []LimiterInv`. `WithinBudget`
is not inductive: it forgets what is left in the bucket. `Account` adds it (tokens
taken and tokens left together are at most what the bucket began with and has
regained until its last refill), and `Placed` says of each request between two
steps that the bucket it goes on to take from is in the map, and that one it
brings along to store is full and not from the future. `RequestsAttributed`
rests on `OwnerInv`: the file's keys, the rows' keys and the keys that an update
under way will write back are all owned by the users they stand beside. The
last is why an update that was overtaken by a rotation cannot hand out a key to
somebody else. `DisabledForGood` goes through the steps: none enables a disabled
row, and a request that is admitted under a user without an active row was found
in the file, with the file's key (`FileAdmits`).

`WaitIsEnough` needs to know what a refused request may count on while others use
its bucket. `PromiseInv` says that unless the user has been admitted since, the
bucket has a token at every moment from the promised one on (`HasToken`). The
quotient that tells the wait is rounded up, so waiting that long fills the gap
(`WaitSuffices`); a refill in between adds what has accrued and moves the time of
the last one, which together change nothing (`RefillKeepsToken`); and a draw by
another request of the same user is an admission, after which nothing was
promised (`PromiseSurvives`).

`UsageLogger_proofs` proves, from `LoggerAssumption` (capacities are positive),
for any number of callers and records, any capacity of the channel, any size of
a batch and any number of failed inserts:

- `TypesHold`: `Spec => []TypeOK`
- `RecordsOnce`: `Spec => []EveryRecordOnce`
- `OrderHolds`: `Spec => []CallerOrderKept`
- `DrainComplete`: `Spec => []ShutdownDrains`
- `LogImplemented`: `Spec => ImplementsUsageLog`, the refinement of `UsageLog`

The parts of its `IInv`:

- `TypeOK`.
- `InOrder`: table, batch and channel are each in the order of their callers, and
  nothing in one of them comes before something in the one ahead of it.
  `CallerOrderKept` says the same of the three in a row; in parts it is stated so
  that a step needs to look only at the ends that it moves a record between.
  That no record stands anywhere twice follows: no record comes before itself.
- `Accounted`: the records that have left their caller's hand are those under way
  or lost in one way. A record in the hand is the caller's latest, so it comes
  after all of its records under way, which is what lets it be appended.
- `BatchFits`: outside an insert the batch has room for one more, and during one
  it is not empty. The refinement needs the second: an insert stores at least one
  record.
- `Stopping`: what the logger held at the shutdown is under way or lost, and has
  left the channel when the drain is over.

The refinement maps `batch \o ch` to the accepted records. `Enqueue` and
`Requeue` accept, `Displace` displaces the record behind the batch, `GiveUp`
refuses, `Insert` stores and `SomeInsertFails` loses as many records as the batch
holds; every other step moves a record from the channel to the batch or touches
no record, and changes nothing the abstract log sees.

`Lifecycle_proofs` carries this into the process (`ProcessSpec`), for any number
of handlers:

- `ProcessTypes`: `ProcessSpec => []ProcessTypeOK`
- `OrderlyExit`: `ProcessSpec => []OrderlyExitLeavesNothing`
- `ProcessImplementsLog`: `ProcessSpec => ImplementsUsageLog`

A step of the process is a step of the logger on its own, or leaves the logger
alone, or is an insert that the closed database fails, which loses a batch as
any failed insert does; so the logger's `IInv` and its refinement hold here too.
`ProcessInv` adds the order of an orderly shutdown: as long as the time is not
up, the logger is told to stop only after the server is closed and every handler
has returned (`OrderlyShutdown`), and a caller is inside `Log` only while its
handler runs (`InsideHandlers`). `OrderlyExitLeavesNothing` follows with
`BatchFits`: the goroutine has returned, so its batch is empty, and nobody is
left who could have put a record into the channel behind it.

`Proxy_proofs` proves, from `ProxyAssumption` (names have canonical forms,
catalogs list backends, counts are natural numbers), for any number of requests,
lines of an answer, backends and changes by the dashboard:

- `TypesHold`: `Spec => []TypeOK`
- `AddressHolds`: `Spec => []AddressOfItsBackend`
- `ChargeHolds`: `Spec => []ChargedAsReported`

The parts of its `IInv`, for every request:

- `Known`: the object it was sent to is one the manager has or had, and the
  address that object has now is among those noted. An object that has been used
  is never given to another backend, which is why a record cannot name the
  address of a backend that took over the name.
- `Charge`: before the call nothing has been counted. While an answer is passed
  on, a request that is to neither of the two paths is free, and another one either
  holds the whole body and has counted as much of it as was written
  (`CountedSoFar`), or holds nothing and its answer is lost. A record waits to be
  written only for an answer that was delivered whole, or for a request that is
  free. Afterwards there is one record, or none if the handler broke off.

For an "unseen" stream of more than one line the body yields no counts, so it is
recorded free; one of a single line is read as what it is. The step that matters
is a write of a stream. The lines completed by it come
after those completed before (`Completed`), so the first prompt count of both is
the earlier one if there is one (`FirstOfBoth`), and the last eval count is that
of the later ones if they have one (`LastOfBoth`); that is what the writer
keeps. That a set of lines has a first and a last one rests on the library's
theorem that the natural numbers are well-founded.

`Administration_proofs` proves, from `CatalogAssumption` and
`AdministrationAssumption` (names have canonical forms; the file is valid: it has
a backend, its addresses parse and its models refer to its backends), for any number of
backends, models, changes, starts and failing statements:

- `TypesHold`: `Spec => []TypeOK`
- `BackendsAgree`: `Spec => []BackendsFollowTable`
- `ConfirmedLast`: `Spec => []ConfirmedChangesLast`
- `PageShowsDisabled`: `Spec => []DisabledAgrees`
- `ModelsAgree`: `Spec => []ModelsFollowTables`
- `ReferencesExist`: `Spec => []RefsExist`

The parts of its `IInv`, beside the types and `Quiet` (nothing is in hand while
the process does not serve):

- `BackendsInv`: list, manager and disabled names follow the table except for a
  name whose row is written and whose memory is not yet (`InHand`); the page's
  setting is in its row from then on (`PageInTable`), so the memory takes what the
  row has; and what was confirmed is in the row (`AckedInTable`). `EmptyKnown`
  keeps the configuration file out: a reload that goes on has seen the table
  empty, which `emptied` remembers.
- `ModelsInv`: while a start goes well its copies are the tables' (`Built`,
  `Priced`); once it serves, each step of the model page but the last leaves a
  change in hand or one half done, and the last one reads both tables again.
- `RefsInv`: `exposed` only grows, and is everything after a half-done change of a
  model (`Exposing`). But for exposed backends, table and page refer to backends
  that are there (`TableRefers`, `PageRefers`), the page's list is in the table or
  has just left it (`ListInTable`), and no model, in the page's catalog or in the
  table, refers to a backend about to be removed (`Unreferenced`). The removal is
  checked against the page's catalog, and the table is another matter: `PageIsTable`
  says that the two differ at most in the model being changed, as long as no change
  was left half done. It rests on `ModelsInv`, which is why the two are proved
  together.

What a catalog is made of by discovery, normalisation and the store's
transactions is in lemmas of their own (`DiscoveredIsCatalog`,
`NormalizedIsCatalog`, `SyncedTable`, `ChangedRow`): they refer to no backend that
was not referred to before. The step that decides is the storing of a model:
its references were in the list when the form was checked, and each of them that
is not exposed by the step still is, with no removal in hand, so it is in the table.
A first attempt at `ReferencesExist` failed at a start whose table could not be
read, after a seeding that had failed half way: models were discovered at the
file's backends, which the table did not have. That takes two failing statements,
is why a start that cannot read its table exposes what differs, and why the run
allows three failures.

**Only model-checked.** Liveness (`HealthConverges`, `QueuedRecordsSettle`,
`ShutdownEnds`, `HupLoadsTheFile`, `LastingEditIsLoaded`,
`CertificateFollowsFiles`, `OldWatchersEnd`): out of the prover's reach. Every
other property of a passing run is stated by a theorem.

## 6. Not modelled

- Parsing and validation of the configuration file, pricing, reports over the
  usage table, login and rendering of the dashboard, the installer: each is
  sequential, keeps no state another part reads, or is input and output only.
- The HTTP client calls of `backend.go` that only forward (list, show, pull,
  delete), and `transport.go`.
- The model download job: one record under one mutex. A new job is refused while
  one is active, so the progress of an old one cannot reach a new one; how long
  one may hang is the backend's affair.
- The Redis limiter, which admits every request; `LimiterStore.Cleanup`,
  `VisibleModelsFor` and `ApplyRuntimeConfig`, which nothing calls.
- Flags, logging, and the set-up of the HTTP servers in `main.go`.

## 7. How the parts were ordered, and what could follow

The most important behaviour came first: routing with its proofs and, last of
all, those about its shares; the usage logger with its proofs and the two exits
around it with theirs; reload and TLS with their proofs; access control with its
proofs; the proxied request with its proofs; administration over tables, memory
and starts with its proofs. What could follow: the composition of `Proxy` with
`BackendRouting` and `UsageLogger`, in place of the free choice in `Select` and
of the list of records.
