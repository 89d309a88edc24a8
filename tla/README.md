# topdesk-mcp in TLA+

A verification development for the `topdesk-mcp` server in this repository: TLA+
modules that model its core, TLC configurations that check them on small
instances, and TLAPS proofs for every value of the constants. File names below
are relative to `src/src/` unless they start with `src/`.

## 1. The system

`topdesk-mcp` is an MCP server that puts three tools, `search`, `get` and `call`,
in front of the TOPdesk REST API. One process runs with the stdio transport (one
client) or the HTTP transport (many sessions). A catalog of operations, one
SQLite database per API version, is embedded in the binary.

| Component | Files | State | Operations | Talks to |
|---|---|---|---|---|
| Circuit breaker | `core/circuit_breaker.rs` | `state`, `failure_count`, `opened_at` behind a mutex | `execute` (two critical sections around the wrapped call), `on_success`, `on_failure` | wraps `ApiClient::dispatch` |
| Rate limiter | `core/rate_limiter.rs` | list of instants behind a mutex | `acquire` | first step of `ApiClient::execute` |
| Call pipeline | `services/api_client.rs`, `tools/call_tool.rs` | an `ApiClient` per call: limiter, breaker, HTTP client; `attempt` counter | `call_operation`, `execute`, `dispatch` | auth manager, target API |
| MCP server handlers | `core/mcp_server.rs`, `tools/*` | `api_version`, `config`, shared `Arc<Mutex<AuthManager>>` | `search`, `get`, `call` | store, call pipeline |
| HTTP gate | `http/server.rs`, `http/auth_extractor.rs`, `http/localhost_detector.rs` | none of its own | `auth_gate`, `healthz`, `metrics_handler` | registry, MCP service |
| Auth manager | `auth/*` | `cached_credentials` | `credentials`, `login`, `apply_auth_headers` | credential storage |
| Credential storage | `core/credential_storage.rs` | OS keychain, encrypted fallback file | `save_`, `load_`, `delete_credential` | shared with every process of the user |
| Catalog store | `data/store.rs` | extracted file in the temp dir, path cache, connection cache | `resolve_store_path`, `open_store`, `cached_store_connection` | shared with every process on the host |
| Validator | `validation/validator.rs` | compiled schemas per version and operation | `validate_input`, `validate_output` | `call` |
| Embedding model | `services/embedding_service.rs` | `MODEL`, loaded by the first search, behind a mutex | `model`, `embed` | `search`, embeddings population |
| Health | `core/health_check_manager.rs`, `core/component_registry.rs` | status per component | `register`, `report`, `run_once`, `overall_status` | `/healthz` |
| Lifecycle | `main.rs`, `core/shutdown_handler.rs` | cleanup callbacks | startup order, `on_shutdown`, `shutdown` | all |
| Configuration, setup | `core/config_manager.rs`, `cli/setup_wizard.rs` | files and environment | `load_config`, `run_setup_wizard` | all |
| Query cache | `core/cache_manager.rs` | entries with expiry | `get`, `set` | nobody yet |
| Embeddings population | `bin/populate_embeddings.rs` | `.db` and `.db.zst` files | `main` | the build of the binary |
| Prompts, CLI, logging | `prompts/*`, `cli/*`, `core/{logger,otel,sanitizer,errors}.rs` | none | one-shot commands, texts, output | |

What is hard in it:

- *Interleaving.* The breaker is unlocked while the wrapped call runs. The
  limiter reads the clock before it locks. Sessions share one `AuthManager`.
- *Failure.* The target API and the network lose, delay and repeat. A timeout
  cannot tell a lost request from a lost answer.
- *Waiting.* The mutex of the `AuthManager` is held across the HTTP request with
  all its retries, so every call waits for the ones before it. The catalog is a
  standard mutex taken on the threads of the runtime, and held while a search
  loads the model. Health checks never yield, so they occupy a thread too.
- *Panics.* A panic ends one request and poisons the mutexes it holds, for all
  sessions.
- *Interrupted writes.* Setup, the storage of credentials, the extraction of a
  catalog and the population of embeddings write files in several steps and can
  die between any two; the next run starts from what they left.
- *Tables that must agree.* The API versions are listed in six places.
- *Sharing between processes.* Keychain, fallback file and extracted catalogs
  belong to every process of the user.

PROJECT.json lists each hazard at its line with the properties that cover it.

What makes each component correct: the breaker refuses exactly after a run of
failures, remembers the latest and recovers; the limiter bounds the calls of a
window; the pipeline answers every call, tells the truth about effects and uses
the right credential; storage gives back what was last saved or nothing; the
catalog in memory is complete and no leftover; requests do not disturb each other;
health tells what a check has seen; a signal cleans up and ends the process;
configuration written by setup is what the server reads; a population run loses no
catalog and publishes none that is incomplete; a cache forgets but does not lie.

## 2. The modules and the code

| Module | Models | Used by |
|---|---|---|
| `BreakerState` | the values of `circuit_breaker.rs` and what its critical sections make of them, without concurrency | `CircuitBreaker`, `CallPipeline` |
| `CircuitBreaker` | a breaker that any number of callers share | `BreakerContract` is its specification |
| `BreakerContract` | the abstract rule: refuse exactly while a full streak of failures is recent | `CircuitBreaker` instantiates it |
| `RateLimiter` | a limiter that any number of callers share | |
| `CallPipeline` | a `call` from the message to the answer, with the shared mutex, the limiter, breaker, retries, network and target API | extends `BreakerState` |
| `CatalogStore` | the catalog of one `api_version`, shared by the processes of a host | |
| `CredentialStorage` | keychain and fallback file, shared by the runs of `setup` and the servers of one user | |
| `Versions` | the tables of API versions and what is looked up in them | extended by `Configuration` |
| `Configuration` | settings on their way from `setup` through files and environment into a process | |
| `ServerLifecycle` | a server process from its start to its end: main, signal handler, health checks, `/healthz` | |
| `ToolService` | concurrent `search`, `get` and `call` on the threads of the runtime: catalog mutex, embedding model, compiled schemas | |
| `PopulateEmbeddings` | `topdesk-mcp-populate-embeddings` and what it leaves on disk | |
| `QueryCache` | the bounded, expiring cache | `ForgetfulMap` is its specification |
| `ForgetfulMap` | the abstract rule: a map that may forget but answers nothing else than what was put last | `QueryCache` instantiates it |
| `MC...` | deployments, and functions with model values, for TLC | |
| `CoreProofs` | theorems about `CircuitBreaker` and `QueryCache` | |
| `SetupProofs` | theorems about `Configuration` and `CredentialStorage` | |
| other `...Proofs` | theorems about the module of that name | |

`QueryCache` and `Configuration` share a proof module with another component; hence
the prefixes of `CacheSpec`, `CacheTypeOK`, `ConfigSpec`, `ConfigTypeOK` and the like.

**Circuit breaker.** `breaker` is `Inner`; `Refuses`, `Admit`, `OnSuccess`,
`OnFailure` are the two critical sections of `execute`. `Enter` and `Refuse` are
the first one, `Succeed` and `Fail` the second; between them the caller is
`"running"` and the others go on. `clock` is `Instant::now()`. The upstream may
fail until `OutageEnd`, so that recovery can be stated. `streak` and
`last_failure` are history: they count reported failures in a row and remember
the latest, and are read by properties only. `BreakerContract` has nothing but
that history; the three states are an implementation of it: `CircuitBreaker`
instantiates it `WITH` what its own state and history say of the streak.

**Rate limiter.** `acquire` is two steps: `ReadClock` (line 26, before the lock)
and then `GrantCall` or `RefuseCall` (the critical section). `timestamps` is the
vector, as a set: its order does not matter to `retain`, `len` and `push`, and
equal instants are kept apart by the serial number of the grant they belong to.
`granted` is history: the instant each grant read and the one it was made at.

**Call pipeline.** One stage per await or lock of the handler. `auth_queue` is
the tokio mutex around the `AuthManager`, which is fair, so its state is a
queue whose head holds it. `client[c]` is the `ApiClient` that `call_operation`
builds for call `c`. A request is identified by its call and its attempt; `wire`
holds those under way, `executed` those the target API carried out, `reply` the
answer to the request that is still open. `Lose` and `Execute` are the network
and the API: a request may be carried out after its timeout, its answer is then
lost. `Retry` and `GiveUp` are the error branch of `send()`, and may come at any
time: a timeout cannot be told from a refused connection. What is abstracted:
operations, methods, arguments, URLs and bodies (any may be valid, invalid or
missing), error texts, the wait of the client for headers against bodies, and the
sources of the operator's credential, which is one value or none (`config.operator`).
`StorageFails` is where reading it, or saving back what was read, fails the call;
in the second case it stays cached. `BadMethod` is the one error inside the breaker
that comes before anything is sent.

**Catalog store.** `resolve_store_path` and `cached_in_memory_connection`, one
action per step that another process or thread can see: the lock, creating,
filling and renaming the temporary file, the retries, lookup, open, copy, insert.
`file` is the shared path. It starts with anything: nothing, a catalog of any
build, or half a file after a power failure. A handle keeps the contents it was
opened on, as on POSIX; on Windows (`windows`) a rename fails while any call has
the file open, and it may fail on both for other reasons, such as the health
check, which also opens the file. `Restart` kills a process at any point and
starts another, of any build, in its place. The temporary name contains the
process id and a counter, so leftovers under such names are never read again and
the model forgets them. `since` is history.

**Credential storage.** `keychain` and `file` are the two places an account's
secret may be in, `mode` says whether the keychain works always, never or sometimes.
The stages of a process follow the accesses that another process can see:
`save_credential` is `SaveToKeychain`, or `KeychainFails`, `Truncate`, `Fill`, since
`fs::write` first empties the file; `AuthManager::credentials` is `UseEnvironment`, or
`LoadFromKeychain`, or `MissKeychain` and `LoadFromFile` or `LoadNothing`, and a load
goes on to a save of what was loaded. `Die` ends a process at any point. Two writers
that overlap may leave the end of the longer text in the file, which then does not
parse (`Torn`), even when both store the same secret. The pair of two empty strings is a value of the environment of its
own: `authenticate` adds the header that is all `validate_credentials` asks for, so
variables left empty count as credentials. Encryption, the JSON of the two
blobs and the other accounts of the file are abstracted; `delete_credential` and
`login` have no caller in the program. `given`, `latest`, `alone` are history.

**Configuration.** `Ask`, `StoreCredentials`, `CreateFile`, `FillFile` and
`PrintClientConfig` are `run_setup_wizard` in the order of its effects; `Abandon` is
every way it can stop in between. A process is launched without an environment, with
the `.env`, with the block that setup printed, or with one written by hand; the
subcommands go over it (`Override`); the files are read one after the other
(`ReadLocal`, `ReadHome`, `LoadConfig`), and merged key by key. `OpenStore` is where a
version without catalog ends the process. `RestartAsAdvised` is what the guided
prompts ask their reader to do, "restarted with a different `api_version` (config file
or `TOPDESK_MCP_API_VERSION` env var)": a server is restarted with its command and its
environment, and the version is changed in that environment, or in the local or the
home file. `before` is the configuration of the server it replaces and `edited` whether
a file was ever changed so; both are history. Five keys stand for all: the URL without a default,
an enumeration, a label, the transport that the subcommands override, and a number.
A setting is a text in the environment and a JSON value, `String(s)` or `Number(n)`, in a
file; a number that does not parse stays a string and is refused by the
deserialisation, as is a quoted number, or an unquoted version, in a file. `Text` is the
set of all texts (`STRING` for TLC). `Versions` has the tables label by label, since their agreement is
the point of them.

**Server lifecycle.** `main` is where `run_harness_server` is, one action per effect
that the handler or the ticker can see: the exporter, `install_shutdown_handlers`,
both calls of `on_shutdown`, the extraction, `register`, `start`, serving, and its three
ways to end. The handler is spawned before it listens, takes the callbacks out and
runs them in one poll. The ticker checks without yielding (`open_store` is
synchronous), so a check occupies a worker while it lasts; with one worker nothing
else is polled then (`Polled`), and a runtime that is being dropped waits for it.
`StoreChanges` is the rest of the world: the file in the temporary directory goes,
comes back, or hangs. `taken`, `ran` and `seen` are history.

**Tool service.** A request is a task that occupies a worker from `Begin` until it has
left the catalog. `LockCatalog` takes the mutex poisoned or not, `GetEndpoint` is the
query of `get` and `call`, `LoadModel`, `Embed`, `EmbedPanics`, `ModelPoisoned` are a
search, `ValidateInput` and `ValidateOutput` the two validations with their caches. A
panic unwinds the request and poisons what it holds. What `call` does between its
validations is `CallPipeline`; whether data satisfy a schema is a constant.

**Embeddings population.** `raw` and `zst` are the two files of each catalog. One
action per change on disk: `Decompress` and `FillRaw`, `DeleteOld` and `InsertNew` for
each row, `CreateZst`, `WriteZst`, `RemoveRaw`. `Stop` is an error or the death of the
process before any of them, `Start` the next run, for all targets or one. `CleanUp` is
a person who removes a damaged working copy. `goal` is history.

**Query cache.** `get`, `set` and `clear` are one step each, under the cache's mutex.
The key that `set` evicts is the first of a hash map, so it is any. Under the
refinement an expired or evicted entry is one that was forgotten.

## 3. The runs

| Run | Instance | Shows |
|---|---|---|
| `breaker` | 3 callers, threshold 2, reset timeout 2, outage until 6, clock to 8 | count and instant are right however reports overlap; the contract is implemented; the breaker closes for good after the outage |
| `limiter` | 3 callers, limit 2, window 2, clock to 4 | at most `limit` calls that run within a window pass, and what stale instants let in on top is at most the number of callers |
| `pipeline` | 2 calls, 3 credentials, 5 deployments with 0 to 2 retries, clock to 1 | every request bears the right credential; the answer tells the truth about the effects; every call is answered whatever the network does |
| `pipeline_rate_limit` | 3 calls over HTTP, limit 2 | the limiter does not see the calls before (section 5) |
| `catalog` | 2 processes, 2 builds, 2 calls in one process and 1 in the other, 1 retry, any number of restarts, both platforms | no partial and no stale catalog is served, one connection per process, no rename under an own reader, every call comes back |
| `credentials` | 2 setups, 2 servers with any environment, 2 secrets, any earlier contents, 3 kinds of keychain, any number of restarts | environment and storage never mix; after a setup that ended with nobody else at the storage, servers load nothing but what it saved |
| `credentials_setup` | the same with a working keychain | a setup that overlaps with a server is undone (section 5) |
| `population` | 2 targets, 2 operations, 3 runs that fail or die | no catalog is lost, success is complete, only complete catalogs are published, a later run heals what failures left |
| `configuration` | 2 setups out of 9 answers, 1 restart as a prompt advises, 4 environments written by hand, 3 machine files, 2 ports | the next process finds what setup was told; settings of two setups never mix; every version offered anywhere can be served; an advised version is used unless the environment or a nearer file gives one too, and then nothing changes |
| `lifecycle` | 1 or 2 workers, both transports, 3 changes of the file, 2 signals | callbacks run once and in reverse; `/healthz` is honest and follows the file; a signal ends the process |
| `cache` | 3 keys, 2 values, sizes 0 to 2, time to live 1, time to 3 | the cache stays within its bound and implements the forgetful map |
| `tools` | 3 requests out of 8 kinds, 2 operations, 2 workers, 1 change of reachability, 1 panic | no request fails or is misjudged because of another, and every request ends |

*Why these bounds are enough.* Three actors are one more than any of the races
needs: one whose state is stale, one that made it stale, and one that notices. Where
there are two (`pipeline`, `credentials`), one of them is the actor disturbed, and the
third part is played by the network or by the second process of the other kind.
A threshold and a limit of 2 are the least that tell "full" from "not empty". The
clocks run to twice the window or timeout and beyond, so that entries expire and
are renewed; in `pipeline` the one thing that depends on the clock, a client's own
limiter and breaker, sees a single call. The breaker's parameters in `CallPipeline`
are 2 as well, and no `ApiClient` lives long enough to reach them. One and two retries
tell a first, a middle and a last attempt apart; the code's default is
configurable. Five retries of `rename` differ from one in length only. Two setups
and two servers with two secrets give a value saved over another, a stale copy of
it and somebody who reads the result. Two operations are the least with which a row
is missing and another is not, two targets the least with one done and one not, and
three failures can spoil a catalog, its recovery and the recovery of that. Two workers
and three requests leave one request without a worker; one worker is the smallest
container. Three changes let the file go, come back and hang. The advised restart
starts from whatever up to two setups left, in each of the three places; the prompt is
one that accepts two versions, so that the advised one may differ from what any setup
was told. A second restart would find in the environment or a file what a setup could
have put there. What the bounds leave
out, the theorems of section 6 cover, where there are any.

*Symmetry* is used in `limiter` only: its callers are interchangeable and no
liveness is checked.

*Deadlock* is checked in every run but two: `lifecycle`, where the process ends, and
`tools`, where all requests end. In both the liveness properties say that nobody
gets stuck before. `CallPipeline` has an action `Quiet` that stutters when
every call is answered and nothing is on the wire.

*Mutants.* Each property comes with a mutant of the code under its module, named
in PROJECT.json: a dropped guard, a kept count, an off-by-one, an overwritten
entry. The mutant's definition stands next to the one it replaces, with a comment
that starts "Mutant:", and is used by nothing else.

*Definitions proved and not run.* `QuietPeriod`, `AtMostLimitHeld`, `KeepsRecent`,
`OneCallInService` and `GuardsForgetOtherCalls` are parts of what the runs check, or of
its inductive invariant, and are proved (section 6).

## 4. Fairness

- `CircuitBreaker!FairSpec`: time passes; callers come back (the claim is about a
  breaker that is used); a wrapped call ends, because every attempt of `dispatch`
  has a timeout and attempts are counted. Nothing is assumed about the order of
  the reports or about success.
- `CallPipeline!FairSpec`: weak fairness of the handler of each call, `Serve(c)`:
  the runtime polls every task that can go on, the mutex is handed over in order,
  and `send()` returns with an answer or with the timeout of the HTTP client. No
  fairness of the network or the target API: they may lose everything. Arriving
  messages are not assumed either.
- `CatalogStore!FairSpec`: weak fairness of each call: the thread runs and its
  system calls return. A standard mutex promises no order, but a call takes it
  once and the calls are finitely many, so weak fairness is enough. No fairness
  of `Request` and `Restart`.
- `PopulateEmbeddings!FairSpec`: a run goes on until it ends, and somebody starts the
  next one. The failures are bounded, so the claim is about what happens once
  they stop; nobody is assumed to clean up.
- `ServerLifecycle!FairSpec`: weak fairness of main and of the ticker, strong fairness of
  the signal handler: on a single worker the handler can be polled only between two
  checks, again and again, and the run queue of the runtime does not pass it over for
  ever. Clients, failures, signals and the file are not assumed to do anything.
- `ToolService!FairSpec`: weak fairness of each request, and strong fairness of
  `LockCatalog(r)`: the mutex is free again and again, and among finitely many
  requests, each of which takes it once, everybody gets it.

## 5. Where code and documentation disagree

Shown by a run:

1. *Guards per call.* `src/README.md:190` puts every outbound call behind one rate
   limiter and one circuit breaker. `tools/call_tool.rs:41` builds both anew for
   every call: the limit is never reached by several calls (`RateLimitHolds`), and
   failures never add up to the threshold (`GuardsForgetOtherCalls`, proved). Items 3
   and 4 are therefore unobservable in the server as it stands; they matter once the
   client is shared.
2. *Setup undone.* `src/README.md:100` says the stdio server uses the credentials saved
   by `setup`. `credentials()` saves back what it loaded (`auth/auth_manager.rs:108`), so
   a server that loaded before `setup` saved and saves after it restores the old ones,
   for itself and for every later server (`SetupIsUsed`). When nobody is between
   its load and its save as `setup` ends this cannot happen, and that is proved
   (`LoneSetupIsUsed`).

Met while modelling; the models follow the code:

3. *One trial call.* `circuit_breaker.rs:46` promises that HALF_OPEN lets one trial
   call through. The state is not a token: every caller that arrives before the
   first report is admitted. Nor does the trial alone decide: a call admitted before
   the breaker opened that succeeds late closes it straight from OPEN.
4. *The window.* `rate_limiter.rs:8` promises at most `limit` calls per `window`. The
   instant is read before the lock, so under contention more can pass;
   `BoundedOvershoot` says how many.
5. *Shadowed catalog.* `data/store.rs:163` says a rebuilt binary can never be
   shadowed by a stale leftover. Of what was there before its extraction that is
   true, and proved (`NotStale`). A process of another build that extracts between
   this process's rename and its open does replace the catalog.
6. *Timeout of a check.* `src/README.md:203` gives each health check five seconds. The
   check is synchronous and never yields, so the timeout around it cannot fire and its
   branch is never taken. A check that hangs keeps the old verdict; on the only
   worker, or after the client of a stdio server has gone, it also keeps signals
   from ending the process: the two exceptions in `SignalEndsProcess`.
7. *Bootstrap order.* `main.rs:86` lists registry, shutdown handler, store, and health
   checks last; the code installs the handler first, extracts the catalog before it
   registers it, and starts the checks before it serves. A signal early in startup
   therefore finds few callbacks, and those registered later never run.
8. *Cascade.* `config_manager.rs:67` calls the cascade "stop-at-first-match"; the layers
   are merged key by key. A local file without a version takes it from the home file.
   Settings of two setups still never mix (`SettingsComeTogether`), since setup writes
   all of its keys.
9. *Secrets in `.env`.* `src/README.md:220` says that credentials are never persisted into
   the output of setup. `build_runtime_settings` adds them to the environment
   (`cli/setup_wizard.rs:263`), which is what the choice ".env" writes.
10. *Flags of `start`.* Setup prints `topdesk-mcp start --...` as equivalent to the
    environment (`cli/setup_wizard.rs:309`); `start` takes no such flags.
11. *The healthcheck binary.* `src/README.md:211` says that it checks the active store
    file. It opens `mcp_store.db.zst` (`bin/healthcheck.rs:16`), the default version's,
    whatever `api_version` is.

12. *Advice of the prompts.* `prompts/mod.rs:51` names the config file and the
    environment variable as two ways to get another version. They are not
    alternatives where setup left a version in the environment, in its printed block
    or its `.env`: `core/config_manager.rs:79-93` merges the environment over every file,
    and the local file over the home file, so the file is edited and the restarted
    server answers as before. `AdviceUnlessShadowed` says exactly when.

Two more behaviours a maintainer may not expect. A panic while a text is embedded
poisons the model, and every later search of the process panics without an answer,
while `get` and `call` go on (`NoInterference`). Credentials are stored before the
settings are written, under one account whatever the URL, so a setup that is
abandoned in between leaves the new credentials with the old URL;
`SetupTakesEffect` is about setups that end.

## 6. The proofs

Checked by TLAPS for all values of the constants; the only assumptions are the
named ones of the modules: thresholds, windows and bounds are naturals (the
window of the pipeline and the number of workers are positive), callers are finitely
many, `None`-like values differ from what they stand beside, setups are no servers,
each call has its process, and each deployment is a `Config`. In `Configuration` files
and environments written by hand hold settings of any kind, numbers that parse are
naturals, the words the code itself compares with are texts, and the advice followed is
that of guided prompts; in `ToolService` each
operation has two schemas. The tables of `Versions` are no parameters but the code's
own: the theorems are about these tables.

- `CoreProofs`, the cache: `CacheTypeCorrect`, `CacheForgets`. The bound counts a finite set
  before and after: `RoomIsEnough` says that one eviction makes room for one entry, or
  that the cache was empty, which is the one entry more that a size of zero allows.
  `CacheForgets` goes step by step: `set` is a `Put` that forgets the evicted key, `get` an
  answer that may forget an expired one, and time is not seen.
- `CoreProofs`, the breaker: `TypeCorrect`, `CountCorrect`, `QuietPeriodHolds`,
  `Implementation`. Lemmas say what the critical sections do to the record, and the rest
  never unfolds them again. `CountsConsecutiveFailures` is not inductive: a step to
  HALF_OPEN must keep that a failure lies behind the streak, and that it is no
  longer recent, which also is what makes HALF_OPEN admit as the contract does.
  `IInv` adds these two facts. Each step of the breaker is then a step of the
  contract or leaves it as it is.
- `RateLimiterProofs`: `TypeCorrect`, `ListBounded`, `RecentKept`, `LimitHolds`,
  `OvershootBounded`. The bound on the list is about its length; the bound on
  calls needs that every grant still inside the window is an entry of the list,
  with stale callers in between. The invariant relates the history of grants to
  the list, and the theorems count subsets of it.
- `CallPipelineProofs`: `TypeCorrect`, `OneInService`, `CredentialsKeptApart`,
  `OutcomeIsTrue`, `GuardsArePerCall`. `OutcomeTellsEffects` needs the most: only a
  call that reached `dispatch` has requests on the network, none of them of a later
  attempt than its own (`Traffic`), a reply belongs to the attempt that waits for it
  and was carried out (`Counted`), and a call is answered once (`Unanswered`).
  `OwnCredential` needs what the header and the cache hold between signing and
  sending (`Signed`), `OneCallInService` who is at the head of the queue
  (`Ownership`), `GuardsForgetOtherCalls` that a client in service is new (`Fresh`).
  One lemma per conjunct of `IInv`, one step per action in each.
- `CatalogStoreProofs`: `TypeCorrect`, `NothingPartial`, `NothingStale`,
  `ConnectionShared`, `RenameUndisturbed`. The mutex is held exactly while
  extracting (`MutexHeld`), so the path is unknown then and known afterwards
  (`PathKnown`); what is moved into place is complete (`Complete`); so what lies at
  a known path was put there since (`InPlace`), and with it what is read
  (`ReadInPlace`) and cached (`Cached`). Even the type needs this: a connection
  has a catalog because what was read was not absent.
- `SetupProofs`, the settings: `ConfigTypeCorrect`, `SetupHasEffect`,
  `SettingsNotMixed`, `VersionsAreServed`, `AdviceHelpsUnlessShadowed`. The four
  properties are about a process that has loaded, and none is inductive. `ConfigIInv`
  follows the settings on their way: nothing lies in the places that setup writes but
  nothing or all of some setup's answers (`Written`); a setup that ended left its
  answers in their place (`Finished`); a process has an environment of the kind it was
  handed (`Launched`) and, as long as no setup was active, the one that is still there
  (`Undisturbed`); what it uses is the merge of exactly that (`Merged`). For the
  advised restart, which edits files by hand, `Catalogued` says that whatever gives a
  version in them gives one with a catalog, and `TakenOver` that the layers still come
  to what the server before used, key by key but for the version, and where the
  versions in them are from. With these the properties are facts about one merge, key
  by key: which layer a key comes from (`LayerOf`, `LayersVersion`), what an
  environment says of a key (`EnvironmentKeys`), and that the answers of an ended
  setup are found wherever it put them (`AnswersFound`, `AnswersUsed`). TLC found
  `ConfigIInv` to hold on the instance of the run `configuration` before it was
  proved.
- `SetupProofs`, the credentials: `TypeCorrect`, `SourcesDoNotMix`, `LoneSetupWins`. The type
  and `SourcesKeptApart` need each other and `Stores`: what is about to be stored was
  given to setup, and a server with variables is never at the storage. For
  `LoneSetupIsUsed` the invariant `Settled` says where the one secret in use is: in the
  place that the keychain's mode decides on, and with the servers that save it back;
  `FileIsFallback` keeps the other place out of it.
- `PopulateEmbeddingsProofs`: `TypeCorrect`, `CatalogsSurvive`, `SuccessIsTrue`,
  `PublicationIsComplete`. `NothingLost` is inductive only with where the run is:
  between `CreateZst` and `WriteZst` the working copy is what the buffer holds, and while
  it is being filled the compressed file is (`FromZst`, `AtTarget`, `Readable`). What has
  been worked off is embedded (`Embedded`), so what is published is complete; what the
  loop has behind it is finished (`Finished`), so success is true. The flag
  `had_mismatch` is as in the code and never goes up, since every row has been inserted
  when the missing ones are counted: nothing here rests on it.
- `ServerLifecycleProofs`: `TypeCorrect`, `CleanupIsComplete`, `VerdictHonest`. How far main is
  decides what is registered (`Startup`, `Registered`). `Shutdown` relates the callbacks
  that have run, those still to run and those taken; `FlushLast` that aborting comes
  before flushing; `Verdict` what the registry says to what the file was during the
  check it is from.

- `ToolServiceProofs`: `TypeCorrect`, `RequestsKeptApart`. `TypeOK` itself says the most: the
  catalog is held by exactly the request that is inside, no more requests work than
  there are workers (`WorkerTaken`, `WorkersKept` count them), and a compiled schema is
  the one of its operation (`CompiledIsOwn`). `NoInterference` needs that only a search
  gets to the model and only an operation of the catalog to the validations (`Routed`),
  and that the model is poisoned by a panic (`PoisonedByPanic`). A step concerns one
  request, and `OthersApart` settles all the others at once.

Every invariant and action property that a passing run checks is proved. Only
model-checked is the liveness (`RecoversAfterOutage`, `EveryCallAnswered`,
`EveryCallEnds`, `RerunHeals`, `HealthFollowsStore`, `SignalEndsProcess`,
`EveryRequestEnds`): liveness under fairness, and `ENABLED`, are out of the prover's
reach. Of `ImplementsContract` and `ImplementsForgetfulMap` all is proved, since neither
abstract specification states fairness. Induction over data and RECURSIVE operators are
out of reach too; the modules use neither.

## 7. Not modelled

- *Libraries*: SQLite, the embedding model, JSON Schema, HTTP and its routing, the
  sessions of rmcp, the keychain, encryption, serde. They enter by what the code
  assumes of them: a query returns rows or an error, a model loads, panics or answers, data
  satisfy a schema or not, a request is carried out or lost.
- *Logging, tracing, sanitizing, the texts of errors and prompts*: output, without
  state that anything reads. `correlation_context` has no user.
- *One-shot commands and the healthcheck binary*: they have no state of their own. What a
  command reads is in `Configuration`, what `call` does in `CallPipeline`.
- *Metrics*: counters that are only incremented and printed.
- *`login` and `delete_credential`*: nothing in the program calls them.
- *Building URLs, paths, queries and bodies*: data; the pipeline knows only that they
  can be valid, invalid or missing.
- *Other keys of the configuration*: they are read, merged and overridden as the five
  that are modelled.
- *Assets* (catalogs, schemas) and the generator that the comments mention: data, and not
  part of the program.
