# Verification of SigilBridge

SigilBridge is a gateway for language-model providers: clients send OpenAI or
Anthropic requests with a *bridge key*, and the gateway authenticates, limits,
routes, retries, charges and audits them. This directory holds TLA+ models of
its concurrent core, TLC configurations that check them on small instances, and
TLAPS proofs of the properties that matter most for every size.

Paths below are relative to the repository root (`src/` in `PROJECT.json`);
`serve.go`, `admin_services.go` and `keys.go` are in `cmd/sigilbridge/commands`.

## 1. Inventory

One ingress request runs in one goroutine through
`authenticate -> rate limit -> read the body -> token limit -> budget check ->
router -> provider -> charge -> audit`. Admin API calls, the SIGHUP reload, the
CLI (a process of its own) and background goroutines run beside it and share
memory or SQLite with it.

| Component | State | Operations | What is hard | What makes it correct | Module |
|---|---|---|---|---|---|
| Router `internal/router` | per upstream one `Health` and one `Breaker`, no lock | Dispatch (Select, Allow, Chat, Success/Failure/Cooldown), Stream | all handlers write the records unsynchronised; long provider calls between the steps | never calls past an answer, a final error or the pool's size; ends; strands no upstream; a pool recovers | `Router` |
| Bridge keys `internal/auth`, `repos/bridge_keys.go` | table `bridge_keys`; LRU cache with TTL; `keyCache` (sync.Map) | Validate, Get/Put; create, patch, delete, revoke | fill after a change, evictions, read-modify-write by admins | bounded staleness; revocation and new settings take hold | `BridgeKeys` |
| Admission `internal/ingress`, `internal/budget` | `ratelimit_buckets`, `budget_counters` | Allow, PreCheck, Commit | two statements per check, check before and charge after the call, midnight, failing statements | rate never exceeded, overspend bounded, counters agree | `Admission` |
| Audit `internal/audit` | two bounded queues, the open day file, index table, archives | Write, run, Enqueue, Close, RotateAndPrune, query | back pressure, order of shutdown, day change, torn lines, rotation, crashes | accepted records reach the file and the index, but for those a fault costs; a row reads its own record; an archive is lost only by age | `Audit` |
| ACP processes `internal/cliacp`, `adapter/cliacp` | pool of child processes; two mutexes, idle timer | Get, Drop, CallWithHandler, EnsureACPInitialized, Shutdown, chatACP | cancelled and failed reads, double starts, idle timer against a call, retry | an answer goes to its own request; a retry waits for its first try; no process is left behind | `AcpProcess` |
| OAuth `internal/oauth`, `adapter/oauth`, vault | vault rows; pending logins | Bootstrap, callback, Refresh, Revoke, bearerToken | rotating refresh tokens, the network between load and store, two logins | the valid refresh token is kept; a code is used once; what is deleted stays deleted | `OAuthTokens` |
| Admin configuration `admin_services.go`, `serve.go` | pools in memory, pools file, `liveRouter` | Upsert, Delete, upsertUpstream, persist, Reload, Set, signals, start | no lock around memory, file and router; partial failure | success means that the three agree; no signal is lost | `AdminConfig` |
| Conversion `internal/ir`, adapters `internal/adapter/*`, ingress | none of their own: the client repeats the conversation | Normalize, Denormalize, Chat of each adapter, Stream, EventsTo...Stream | failover between formats in the middle of a conversation, tool calls and results | every upstream is shown what was said, the client what was answered, results follow their calls | `Conversation` |
| Plugin host `adapter/plugin/host.go` | command, backoff | Start, Stop, watch | Stop looks like a crash | one process per plugin; stopped stays stopped | - |
| Event bus `internal/events` | set of bounded channels | Publish, Subscribe, cancel | full channels; an open stream at shutdown | Publish never blocks | `Audit` (shutdown) |
| Storage `internal/storage` | SQLite file, migrations | OpenDB, Up, Backup, Restore | restore over an open file | a failed restore leaves the old file | - |
| Pricing, observability, tokens of admins, generated code, UI | none or counters | arithmetic, wiring | - | - | - |

Facts that shaped the models, read in the code:

- `ServeConfig` never calls `CheckScope`, `Cache.Invalidate`,
  `RateLimiter.Prune` or `RefreshWorker.Run`, and passes 0 as the estimated
  cost to `PreCheck` (`serve.go:191`).
- `strategy.New` makes a new selector for each selection, so that round robin
  always returns the first usable upstream; `InFlight` and `LatencyMs` are never set.
- Every error of a provider call makes the upstream fail and cool off, an error
  that must not be retried and a client that hung up included.
- A token limit that is hit is answered 402 with the budget errors, a request
  limit 429.
- Admin handlers change `adminRuntime.pools` without a lock, and
  `RouterFromConfigPools` reads it again after `Marshal` has read it.
- `Router.Stream` calls the adapter's `Chat` and turns the finished answer into
  events; the adapters' own `Stream` and the stream parsers are never called. The
  client's stream flag is copied into the upstream's body all the same (only Ollama's
  adapter clears it), so that an upstream that honours it answers with events, which
  `Chat` cannot parse.
- `ServeConfig` discards what closing the audit writer and the indexer returns
  (`serve.go:126`), the only place where the first error they met could be seen.
- A refreshed token is stored and used with whatever lifetime the server gave it.
- `internal/adapter/cloudiam` (Azure, Bedrock, Vertex) is imported by nothing.
- `StartProcess` uses `exec.CommandContext` with the context of a request.

## 2. Modules

| Module | Role |
|---|---|
| `Failover` | what `Router.Dispatch` promises its caller, abstractly |
| `Router` | the concurrent router; `Promise == INSTANCE Failover WITH ...` is the refinement mapping |
| `RouterProofs` | proofs: types, no upstream stranded, `SafetySpec => Promise!Spec` |
| `BridgeKeys`, `BridgeKeysProofs` | key rows, cache, limits cache, admin calls, time; proofs: bounded staleness, the two halves of the cache |
| `Admission`, `AdmissionProofs` | rate limits and budgets of one key; proofs of its four invariants |
| `AuditTrail` | what the audit log promises, abstractly |
| `Audit` | handlers, writer, indexer, shutdown, rotation; `Trail == INSTANCE AuditTrail WITH ...` is the refinement mapping |
| `AuditProofs` | proofs of its four invariants and of `Spec => Trail!Spec` |
| `AcpProcess`, `AcpProcessProofs` | agent processes of one upstream, their pool, pipe and requests; proofs of its safety properties |
| `OAuthTokens`, `OAuthTokensProofs` | one credential under refreshes, revocations, logins and requests; proofs of its safety properties |
| `AdminConfig`, `AdminConfigProofs` | pools in memory, in the file and in the live router; reload and signals; proofs of its safety properties |
| `Conversation`, `ConversationProofs` | a conversation of several turns through formats, adapters and streams; proofs of its four invariants |
| `MC...` | instances for TLC |

The modules meet at the places the code meets: a `Chat` of `Router` is any
outcome, and what its content is, `Conversation` says; the observer that charges
(`Admission`) is the one that writes the audit record (`Audit`); the shutdown of
`Audit` waits for the handlers, however they are occupied; the upstreams a
`Router` has are those `AdminConfig` last set.

### Router

`health`, `breaker` are the maps of `Router`; `req[r]` holds the locals of the
Dispatch call that serves `r`, and `req[r].at` is where it is. A step is one
method call on a shared record or one look at it:

| Action | Code |
|---|---|
| `Arrive` | `Resolve` and the loop header (`router.go:71-77`) |
| `LookForCandidate` | one round of `Pool.candidates` (`pool.go:30-34`) |
| `LookForRecovery` | one round of `recoveryCandidates`, with its `Allow()` (`router.go:62-67`) |
| `Select`, `SelectNone` | the selector's choice, or its error (`router.go:44-58`) |
| `Allow` | `breaker.Allow()` before the call (`:84`) |
| `ChatReturns` | `Provider.Chat` ends: answer, retryable or final error (`:89`) |
| `UpdateHealth`, `UpdateBreaker` | `Success`, `Failure`, `Cooldown` of either record (`:85`, `:92-103`) |
| `RaceOnHealth`, `RaceOnBreaker` | two such writes at the same time |
| `Elapse` | the breaker's 50 ms pass |

The records have no lock, which is a data race. A Go string is two words, so
that two overlapping stores can leave a string that equals no state: a request
may *read* a torn state while another one changes it (`HealthRead`,
`BreakerRead`), and two overlapping writes may leave either state or a torn
one, and may lose an increment (`RaceOnHealth`, `RaceOnBreaker`). A torn breaker
state behaves as closed, because the code compares with `open` and `half_open`
only. `ConsecutiveOK` decides nothing and is left out; the two counters are
saturated at the highest number the code compares them with.

### BridgeKeys

`row` is the table, `items` and `entries` the two halves of the LRU cache,
`latest` the sync.Map of `ServeConfig`, `req` a request between
`Validate` and its end, `admin` an admin call between its SELECT and its upsert.
`gone[k][x]` is a history variable: the ticks since row `k` was last live with
settings `x`. A key stands for its ID, its token and its hash; all that a row
holds besides `revoked_at` is one value of `Settings`. `Validate`, `Lookup` and
`Fill` are the three steps of `BridgeKeyStore.Validate`; `Remember` and
`LoadLimits` are the closures (`serve.go:161-192`); `PatchReads`, `PatchWrites`
and `PatchFails` are the two statements of `adminKeyService.Patch` and of the
CLI's revoke. `Patience` bounds the ticks a request may take between its SELECT
and its `cache.Put`: the code has no such bound, so staleness is stated
relative to it. `last_used_at` is left out; a restart, which only empties the
caches, too.

### Admission

One key; `rpm`, `tpm`, `daily` and `monthly` are its rows of the two tables,
`req` the handlers. Each SQL statement is an action (`RpmAdd`, `RpmTotal`,
`TpmAdd`, `TpmTotal`, `DailyUsed`, `MonthlyUsed`, `CommitDaily`,
`CommitMonthly`), as are the arrival, reading the body, the end of the provider
call, the clock, and `Fail`, the failure of a statement. `now` is read where the
code reads it, and kept. `passed` and `missed` are history variables: what the
limiter admitted in each minute, and the cents a Commit that failed halfway
charged to the day only.

### Audit

`request[r]` is where the handler of record `r` is, `queue` and `backlog` are
the two channels, `hand` is the record between `append` and `Enqueue`, `current`
the open file; `plain` and `packed` are the files of each day, `index` the rows.
The actions are `Observe` and `Write` (the closure of `ServeConfig` and
`Writer.Write`), `WriterAppends` (with `openDay`, a failing open, a failed or
torn write) and `WriterEnqueues`, `IndexerPuts`; `Shutdown`, `Leave`, `Drained`,
`WriterCloses`, `IndexerCloses` (`shutdownServers`, then the deferred calls in
their order); `Rotate`, `RotateDay`, `Compress`, `Remove`, `RotateEnds`,
`RotateFails` (`RotateAndPrune` in the command's process); `Crash`, after which
the process starts again on the same disk; `NextDay`. `Query` and
`readAuditRecord` are what the admin API would return in a state. `NextDay`
assumes that a record reaches its file before the day after its own is over, so that
one that comes after its day's file was removed does not occur.

`failed` is a history variable: the records refused by a failing append or statement.
It does not mean that somebody is told: `setErr` keeps the first error only, and
nobody reads it.

`AuditTrail` is the promise: a record is accepted, and stored in that order or
refused by a failure; a stored one is indexed at most once and leaves the archive
only by age. `Kept` of the mapping counts a file and a whole archive, never a
half-written one.

### AcpProcess

`pool` is the map entry of the upstream, `proc[p]` a process with its two
mutexes, what the agent still works on (`work`), what it wrote and nobody has read
(`out`) and the readers cancelled calls have left behind (`abandoned`). A request
goes through `Get`, `Start`, `Store`, `EnsureInitialized`, `Send`, `Receive` (or
`Eof`, `Abandon`, `Garble`) for each of its calls, and `Drop`, `Dropped` after a
broken pipe, and then once more. `Answer`, `Exit`: the agent. `Stop`, `Kill`,
`Reap`, `Forget`: the idle or dropped process, `exec.CommandContext`'s kill, the
waiting goroutine, and the goroutine that takes it out of the pool.

An agent is assumed to answer each call once, a prompt after its chunks. Between
them it may write anything else (`Babble`): an empty or broken line, an update with
other parameters, a request or notification of its own. Such noise may be skipped
(`Receive`) or end the call (`Misread`), which `Codec.Recv`, the handler's `Unmarshal`
and an id like the call's all do, while the agent works on; the error of an empty line
reads `EOF`, which `retryableProcessError` takes for a broken process. Three history
variables say what a request is exposed to: `cut`, calls that ended before their answer
was read; `astray`, processes a `Drop` was meant for and passed by, since `dropProcess`
drops what the pool holds by then; `robbed`, processes of which an abandoned reader
took a message.

### OAuthTokens

`row` is the vault row, `ops[o]` the locals of an operation between its load and
its store, `pending` the logins an admin has begun; `code`, `live` and `rotates`
are the authorization server: what became of a login, which refresh token of a
grant it accepts, and whether it replaces it at each refresh. Every call of the
server and every statement is a step, and may fail with its effect or without. A token
the server gives may be due for another refresh already (`due`): `bearerToken` does not
look at it again. `buried` is a history variable, the grants whose row was deleted with
no token of theirs in the hands of an operation.

### AdminConfig

`memory`, `file` and `live` hold a definition per pool: good, one with an unknown
provider (which `RouterFromConfigPools` refuses) or one with an upstream without
an id (which only `ValidatePools`, at the next load, refuses). A handler
changes `memory` and then goes through `Marshal`, `Route`, `Truncate`, `Write`, `Set`;
Reload through `Read`, `Assign`, `Set`. `os.WriteFile` is the two steps `Truncate` and
`Write`: between them, and after a failed write, the file is empty or torn (`None`) and
does not load. Of two writes at once the shorter may leave the end of the longer
behind; such a file is taken not to load either. Two handlers may be anywhere in that
together.
`Hup`, `Forward`, `ReloadLoop` are the two channels of a signal; `Edit` is an
operator with the file; `Boot` is the start of `ServeConfig`.

### Conversation

Text is a sequence of fragments, each said once, so that an omission, a
repetition and a wrong order all show. The client's `history` is what it sends
in each turn: its own messages, and the answers as it has understood them. `Ask`
is a turn with its normalisation; `Send(u)` an attempt on adapter `u`, with the
body it builds; `Unusable`, `Unanswered`, `Refused(status)` its failures, with
`ClassifyHTTP` and `Retryable` deciding; `Answers` the answer, parsed by the
adapter, observed, and encoded for the client in one piece or as events. The client's
stream flag goes into the body; an upstream of `Honours` that is sent it answers in
events, which no adapter's `Chat` can parse (`AnswersInEvents`), so that a streaming
client is answered by agents, by Ollama, and by upstreams that ignore the flag.
`Honours` stands for what the services of the OpenAI, Anthropic and OAuth adapters do.
Operators have the names of the functions they translate. The differences
between the adapters are the code's: for example only some hand tool calls on,
an `ollama` call has an identifier made from its place in its answer, and an
agent is shown one text.

## 3. Runs

| Run | Configuration | Checks | Result |
|---|---|---|---|
| `router` | `MCRouter.cfg` | `TypeOK`, `NoUpstreamStranded`, `KeepsPromise` | hold |
| `router_live` | `MCRouterLive.cfg` | `EveryRequestEnds`, `ServiceRecovers` | hold |
| `keys` | `MCBridgeKeys.cfg` | `TypeOK`, `StalenessBounded` | hold |
| `keys_live` | `MCBridgeKeysLive.cfg` | `SettingsTakeHold`, `RevocationTakesHold` | hold |
| `admission` | `MCAdmission.cfg` | `TypeOK`, `RateHolds`, `OverspendBounded`, `MonthlyMatchesDaily` | hold |
| `audit` | `MCAudit.cfg` | `TypeOK`, `NoSendOnClosed`, `NothingLeftAtExit`, `RowsReadTheirRecord`, `KeepsTheTrail`, `RecordsSettle`, `ShutdownEnds` | hold |
| `acp` | `MCAcpProcess.cfg` | `TypeOK`, `TextIsTheRequests`, `RetryWaitsForTheFirst`, `PoolForgetsOnlyTheDead`, `EveryRequestReturns`, `OrphansEnd` | hold |
| `acp_reuse` | `MCAcpReuse.cfg` | `IdleProcessIsKept` | violated |
| `oauth` | `MCOAuthTokens.cfg` | `TypeOK`, `CodeIsSentOnce`, `DeletedStaysDeleted`, `ValidRefreshTokenIsKept`, `DeviceLoginEnds` | hold |
| `config` | `MCAdminConfig.cfg` | `TypeOK`, `SuccessIsEverywhere`, `PersistsWhatItRouted`, `SignalIsServed` | hold |
| `conversation` | `MCConversation.cfg` | `TypeOK`, `UpstreamIsShownTheConversation`, `ClientIsToldTheAnswer`, `ResultsFollowTheirCalls`, `OnlyFaultsFailARequest` | hold |
| `conversation_billed` | `MCConversationBilled.cfg` | `StreamedAnswersAreBilled` | violated |

What the violated ones show:

- **The pooled agent dies with its first request** (`acp_reuse`). The process is
  started under the context of the request that needed it, so it is killed when
  that request returns, although `docs/cli-agents.md:77` and `:83` have it reused
  and stopped when idle. What still holds is in `acp`: the next request starts
  another one, and a call that was using it is retried or fails.
- **Streamed answers are free** (`conversation_billed`). `dispatch` reports a
  stream with no provider and no usage (`internal/ingress/server.go:135`), so its
  cost is zero, against `.project/IMPLEMENTATION.md:508`.

### What the properties except

A property that holds says where the code's promise ends. These are behaviours
the models have, found while stating the properties, and named by them:

- Router: an upstream that has failed once is not called again while another one
  of its pool answers, although `.project/SPECIFICATION.md:440` gives it a probe.
- Keys: a change or a revocation leaves the cache as it is, against
  `.project/SPECIFICATION.md:301`; a patch that read a key before it was deleted
  writes it back.
- Admission: of two requests racing for the last place of a minute both may be
  refused (`.project/SPECIFICATION.md:631` wants one statement).
- Audit: an open event stream keeps the shutdown waiting for as long as its client
  stays. At the change of the day `openDay` closes the file and, when `OpenFile` fails
  (`internal/audit/writer.go:164`), leaves the closed file current: every later record
  is refused (it is in `failed`) until a restart, and nobody is told, against "No
  silent failures" of `.project/SPECIFICATION.md:113`.
- ACP: the reader that a cancelled call leaves behind takes the next call's
  answer, which then waits as long as its own context (`robbed`). A call that ends
  before its answer, because its client left or its pipe held something else (`cut`),
  leaves a prompt behind whose chunks the next call on the pipe takes for its own; and
  its retry runs beside it when another process was dropped in its place (`astray`).
- OAuth: a refresh or login that has its token in hand stores a row again that was
  revoked or deleted meanwhile, or over the row of a newer login; a token with a
  lifetime within `refreshSkew` is used, and refreshed by every request. A server that
  rotates refresh tokens only sometimes is not modelled: with one, the valid token may
  be lost.
- Configuration: overlapping admin calls leave file, memory and router different,
  or a file that does not load; a failed one leaves its change in memory, for the next
  success to publish; a pool with an upstream without an id is accepted, routed and written,
  and refused at the next start; a failure or a crash during `os.WriteFile` leaves a
  torn file, and a reload during it finds an empty one and changes nothing.
- Conversation: a streaming client is told nothing by an upstream that streams: the
  flag is sent upstream, but `Router.Stream` calls `Chat`
  (`internal/router/router.go:115`), which parses one JSON object, so that each attempt
  fails although nothing was wrong, against "Full streaming (SSE) support end-to-end"
  of `.project/SPECIFICATION.md:49`. That is the one exception of
  `OnlyFaultsFailARequest`. The arguments of a streamed tool call, tool calls answered by
  Azure, the OpenAI form of the OAuth adapter, and web sessions, the results of an
  Anthropic client toward an upstream of the OpenAI format, and the reason of a
  cut answer from Azure, a headless agent or an Anthropic stream are lost.

### Bounds

- `router`: two requests, two upstreams, thresholds 1: with two requests on one
  record every pair of overlapping writes occurs, and a threshold of one makes
  every failure open the breaker. The counters themselves are exercised by
  `router_live` with the code's own thresholds, 2 and 3, on a pool that lists
  one upstream twice (which `ValidatePools` accepts), so that one request can
  fail twice; recovery with a half-opened breaker of *another* upstream is in the
  safety run only. The proofs cover all other values.
- `keys`: a cache of one entry that two keys contest makes every fill of one
  evict the other; `TTL = 2` and `Patience = 1` distinguish fresh, ageing and
  expired entries. `keys_live` uses two settings so that an old and a new row
  can be confused.
- `admission`: three minutes, each a day of its own, the third in the next
  month, so that every boundary is crossed by requests in every place; two
  handlers and four arrivals (`MaxArrivals`, with `MaxClock` the only counter
  bounds), of at most two cents, are enough to exceed each limit and each
  asserted bound if the checks were not there.
- `audit`: three records (`MaxRecords`) fill both channels, of one place each,
  and the writer's hand, so that every sender blocks; `CompressAfter = 1`,
  `Retention = 2` and days 0 to 3 (`MaxDay`) let a file be written, compressed and
  pruned; one fault (`MaxFaults`) may be any failing call, or a crash with its restart.
- `acp`: two requests may both start a process, of which one leaves the pool, and one
  fault lets one request or process disturb the other; with `MaxStarts = 2` a retry has
  a process of its own unless both requests have started one, and then fails to start
  it. The agent closes sessions, which is the longer protocol.
- `oauth`: three operations (`MaxOps`), so that two refreshes, or a refresh and
  a revocation, overlap a login or a request; one login that may come back
  twice; one fault. One of the operations may be a device login.
- `config`: two handlers and the reload loop are three writers of the
  configuration; two pools, so that one handler's change can be lost beside another's;
  two signals, so that one comes while the other is served; one fault (a failed write,
  a crash or an edit).
- `conversation`: three turns (`MaxTurns`): a call in the first, its result in the
  second, and both repeated in the third, to another adapter; pools of two
  (`PoolSize`) of any of eleven adapters, so that each follows the failure of each.
  The twelfth, Vertex AI, converts as Bedrock does.
- Deadlock is not checked: a gateway without requests is idle, and the bounded
  runs stop at their bounds. That nothing waits for ever is stated instead, as
  `EveryRequestEnds`, `ShutdownEnds`, `RecordsSettle`, `EveryRequestReturns`,
  `OrphansEnd`, `DeviceLoginEnds` and `SignalIsServed`.

### Fairness

`Router!Fairness`: every goroutine inside Dispatch keeps running, provider
calls end (the adapters' HTTP client has a timeout of ten minutes,
`internal/httpclient`), and time passes. `BridgeKeys!Spec` is fair to handlers
and to time. `Demand`, used by `router_live`, is an assumption about clients:
they keep sending requests. `ServiceRecovers` excludes pools whose upstreams all
have a torn health state: those are never selected again.

`Audit!Fairness`: the goroutines of handlers, writer, indexer and shutdown run.
`AcpProcess!Fairness`: those of requests and processes run, agents answer the
calls they have been sent, and `exec`'s kill reaches a process. A request calls `Chat`
once, a process takes its place once and an operation logs in once, so that
`EveryRequestReturns`, `OrphansEnd` and `DeviceLoginEnds` say that again and again none
is left. `OAuthTokens!Fairness`:
operations run, the token endpoint replies, and the user decides or the
device code expires. `AdminConfig!Fairness`: handlers, the signal goroutine and the
reload loop run. Only weak fairness is used, and never of a fault, a client that
leaves, an operator or an admin. `Conversation` states no liveness.

## 4. Proofs

Every safety property of the passing runs is proved, for any sets of requests,
upstreams, pools, keys, operations and admins and any limits, thresholds, channel
sizes and bounds. Each component has a module of proofs with one inductive invariant
(`IInv`; `WInv` for the cache of `BridgeKeys`; `CoreInv`, `ViewInv` and `TieInv`, each
with the one before it as a conjunct, for `Conversation`) and one lemma or more per
action. TLC has checked each `IInv` as an invariant of a small instance before it was
proved; those of `Conversation` speak of functions on infinite sets, which TLC cannot
evaluate.

### What is assumed

The assumptions are the named `ASSUME`s of the modules, which TLC evaluates in
each run:

- Thresholds, channel sizes, cache size and time to live are positive, bounds and
  limits are natural numbers, and members of pools are upstreams.
- `None` is none of the values it stands beside (keys, rows, tokens, cache
  entries, indexed records).
- Handlers of `Admission`, requests of `AcpProcess` and pools of `AdminConfig`
  are finitely many. The overspend is bounded by their number, so that it would say
  nothing without this.
- `Admission`: a request has a largest cost, days and months do not go back, and a
  day lies in one month: the keys are `2006-01-02` and `2006-01` of the same UTC time
  (`tracker.go:30`, `:34`).
- `Conversation`: the adapters of the pool are among the twelve the model has, and
  a pool has at least one place.

### What is proved, and why the invariants are what they are

**Router.** `RouterTypeOK`, one lemma per action. `RouterNoUpstreamStranded`: a
degraded or sick upstream has a request at its `Cooldown()`. The invariant adds
where a request holds an upstream. Only `Failure` makes a record degraded or sick
and its request goes to `cool`; every other write, also one that overlaps, leaves
another state or leaves that request where it is. `RouterKeepsPromise`:
`SafetySpec => Promise!Spec`. The invariant relates the abstract variables to
places: `calls` is at most `attempt` plus one, below the pool's length where a call
may still start, and `outcome` is what the place says. Two requests may end in the
same step of a race, which is why `Failover!Finish` takes a set.

**BridgeKeys.** `BridgeKeysStalenessBounded` speaks of a step; its invariant of
what leads there: a live row is 0 ticks old (`LiveIsNow`), a row a request has
read is at most `waited` ticks gone (`ReadsRecent`), and a cached one at most
`age + Patience` (`EntriesRecent`). It needs no fact of the LRU list, so eviction
order cannot matter. `BridgeKeysTypeOK` is about that list: the map and the list hold
the same keys, each once (`WithoutKey`, `PushKey`, `DropLast` say what the list
operations do to a list without repetitions); the entry that `Put` evicts is never
the one it has just put, because the cache has room for one.

**Admission.** `AdmissionTypeOK`, `AdmissionRateHolds`,
`AdmissionMonthlyMatchesDaily`, `AdmissionOverspendBounded`. The rate holds because
what a minute has admitted, plus what is about to read its total, is at most what its
bucket counts (`PassedCounted`): a request that reads `n` is the `n`-th or an earlier
one. The counters differ by the charges between the two statements of `Commit` and
those a failure stopped there (`CountersAgree`). The overspend is an account: a
counter over its limit, plus the largest cost for every handler that may still
charge it, is at most the limit plus the largest cost for every handler (`Overspent`).
Who may still charge a day (`MayChargeDay`) includes the handler that was checked
against the day before, which is what makes the account right at midnight.
The sums are folds over finite sets. Their laws (a sum over a set without one
element, of a function changed at one place, of a pointwise smaller function) are
proved from a smallest set that would break them: the library's induction cannot be
instantiated, but the strict order of finite subsets is well-founded
(`SmallestSubset`), which says the same.

**Audit.** `AuditTypeOK`, `AuditNoSendOnClosed`, `AuditNothingLeftAtExit`,
`AuditRowsReadTheirRecord`, and `AuditKeepsTheTrail`, `Spec => Trail!Spec`. An
accepted record is in the queue, in the writer's hand, in the backlog, or settled, in
one of these and once (`Once`, `Accepted`). A row points to its own line because a
file that may be compressed or removed is not written to any more: a record waits
on the day of its stamp or the next (`WaitsNotLong`), what is rotated is older
(`PastDays`), and an archive holds only lines of the file beside it, all of them
before the file is removed (`Archives`). The offsets' bound in `TypeOK` counts a line
for each record taken from the queue and for each fault (`Stored`). In the
refinement each action is a step of the promise or a stutter; `Expire` is
`Remove` of a file whose retention is over.

**AcpProcess.** `AcpProcessTypeOK`, `AcpProcessTextIsTheRequests`,
`AcpProcessRetryWaitsForTheFirst`, `AcpProcessPoolForgetsOnlyTheDead`. The heart is
`Outstanding`, said of each call by itself: as long as it was not cut short, what the
agent works on or has written for it is on the pipe on which its request waits for it,
and its answer is the last of it. What a handler reads is then its own, or of a call
that was cut short. Those stay in the past (`CutIsPast`): a call is not sent again, so
that no later call of the same request is mistaken for it. `First` follows the first
prompt of a request whose client waits: while an agent works on it the request waits
for it, or is dropping that process, or has dropped another instead. Why the properties
except calls that were cut short: what the agent still writes for one of them reaches
whichever request calls on that pipe next, and nothing in the code tells it apart.

**OAuthTokens.** `OAuthTokensTypeOK`, `OAuthTokensCodeIsSentOnce`,
`OAuthTokensDeletedStaysDeleted`, `OAuthTokensValidRefreshTokenIsKept`. The code
of a login is with the browser, with one operation, or has been sent (`OneSender`).
Of a grant that was buried nothing is left, in the vault, in an operation's hands or
still to come, because its code was used before (`Burial`).
What an operation is about to store is the refresh token the server accepts; when the
server rotates them, one operation at most is about to store it, and every other
holder of a token of that grant, the vault included, holds an older one
(`StoresTheLive`). A refresh token is numbered by the rotations before it, at most one
for each operation (`SerialsBounded`).

**AdminConfig.** `AdminConfigTypeOK`, `AdminConfigSuccessIsEverywhere`,
`AdminConfigPersistsWhatItRouted`. A router that a handler holds was built from pools
that can be routed (`RoutersComplete`), so no order of handlers makes an incomplete one
live. A handler that has met no other holds, at each place, what memory and file hold,
or has just truncated the file (`HoldsWhatIsThere`), which needs that it still is by
itself (`AloneIsAlone`).

**Conversation.** `ConversationTypeOK`, `ConversationClientIsToldTheAnswer`,
`ConversationUpstreamIsShownTheConversation`,
`ConversationResultsFollowTheirCalls`, for every pool of the adapters and any
number of turns. All that the code does to a conversation is to put a sequence in the
place of each of its elements and to join them (`FM`); the laws of that (of a
concatenation, of one map after another, of maps to single elements or to nothing)
rest on one fact: a set of sequences that has the empty one and, with a sequence,
each one longer by an element, has them all (`SequencesByAppend`, from the least
number that breaks it, as for the sums of `Admission`). `CoreInv` follows an answer
through its adapter (`ChatResponse`), its encoding or its events (`ChunksOfStream`)
and the client's reading of them (`ToldAnswer`). `ViewInv` says that the client's
messages repeat what was said (`Repeats`), for every kind of upstream and not only
for the one asked: the next turn, or the next attempt, may go to any other. Each thing
said and the message that repeats it are shown alike (`QuestionRepeats`,
`AnswerRepeats`, `ResultsRepeat`), joining keeps this (`RepeatsJoin`), and each
adapter's body shows what its request's messages show (`UpstreamBody`). That a role
has no place in a format, a call no arguments in a stream, is in `ShownTo` and
`AsTold`, as in the property.

`ResultsFollowTheirCalls` needs less of a message and more of its place: its tie, which
is whether it is an assistant's, the identifiers it calls by and those it answers. The
ties of a body are those of the history, message by message, behind at most one system
message (`BodyTies`). `TieInv` says that they are in order while a request is on its
way and that, while the client has the turn, those before the last answer are, and
the calls of that answer have at most two identifiers, none empty and no two alike
(`AnswerNumbers`; Ollama's are numbered by its adapter). It has to say so of every
kind of upstream, and with and without the system message, because the next attempt may
be on any. A turn keeps it (`TurnInOrder`): the client answers each call once, in a
message for each (`ToolTies`) or in one for all (`ResultTies`), of which an upstream
of the OpenAI format is shown no result (`Answerable`).

`OnlyFaultsFailARequest` (`ConversationOnlyFaultsFailARequest`) is kept by `FlagInv`: the
request has the client's flag for as long as it is on its way, and no upstream but an
agent is sent more than that (`BodyFlag`), so that only a streaming client is answered
in events.

### What is only model-checked

- Liveness (`EveryRequestEnds`, `ServiceRecovers`, `SettingsTakeHold`,
  `RevocationTakesHold`, `RecordsSettle`, `ShutdownEnds`, `EveryRequestReturns`,
  `OrphansEnd`, `DeviceLoginEnds`, `SignalIsServed`): the prover has no rules for
  `ENABLED`, so that fairness cannot be used.
- `IdleProcessIsKept` and `StreamedAnswersAreBilled`, which do not hold.

## 5. Not modelled

- Router, keys, admission: failure of the random source (an error of the
  selector); token formats and hashes; `last_used_at`; estimates of tokens and
  cents; rows of other keys; pruning of old buckets, which nothing calls.
- Audit: the query's filters and cursors and the CLI's tail, which only read; two
  rotations at once.
- ACP: `session/new` and `session/set_config_option`, which fail and end like
  `initialize`; the Content-Length framing, in which a bad header would also shift what
  follows it (ACP upstreams use lines unless configured otherwise); the health check;
  `Pool.Close`; the notification of a cancelled session. Headless agents are sequential
  commands and appear in `Conversation`; that two requests share the map their prompt is
  written to does not.
- OAuth: the provider definitions and how they are saved; the refresh worker,
  which nothing starts; encryption of the vault.
- Configuration: a read of the pools in the middle of a change of them, which are one
  value in the model; pricing, which Reload does not read; the OAuth providers
  (saving them does not reach the adapters that run); fields of a pool.
- Conversation: images, documents, tool definitions, thinking and sampling
  parameters; token counts and usage; the adapters' own streaming and the stream
  parsers, which nothing calls; gRPC plugins. Reading an Anthropic stream without
  block starts is the client's affair: a client is assumed that joins what it gets.
- The plugin host, migrations, backup and restore, admin tokens, observability,
  the UI: see `PROJECT.json` for the reasons.

## 6. Plan

1. `Failover`, `Router`, `BridgeKeys`, `Admission`, `AuditTrail`, `Audit`,
   `AcpProcess`, `OAuthTokens`, `AdminConfig`, `Conversation` modelled and checked;
   their safety properties proved - done.
2. `PluginHost`, and the price arithmetic over bounded inputs.
