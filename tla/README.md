# xCloudAPIM in TLA+

A verification project for the xCloudAPIM API-management platform: TLA+ modules
translated from the Go and TypeScript sources, TLC runs on small instances, and
theorems checked by TLAPS. `PROJECT.json` maps every definition to the lines it
models and lists runs, mutants, hazards and theorems.

## 1. The system

| Part | State | Operations | Talks to |
|---|---|---|---|
| gateway (Node, `gateway/src`) | route table and policy-chain cache in memory; rate-limit counters, breaker state, key entries, introspection results and cached answers in Redis | catch-all handler: match, `pre_request` plugins, upstream, `post_response` plugins; route synchronisation by timer | registry (routes), policy engine (chains), subscription (keys, plans), authorization server, Redis |
| subscription service (Go) | PostgreSQL: plans, subscriptions, api_keys, quota usage, audit log; Redis: key entries, counters | create, approve, suspend, cancel, change plan; create, revoke, verify key; check and increment quota | Redis, PostgreSQL |
| registry service (Go) | PostgreSQL: apis, api_versions, gateway_routes | create, update, publish, deprecate, delete; routes delta | gateway, Kafka |
| auth service (Go) | PostgreSQL: users, clients, tokens; Redis: codes, blacklist, login counters; signing keys from Vault | authorize, exchange, refresh, revoke; register, login, logout, verify session | Redis, PostgreSQL, Vault |
| policy engine (Go) | PostgreSQL: policy_chains and versions; Redis cache; compiled chains | create, update, publish, rollback, delete, compile, execute | gateway, Redis, PostgreSQL |
| audit sink (TS) | consumer-group offsets, hash-chained `audit_log` in PostgreSQL | consume, append | Kafka, PostgreSQL |
| analytics, notification (TS) | consumer-group offsets, documents in MongoDB, counters in Redis | consume, aggregate, dispatch to email, webhook and in-app | Kafka, MongoDB, Redis |
| BFF (GraphQL) | request-scoped only | queries and mutations, each several HTTP calls | all services |
| portal (Next.js) | a session cookie, pages and forms in tabs | sign in and out, browse, subscribe, manage keys | BFF, auth service |
| studio (React) | an editor of policy chains | edit, save, publish | BFF |

What is hard in it: services run without transactions over several statements,
so two requests interleave between a check and its write; the gateway works
from copies (Redis entries, the route table, chain and answer caches) that must
follow their origin without being told; goroutines and Redis pipelines outlive
or break off the request that started them; time-outs fire while the other side
goes on; gateways restart from what another one left in Redis; several gateways
with different clocks share one rate limit; consumers crash between a write and
its offset, lose a partition in the middle of a message, and swallow errors; a
GraphQL operation fails after part of it has been committed; browser tabs share
one cookie.

What makes each part correct:

* *Subscriptions*: status changes follow the transition table; a cancellation
  is final.
* *API keys*: no more keys than the plan allows; a revoked, expired or orphaned
  key stops being accepted and never comes back.
* *Circuit breaker*: an open breaker keeps requests away until its timeout, is
  retried after it, and is meant to be closed by a successful probe, which does
  not happen (`breaker_reset`).
* *Registry*: a version is published once and has one route row. (A
  publication between the two statements of a deletion leaves an API published
  and deleted; its routes stay.)
* *Route tables*: only registry routes, none lost, none dropped while running.
* *Pipeline*: nobody reaches an upstream past an authenticating policy, a
  revoked token soon lets nobody in, every request is answered, an answer from
  the cache is as good as the one that was stored. It is meant to be that
  answer, and headers of the plugins to reach the client: neither is so
  (`pipeline_claims`).
* *Policy chains*: the chain in use is the last one published, or an older one
  for a bounded time.
* *Rate limits*: no more requests in a window than allowed, whichever gateways
  take them, and a client that waits as told is let pass.
* *Audit log*: rows are appended one by one and each is linked to the one
  before; no event is lost but by a failure. That a row can be verified from its
  columns and its number is promised and not kept (see `AuditSink` below).
* *Analytics, notification*: every message is counted once; a notification
  marked sent was delivered; the consumer never gets stuck.
* *BFF, portal*: success means done and an error not done; who signs out is out
  and who is signed in stays; a page shows what there is, which is not true of
  APIs (`portal_catalogue`).
* *Tokens and sessions*: a code is exchanged once, a rotated or revoked token
  stays refused (not modelled).

## 2. Modules

| Module | Models | Extends |
|---|---|---|
| `Subscription` | lifecycle of subscriptions, audit trigger | |
| `ApiKeys` | creation, revocation and verification of keys, the Redis entry and the goroutine that fills it | `Subscription` |
| `CircuitBreaker` | the breaker plugin, one step per await | |
| `Registry` | APIs, versions, publication, deletion, route rows | |
| `RouteTable` | gateways following the registry | `Registry` |
| `Plugins` | the request context and every plugin as an operator on it | |
| `Pipeline` | the catch-all handler, phases, authentication methods, introspection and answer caches | `Plugins` |
| `ChainCache` | a chain's way from the engine's database to a request | |
| `RateLimit` | the three Lua scripts, the plan resolver, gateways with their own clocks | |
| `AuditLog` | what an audit log promises (abstract specification) | |
| `AuditSink` | the sinks and their transactions; implements `AuditLog` | instance of `AuditLog` |
| `Consumers` | the analytics and the notification consumers | |
| `Bff` | GraphQL operations and their calls of the services | |
| `Portal` | a browser with tabs, the middleware, pages and forms | `Bff` |
| `MC*` | constants for TLC | the module of that name |
| `ApiKeys_proofs` | theorems on subscriptions and keys | `ApiKeys` |
| `RouteTable_proofs` | theorems on the registry and the route tables | `RouteTable` |
| `Portal_proofs` | theorems on the BFF and the portal | `Portal` |
| `Pipeline_proofs` | theorems on the plugins and the pipeline | `Pipeline` |
| `RedisPlugins_proofs` | theorems on the breaker and the rate limiter | `CircuitBreaker`, `RateLimit` |
| `ChainCache_proofs`, `AuditSink_proofs`, `Consumers_proofs` | theorems | the module of that name |

`ApiKeys` composes the key tables with the subscription table: a step of
`Subscription` is the action `SubStep` of `ApiKeys`. `RouteTable` composes the
gateways with the registry in the same way (`RegistryStep`), `Portal` the tabs
with the BFF (`Serve`). `Pipeline` runs the operators of `Plugins`; the breaker
and the rate limiter appear there by their outcomes, which `CircuitBreaker` and
`RateLimit` model in detail, and the chain of a phase is any version or none,
of which `ChainCache` says how old it can be.

### Subscription

`status`, `plan` and `audited` are the columns of the tables. Approve, Suspend
and Cancel are two actions: `ReadForTransition` (the SELECT and `CanTransition`)
and `UpdateStatus` (an UPDATE by id that does not look at the status again,
with the trigger `log_subscription_changes`). `admin` holds what requests have
read in between. The audit log is a set: which change came after which read is
not in it but in `since`, a history of the status changes that others have
written to a request's row since its SELECT. `MovedOn` reads it: others took the
row away from the status the request has read and to the one it has now. So the
code does write transitions, cancelled to active among them, that the table of
`errors.go:19` calls illegal; `IllegalMeansOvertaken` says when.

### ApiKeys

`Create` is three statements (`CreateReadSub`, `CreateCount`, `CreateInsert`).
A verification starts at the gateway (`GatewayHit`, `GatewayMiss`), goes on in
the service (`VerifyHit`, `VerifyMiss`, `VerifyKey`, `VerifySub`,
`VerifyError`), and leaves a goroutine (`fill`) that writes Redis
(`FillCache`), half of it (`FillTorn`, when `TornPipeline`) or nothing
(`FillFails`). `GatewayTimeout` lets the gateway decide while the service goes
on. A key, its id and its SHA-256 hash are one value; expires_at is relative to
the present (never, future, past); the five minutes of a Redis entry are `TTL`
ticks. A Redis lookup may miss although there is an entry: that is a Redis
error, which the code treats as a miss. `RevokeByID` leaves Redis alone, though
its comment says that it clears the cache (`apikey_service.go:178`): nothing
calls `InvalidateKeyInfo`. And "TTL 5 minutes" (`redis.go:23`) is two commands of
a pipeline, of which a broken connection may leave the first: such an entry is
the exception (`Torn`) in `RevocationTakesHold`.

### CircuitBreaker

One request runs the plugin twice, `code[r] = "0"` telling the first time from
the second, as `ctx.statusCode` does. Each await is an action, since another
gateway may act on the same keys in between, and an INCR and its EXPIRE are two
(`CountProbe` and `ExpireProbe`, `CountTotal` and `ExpireTotal`, `CountFail` and
`ExpireFail`): a command that fails after the INCR leaves a counter in
`lasting`, the counters without an expiry. `quiet`, `brought` and `failed` are
history: how long nobody was in the half_open branch, whether a request has
arrived with the header of a probe, and whether a command has failed. The answer
of a probe is counted as one more probe, so fewer than `half_open_max` requests
are let through, against the comment of `circuit_breaker.go:20`. `openAge` is
the age of `cb:open_at` up to the timeout, a missing key counting as old, as
`parseInt(... ?? '0')` makes it. A 4xx answer counts as a success, as in the
code; `"2xx"` stands for everything below 500. Trip's four commands are split in
two: the one for `cb:state`, and the other three, which no reader tells apart.

### Registry

`PublishVersion` is read, `UPDATE ... WHERE status = 'draft'`, the API's
status, and the route's upsert, each an action; `JobFails` ends a request at
any of them. `Delete` is a SELECT and an UPDATE. A version has at most one row,
because it is published at most once: `RegInv` states it and the proof shows it
rather than assume it. Each statement commits by itself, as database/sql does
outside a transaction, and `updated_at` is the second of that commit.

### RouteTable

`LoadFromCache`, `Fetch` and `Process` follow `loadFromCache`, `fullSync` and
`syncRoutes`. `Fetch` is the registry's query, `Process` what the gateway does
when the answer arrives: the time between them is where a route is lost. An
empty list is a nil slice in Go, `null` in JSON, and dropped by
`Array.isArray`, so `lastSyncAt` does not move. `overlooked` is a history
variable; no action reads it. One clock is assumed, one synchronisation per
gateway at a time (interval and time-out are both five seconds), and a write to
Redis takes effect at once or not at all.

### Plugins and Pipeline

A context (`createExecContext`) is a record; a header or query parameter is its
name, a credential one of ten values. A plugin maps a context to the set of
contexts it may leave behind, one for every outcome of the services it asks
(`Effect`, `AuthResults`), and `HeaderOp` and `Rename` are the transform
operations. `h[r]` is the handler of connection `r`: the chain of the phase, the
policies still `todo`, the context, and the answer last given. `BeginPhase`
loads and sorts a chain (`PhasePolicies`), `SkipPolicy` and `RunPlugin` are the
loop of `executePhase`, `TryMethod` and `UnknownMethod` the loop over
authentication methods. The introspection of a token reads Redis, asks, is
answered, takes the answer (`IntrospectTake`) and stores it in Redis
(`IntrospectStore`), each an await that other handlers, a revocation or the
clock may come between; `RunCacheLookup` and `RunCacheStore` are the two halves
of the cache plugin; `Forward`, `Respond` and `ResponseBreaks` are
`forwardRequest`, and `Flush` and `Finish` the two ways to answer.

The model shows what the handler does with its pieces. A request's own query is
forwarded, not the one the plugins edited, so a removed `api_key` still reaches
the upstream. An abort in `post_response` is ignored. The phases `post_request`
and `pre_response` never run. A verified API key sets the context's API to the
key's API, so the second phase may run another API's chain. An unknown policy
type is skipped. The address filter is abstracted to set membership: in the
code a range `/0` behaves as a single address, because `1 << 32` is 1. The key
of a cached answer (`buildKey`) holds the values of the headers that
`vary_headers` names.

### ChainCache

The chain of one API is its version number. `SaveVersion` and `Invalidate` are
the engine's publication, two steps with a failure in between; `EngineHit`,
`EngineRead` and `EngineFill` its read path, where a fill may come after the
invalidation it should have come before; `UseCached`, `FetchStart`, `Fetched`,
`Refuse` and `FetchFails` are `getPolicyChain`, with its fallback to a chain of
any age. `retired` and `lag` are history variables for the properties.

As the code stands `getPolicyChain` sends no `X-Internal-Token`, so the engine
answers 401 and `Refuse` is all that happens; the rest is the behaviour of a
deployment that adds the token on the way. The management API's `Publish` scans
columns its struct has no fields for and fails, a wrapped `sql.ErrNoRows` makes
500 of what should be 404, and `GetByAPIID` does not exclude archived chains;
none of these is in the model, whose publications are those of `SaveVersion`.

### RateLimit

`SlidingRuns`, `FixedRuns` and `BucketRuns` are the scripts, each atomic in
Redis but run with the time its gateway read up to `Delay` ticks before, on a
clock `Offset` ahead; Redis expires keys by its own. Tokens are counted in
parts, so that refilling is integer arithmetic. A request checks its periods
one after another (`Following`) and stops at the first refusal. A script that
Redis does not take lets the request pass (`FailOpen`), whatever `fail_open`
says, which nothing reads; one whose answer is lost (`AnswerLost`) does so too,
or ioredis sends it again with the same arguments, and the request is then
counted twice. `Start`, `PlanFound` and `PlanFails` are the plan resolver with
its local cache; the plan found may be the one before a change. `zset` holds the
sorted sets, `count` and `cexp` the fixed windows' counters, `bucket` the hash.
`grants` records what was let pass, when and with which stamp, `promise` what
the last refused client was told. Refused requests count in a fixed window, as
in the script. The resolver's second level looks under the client's id though
entries are stored under the key's hash, and its third sends no internal token:
both are `PlanFails`.

### AuditLog and AuditSink

`AuditLog` is the promise of `V9__audit_log.sql` and `docs/DEPLOYMENT.md`:
append one row linked to the last. `AuditSink` is `eachMessage` and
`appendAudit` as steps (`Take`, `Lock`, `ReadLast`, `Insert`, `Commit`, `Fail`)
of several sinks of one group, with offsets committed later, a partition that
moves to another sink while the old one is in the middle of a message
(`Assign`), and crashes, after which PostgreSQL rolls back. A commit whose
acknowledgement is lost is `Commit(s, FALSE)`. `Log` drops the id from the
table and is the refinement mapping. The hash (`Hash`) and what a JSONB column
gives back of a payload (`Jsonb`) are operators with no assumption on them; for
TLC the hash is the pair of its arguments and `Jsonb` another value than the
text that was hashed.

Two things the documents say are outside the promise, because the code does not
keep them: a rolled-back insert consumes an id, so `prev_hash` of row N need not
be `row_hash` of row N-1 (`docs/DEPLOYMENT.md:374`; `IdsIncrease` is what
remains), and `jsonb` does not keep the text, so the hash cannot be recomputed
from the columns (`V9__audit_log.sql:4`). What `Linked` says is that the chain
does not fork, whatever the columns hold. Messages sent before
the group has an offset are skipped (`fromBeginning: false`).

### Consumers

`service` says which of the two groups runs. For analytics a message is inserted
as a raw event and then makes three parallel updates (`ops`): the hourly and
daily buckets and the realtime counter. `Promise.all` gives the message up with
the first update that fails, and the others go on by themselves (`Reject`). An
upsert is `FindBucket` and `Update`; its filter names `bucketType`, which the
unique index does not, so the loser of a race to create a bucket is refused
(`UpdateRefused`) and its count is gone. A call that fails may have been
executed: an event stored without its counts (`InsertUnanswered`), an upsert
that counts and rejects (`UpdateUnanswered`). The Redis pipeline is different:
its `exec` resolves with the errors of the commands, which nobody reads
(`UpdateFails` of the realtime counter is silent), and after a lost connection
ioredis sends the commands again (`CountTwice`). For notification
`dispatch` goes through the channels: `LogPending`, the sender with its retries
(`SendEmail`, `SendWebhook`, `WebhookGivesUp`, `SaveInApp`), `LogResult` or
`LogFails`. With `WEBHOOK_MAX_RETRIES` 0 the loop of `sendWebhook` is not entered
and the result is failed; a channel that is neither email nor webhook is stored
like `in_app`, as the `else` of `dispatch` has it. Every
error is swallowed and the offset moves on. A log write whose answer is lost
leaves what the write and then `LogFails` leave, and has no action of its own.
`hits`, `refused`, `lost`, `twice`, `failures` and `stuck` are history for the
properties. The producer of `auth.events` writes
`event_type` where the consumer reads `event`, so those messages are the kind
`otherAuthEvent`; no service of the repository produces `api.requests`,
`quota.exceeded` or `notification.send`, whose messages come from outside.

### Bff and Portal

`op[c]` is the operation of a caller, from `Sends` to `Answer`. `Mutate` is the
call that changes a service, `ReadBack` the GET that follows some of them,
`Field` the field resolvers of a node, `CallFails` and `AnswerLost` a call
without and with effect, and `Complete` the completion of a result against the
schema: the registry's JSON has no `version`, `base_path`, `upstream_url` or
`org_id` and its status `published` is not in the enumeration, so an API in a
result is an error, which travels up to the first nullable field. A list without
an API is an error too: a nil slice of Go is `null` in JSON, whose `map` the data
source calls (`ReadApis`). The keys of a subscription are listed with their
status, revoked ones included (`KeysOf`).

`Portal` has the tabs' places, their forms and dialogs, the cookie, and what
each page shows. `Visit` is navigation through the middleware, `Load` a reload
or a typed address, which also remounts the navigation bar; `Controls` are the
buttons a page offers. A login page that a tab has been shown stays in the
client router's cache (`cache`, `Kept`) and comes back by a link or the Back
button without a request and so without the middleware (`Restore`);
`router.refresh()` and a full load empty that cache. Only the login page is
restored: other pages would come back as they were and offer the buttons a
`Visit` offers. That a browser restores a page across a full load is left out,
since these pages are rendered for each request. A sign-in opens the page that
`next` names, any of `Nexts`. The copies of the sign-in forms at `/login` and
`/register` are outside the middleware's matcher (`PlainLogin`). The BFF does
not ask for the blacklist and the portal's logout does not call the auth
service, so a token is live or expired, and one hour of token stands against
seven days of cookie (`ExpireToken`, `ExpireCookie`). A created key's plain
text is never shown; the model has no state for it.

## 3. Runs

| Run | Checks | Shows |
|---|---|---|
| `subscriptions_and_keys` | `SubInv`, `IllegalMeansOvertaken`, `CancelSettles` | an illegal status change needs a request that was overtaken after its check; with nobody in flight a cancellation is final |
| the same | `KeyInv`, `DeadKeysStayDead`, `RevocationTakesHold` | every Redis entry comes from a row check, a dead key is refused once entries and requests from before are gone, and they go |
| the same | `OvershootBounded` | the key limit is exceeded by concurrent creations only |
| `breaker` | `CBInv`, `OpenHolds`, `OpenIsRetried`, `LullRestoresProbes` | answered requests alone are counted, a probe never, and a counter lacks an expiry only after a failed command; open means refused until the timeout, except for readers between the two writes of a trip, and is retried after it; half_open refuses only while other requests keep its counter alive |
| `routes` | `SyncInv`, `RoutesWrittenOnce`, `LostRoutesStayLost`, `RoutesKept`, `RoutesArrive` | a route reaches every gateway unless written while an answer was under way; a publication whose upsert failed cannot be repaired |
| `pipeline` | `AuthBeforeUpstream`, `HitsAreGood`, `RevokedTokenEnds`, `RequestsAnswered` | authentication guards the upstream and the cache behind it, whatever fails; a hit repeats a success; a revoked token is refused after the lifetime of a cached introspection and the calls that were under way; every request is answered |
| `chains` | `LagBounded`, `Converges` | without failed fetches a replaced chain is used for a bounded time, late fills included, and the latest one arrives |
| `ratelimit` | `SlidingHolds`, `FixedHolds`, `BucketHolds`, `RetryAfterEnough` | the limits hold up to the difference of the clocks; the fixed window lets twice the limit pass with one clock and nearly three times with several; waiting for Retry-After and that difference is enough |
| `audit` | `LostOnlyByFailure`, `AppendsOnly`, `Drained` | the sinks implement the audit log; crashes and rebalances lose nothing, failed appends do |
| `consumers` | `CountsAccounted`, `LossAtBirthOnly`, `LogHonest`, `AllConsumed` | every event is accounted for in each of its counts, whatever fails; counts are lost without a failure only when a bucket is created; the notification log is true; no message blocks a group |
| `portal` | `AnswersHonest`, `OneLogoutPerLoad`, `RenewalOnlyFromOldForm`, `Settles` | an error may hide a committed change only when a call failed or by `createAPI`; one logout per load; a session is replaced only through an old or unguarded form |

Three more runs check what a document, a comment or a test says and the code does
not do. TLC finds each violated; `findings` in `PROJECT.json` quotes the line.

| Run | Claim | What the code does |
|---|---|---|
| `breaker_reset` | `ProbeSuccessCloses` (`circuit-breaker.ts:72`) | a probe's answer reads half_open and never reaches the reset |
| `pipeline_claims` | `PluginsReachClient` (`docs/ROUTING.md:142`, `:144`, `rate-limit/index.ts:101`) | one behaviour shows both: a hit is an abort too, and aborts, whose body is their own, are looked at first; and the upstream's headers replace those of `pre_request` |
| `portal_catalogue` | `CatalogueShown` (`docs/ROUTING.md:89`, `typeDefs.test.ts:9`) | no API can be completed against the schema, and the page takes the error for an empty list |

Where the code falls short of what a reader would expect, the property says how
far: `OvershootBounded`, `IllegalMeansOvertaken`, `LullRestoresProbes`,
`LostRoutesStayLost`, `LossAtBirthOnly` and `OneLogoutPerLoad` state a deviation
and its limits. `BreakerNeverRecloses`, `LostBodyTheorem`, `LateHeadersTheorem`
and `ScreenTheorem` prove how far the claims above fail.

`FixedHolds` does so too. A window's counter lapses `Len` ticks after its first
request by Redis's clock; a gateway whose clock is behind may still name that
window, its counter starts again, and the requests of three counters fall in one
stretch of a window's length. The counter that lapsed in that stretch was
created before it, by a request that is not in it, so the bound is three times
the limit less one; with one clock and no delay it is twice the limit.
`BucketHolds` is stated for buckets whose key outlives the difference of the
clocks (`Slack <= FillTime(rpm)`), since a full bucket expires at twice that
time, and for limits that do not change under the bucket. Three more are
exceptions inside a property: `RevocationTakesHold` excepts a Redis entry whose
EXPIRE was lost, which accepts a revoked key for ever; `OpenHolds` waits for the
readers between the two writes of a trip, who may half-open the breaker at once;
`RoutesArrive` excepts the `overlooked` rows, written between a registry's
answer and its processing.

Bounds, and why they are enough to be interesting:

* Subscriptions and keys: one subscription, since they do not interact. The run
  explores three regions of the state space (`Scope`), each large enough for its
  properties. `Lifecycle`: two management requests on a row without keys, one
  overtaking the other. `Verification`: two gateway requests on one key, so that
  one is in any window of the other, while one creation, one management request
  at a time, the expiry and the clock go on; a suspended row is not reactivated.
  `Creation`: four keys, two creators, revocations, and two plans with different
  limits for an active row; `MaxKeys` is a function so that a plan change lowers
  the limit. The theorems are about the whole state space.
* `TTL = 2`: an entry can be renewed when it is half gone.
* Two requests through the breaker, `Threshold = 2`, `HalfOpenMax = 2`,
  `Timeout = 2`, counters to `MaxCount = 2`: it trips by count and by rate, is
  half-opened, filled with probes and refuses. Commands fail or headers of other
  gateways arrive, not both in one behaviour (`OneTrouble`). For the claim that a
  probe closes it one request after another is enough: what breaks it is not a
  race.
* Route tables: two versions of one API and two management requests, so that two
  publications of one version race; one gateway with a restart, which loads the
  Redis copy of its own past; `MaxTime = 1`, a row written in the second of a
  synchronisation or in the one before or after it. Gateways meet only in that
  copy; the theorems are for any number of them, of upstreams and of seconds.
* Pipeline: two connections, so that one handler runs between any two steps of
  the other, and two APIs, one of them the API of the key. The chains hold every
  kind of plugin, each authentication method, both phases of the cache, a
  condition, an unknown type and an unknown method. All times are one tick, that of
  the SET of an introspection included (`StoreMax`), which is enough to expire
  before, during and after a step.
* Chains: two calls and two versions, one call bringing back what the other
  has replaced; lifetimes of two ticks, fetches of one. The theorems are for
  any values.
* Rate limits: two requests at a time, two gateways one tick apart, a delay of
  one tick, windows of four, five and six ticks (all longer than the
  difference), four ticks of time, one script that is not run or whose answer is
  lost. Six configurations, each strategy with a limit in one period or in two,
  with a plan, and with a bucket that is full and gone within the run; four
  requests each, and six for the fixed window, whose limit of two can only then
  be counted in three counters. The slots are interchangeable and declared a
  symmetry set. The theorems are for any clocks, windows, limits and plans.
* Audit: two sinks, four messages of which one is empty and one is refused by
  PostgreSQL, a crash and a rebalance; the theorems are for any topic.
* Consumers: two analytics consumers that share the buckets, one failed,
  unanswered or repeated update (`MaxFailures`), two webhook attempts; the
  notification consumer crashes once and sees a message for each channel.
  Analytics runs without crashes, since its property is about what is lost
  without them.
* Portal: three worlds. In one, two tabs sign in and out and their tokens and
  cookies expire; in the others one tab manages subscriptions and keys, or looks
  at APIs, beside a client that performs one operation of any kind. One API, one
  key, one failing call.

Runs that say `CHECK_DEADLOCK FALSE` are those that really may stop: a clock
that has reached `MaxTime`, a topic that has been consumed, and a browser whose
tokens are used up.

Fairness. `ApiKeys`: handlers and goroutines run to their end (Go schedules
them and every call has a time-out) and Redis time passes; nothing is assumed of
the gateway, the administrators or the requests that may come. `CircuitBreaker`:
requests keep coming, the proxy answers or times out (`PROXY_TIMEOUT_MS`),
handlers proceed, time passes. `RouteTable`: the start-up hook runs, the timer
fires for ever (`setInterval`), a query that has routes to return is eventually
made, and if answers are sent again and again one of them is processed (strong
fairness: the network does not lose them all). Without the last one nothing can
arrive. `Pipeline`: each handler proceeds, since every await has a time-out; no
answer is assumed to be a good one. `ChainCache`: time passes and a fetch is
given up after its three seconds; that fetches succeed again and again is a
premise of `Converges`, not a fairness assumption. `AuditSink` and `Consumers`:
the processes run, kafkajs commits offsets and a partition without an owner is
assigned; crashes, rebalances and failures are bounded. `Portal`: every call
ends by its answer or by `UPSTREAM_TIMEOUT_MS`, and callbacks run; nothing is
assumed of users. `RateLimit` is safety only.

## 4. Proofs

All proofs hold for every value of the constants that satisfies the assumptions
named in the modules. Placeholders differ from the values they stand apart from
and times, retries and restarts are natural numbers (`NoPlanIsNone`,
`NoReqIsNone`, `NoneAssumption`, `NonesAssumption`, `ClockAssumption`,
`TTLAssumption`, `FlagAssumption`, `ConfigAssumption`, `RegistryAssumption`,
`GatewayAssumption`, `ChainAssumption`, `AuditAssumption`, `TimeAssumption`,
`RetriesAssumption`, `CallersAssumption`). Key limits are integers with a
largest one, as in any finite table of plans (`MaxKeysAssumption`), and creators
finitely many (`CreatorsAssumption`); there are finitely many consumers, at
least one (`ConsumersAssumption`), and their messages are of kinds the handlers
take or ignore (`TopicAssumption`); policies have an integer order, an auth
policy a list of methods, known or not, and two flags, a transform a list of
header operations (`ChainsAssumption`); a rate-limit policy has one of the three
strategies and limits that are natural numbers, 0 for none (`PolicyAssumption`),
and among the plans each period has a largest limit (`PlanAssumption`); a world
of the portal has tabs and places (`WorldsAssumption`). The theorems hold for
any crash and failure bounds.

* `SubInvariant` (`SubInv`): a row in a request's hands still exists and its
  transition was legal when read. `CancelIsFinal` (`CancelSettles`) follows:
  with nobody in flight the transition table alone decides, and it has no way
  out of cancelled. `OvertakenOnly` (`IllegalMeansOvertaken`) needs to know of
  every request between its check and its UPDATE that its row is at the status it
  read, or that others, after that read, moved the row away from it and to where
  it is now (`OvertakenIsWitnessed`, a conjunct of `SubInv`); an ordinary earlier
  change of the row is no witness.
* `KeyInvariant` (`KeyInv`): the row checks are made on two tables at two
  times, so the invariant says what a verification knows at each statement
  (`VerifyConsistent`), and from it where every Redis entry comes from
  (`CacheHasProvenance`). `DeadForever` (`DeadKeysStayDead`) uses it and
  `CancelIsFinal`'s lemma: each way a key dies is stable, and every way to
  accept a request needs an entry, a fill or a passed row check.
  `OvershootTheorem` (`OvershootBounded`): when all limits are positive, the
  active keys and the creations between their count and their insert (`Counted`)
  are together at most the largest limit plus the number of creators less one;
  the bound on the keys alone is not inductive, since a creation that has counted
  inserts without looking again.
* `CBInvariant` (`CBInv`): as long as no request has brought the header along, a
  probe's header and the branch a request is in determine each other; the
  strengthening is that while a probe exists the state is not closed.
  `BreakerNeverRecloses` is its consequence. `LullTheorem`
  (`LullRestoresProbes`) rests on two more conjuncts: a counter without an
  expiry is between its INCR and its EXPIRE, or a command failed
  (`CountersExpire`), and the time the counter of probes has left and the time
  nobody was there are together at most the timeout (`ProbesRunOut`).
  `BreakerHolds` (`OpenHolds`) needs only the types and the branch structure.
* `RegInvariant` (`RegInv`, a conjunct of `SyncInv`): between activating a
  version and writing its route a publication is alone (`OnePublisher`), by the
  `WHERE status = 'draft'`; so the upsert always inserts
  (`RoutesAreWrittenOnce`), and without the draft status nobody becomes a
  publisher again (`LostForever`).
* `SyncInvariant` (`SyncInv`): for every route a gateway does not have, the
  next query returns it or it was overlooked (`Accounted`); while an answer is
  on its way the same must hold of the answer (`AnswerAccounts`), which is the
  strengthening that makes it inductive, since processing moves `lastSyncAt`.
  It rests on `RegInvariant`: rows do not change, so old copies stay right.
  `RoutesAreKept` follows.
* `ChainsOnTheWay` (`ChainInv`): how long a version has been replaced is bounded
  at every place that holds one, each time by the clock of that place: by the
  remaining life of the Redis entry (`KeyLag`), by the age of the call that
  carries it (`CallLag`), by the age of the gateway's copy (`CachedLag`). The
  bound on a request alone is not inductive, since a request inherits from the
  place it reads. `LagTheorem` (`LagBounded`) follows.
* `SinkTheorem` (`SinkInv`): between the lock and the commit a sink's
  `prevHash` is the hash of the last row, and the id it has drawn is larger
  than all others. It is inductive together with the types and with where each
  sink is in its transaction, since only the holder of the lock commits.
  `AuditRefinement` (`AppendsOnly`): the initial table maps to the empty log,
  a commit to an append, every other step to a stutter. `ChainLinked` carries
  `A!Linked`, that every row holds the hash of the one before, over to the
  table. `NothingLost` (`LostOnlyByFailure`): a message below an offset is in the
  table, failed, empty or older than the group; the sink
  that owns the partition has, besides, left only such messages behind
  (`Behind`), which is what makes it inductive: its position is the offset it
  commits.
* Pipeline. `PhaseOrder` says what the sorting of `executePhase` computes: each
  enabled policy of the phase once, by increasing order. The inductive invariant
  of the handlers (`HandlerOK`) has their types, what each program counter
  implies, and `HVouch`: every guarding policy that a handler has passed without
  an abort accepts its credential. `AuthTheorem` (`AuthBeforeUpstream`) follows,
  for all chains, since plugins keep the credential (`Kept`) and a method that
  succeeds accepts it (`Sound`). With an invariant on the stored answers
  (`StoreInv`) come `GoodHitsTheorem` (`HitsAreGood`) and `LostBodyTheorem`: an
  answer from the cache never has the cached body. `RevokedTheorem`
  (`RevokedTokenEnds`) rests on the ages: a yes in Redis has at most `IntroTTL`
  to live and was asked for at most `FetchMax` before (`TimeInv`), a yes under
  way is bounded by the age of its call or of its SET (`UnderWays`).
  `LateHeadersTheorem`: from the upstream's answer on, the response headers of a
  handler are among the upstream's and those that enabled policies of
  `post_response` add (`LateOK`), as are all policies it has still to run. What
  a transform adds is a fold over its operations: that the folding function
  exists (`FoldsExists`) and adds only the operations' own names (`OpsAdd`) are
  inductions over the number of operations, for which `Induction` shows by a
  pigeonhole argument that a set of naturals with 0 and all successors is the
  whole of them.
* Rate limits. `RateLimitInvariant` is the invariant they all need (`LimitInv`:
  a period lets a request pass once, and when) with one part for each strategy.
  `SlidingWindowHolds` (`SlidingHolds`): a request let pass is still a member
  when another is counted within the window less the difference of the clocks
  (`StillThere`), since its key outlives it and no gateway's clock has moved it
  out; so what was let pass in such a stretch was counted together, by the
  script that let the last of it pass (`FewGranted`).
  `FixedWindowHolds` (`FixedHolds`): each request let pass belongs to one counter,
  known by its window and its expiry (`GrantPlaced`), no counter lets more pass
  than the limit (`CountersFew`), counters of one window are a window's length
  apart (`CountersApart`), and at most three of them meet in a stretch
  (`FixedBound`). `TokenBucketHolds` (`BucketHolds`): the invariant is an account
  (`Paid`): what was let pass since a moment and what is left in the bucket are
  together at most a full bucket and the refill since the first of it. A
  gateway whose clock is behind takes tokens out by refilling with a negative
  time; that debt is bounded by the difference of the clocks (`DebtBounded`). A
  key that expires makes the bucket full, which the account survives because by
  then it would have been full anyhow; this is where `Slack <= FillTime(rpm)` is
  needed. `RetryAfterHolds` (`RetryAfterEnough`) is part of the invariants of the
  sliding and the fixed window, and for the bucket a bound on what it will hold
  at the promised time (`PromiseFunded`).
* Portal. `OpInv` says of each operation of the BFF what it has committed, what
  it will answer and which of its calls has failed, from which `HonestTheorem`
  (`AnswersHonest`) follows; and that no answer holds a complete API, from which,
  with what each tab has loaded (`Browser`), `ScreenTheorem`: no page shows an API.
  `LogoutTheorem` (`OneLogoutPerLoad`): after a logout the button is disabled until
  the bar is mounted again. `RenewalTheorem` (`RenewalOnlyFromOldForm`): the
  middleware lets a tab with a cookie open no sign-in form, so one that signs in
  over a session was opened before, be it restored since (`OldForms`), or is not
  guarded.
* Consumers. `LogTheorem` (`LogHonest`): a consumer at a log entry owns it
  (`Apart`), the entry is pending, and its deliveries are at most the attempts
  made (`Worker`). `CountsTheorem` (`CountsAccounted`): updates are distinct and
  belong to a message given up or to the one the handler is at (`OpsInv`), so that
  each step moves one unit between the terms of the sum. `RaceTheorem`
  (`LossAtBirthOnly`): as long as a bucket does not exist none of its updates has
  ended, so each consumer has one under way and one more for every message it gave
  up when the other bucket refused it (`Unborn`); only updates that looked before
  the bucket was there can be refused (`Firstborn`, `BothBorn`). From n consumers
  the first bucket refuses at most n - 1 updates and the second at most 2 (n - 1).

Only model-checked: the liveness properties (`RevocationTakesHold`,
`OpenIsRetried`, `RoutesArrive`, `RequestsAnswered`, `Converges`, `Drained`,
`AllConsumed`, `Settles`), which need fairness and ENABLED. Every invariant and
every action property of the passing runs is a theorem. Two theorems speak of
data that an algorithm folds over. `TokenBucketHolds` compares counts and needs
no fold; the header operations of `LateHeadersTheorem` do, and what the library's induction
theorems cannot be used for is replaced there by an induction over a set of
naturals. No module that is proved about uses a RECURSIVE operator.

## 5. Not modelled

* Auth service: authorization codes, refresh rotation, sessions, login limits,
  signing keys. The gateway's view of a revoked token is in `Pipeline`, the
  session token in `Bff` and `Portal`. The hazards of the service (a code
  read and deleted by two commands, a refresh token rotated twice) are listed
  without a property; another is that the lifetime of a blacklist entry is
  computed from a clock other than the token's.
* Quota service: nothing calls it; the gateway limits requests by itself.
* Policy engine: drafts, rollback, the compiler and the engine's own executor,
  which the gateway does not call.
* `matchRoute`, a pure function on the route table, and a clock per gateway in
  `RouteTable`: with one, a gateway ahead of the database misses rows, since it
  asks for what changed after its own time.
* Studio: as deployed its editor never has an API to edit. The BFF cannot
  complete any API, nothing writes the `studio_token` it reads, and its
  publication sends an `id` that `PolicyInput` does not have.
* Of the portal the static documentation page and the components that only a
  displayed API would show; of analytics and notification the HTTP queries,
  which only read; of the BFF the depth limit.
* Kafka events of the registry (nothing in the routes depends on them),
  specification texts, metrics, configuration, TLS, Vault start-up.

What could come next: a module for OAuth tokens and sessions, the clocks in
`RouteTable`, and route matching against a reference definition.
