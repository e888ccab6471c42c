# A verification development for central-services-shared

TLA+ models of the library's stateful parts, TLC instances that check them, and
TLAPS proofs about them. Paths below are relative to `src/src/`.

* Check a model: `tlc -config PubSub.cfg MCPubSub`.
* Check proofs: `tlapm DistLockProofs.tla`, and so on for each `...Proofs` module.

`PROJECT.json` lists the runs, the mutants that show each property can fail, the
lines every definition stands for, the hazards and the findings.

## 1. Inventory

The repository is a library. Each process of a Mojaloop service links it, so
"concurrency" means asynchronous calls of one Node process that interleave at
their awaits, timers and event listeners of that process, and other processes at
the far side of Redis, Kafka, a database or HTTP.

| part | state it keeps | operations | hard to get right |
|---|---|---|---|
| distributed lock, `util/distLock/` | `#lock`, `#timeout` of an instance; keys with a TTL in Redis | `acquire`, `release`, `extend` | a timer races redlock's promise, which lives on after losing; fields read after awaits; lost answers; expiry |
| duplicate check, `util/comparators/` | none; a table behind two functions | `duplicateCheckComparator` | check-then-act between concurrent calls; what a save does on conflict |
| publish/subscribe, `util/redis/pubSub.js`, `shared.js` | two clients, the listener recorded for each channel | `connect`, `disconnect`, `healthCheck`, `subscribe`, `unsubscribe`, `publish`, `broadcast` | retries that replace the client while other calls use it; listeners added after an await; messages sent twice |
| Redis cache, `util/redis/redisCache.js` | a client; keys with a TTL | `get`, `set`, `delete`, `clearCache`, `connect`, `disconnect`, `healthCheck` | listing keys and deleting them are two steps; errors inside a pipeline; several calls connect at once |
| participant and proxy caches, `util/participants.js`, `proxies.js` | Catbox client and policy, `switchEndpoint` (module variables) | `initializeCache`, `getParticipant`, `getAllProxiesNames`, `invalidate...Cache`, `stopCache` | joined fetches, invalidation during a fetch, a module variable read after an await |
| endpoint cache and proxy client, `util/endpoints.js` | the same, and a lazily created proxy client | `initializeCache`, `getEndpoint`, `getEndpointAndRender`, `stopCache`, `stopProxy` | the client is assigned before it is connected and emptied after it is closed |
| header validation, `util/hapi/plugins/headerValidation.js`, `util/headerValidation/` | a cached regular expression | `onPostAuth` | the order of the checks; two derivations of the supported versions |
| header transformation, HTTP requests, `util/headers/`, `util/request.js`, `util/http.js` | a shared agent with its sockets | `transformHeaders`, `sendRequest` | what a receiver will accept; the life of the child span; what an error says about the receiver |
| Kafka helpers, `util/kafka/`, `util/streaming/protocol/`, `util/hapi/plugins/rawPayloadToDataUri.js` | none; they mutate the message object they are given | `proceed`, `commitMessageSync`, the produce functions, `decodeMessages`, the payload plugin | commit before produce, crashes in between, a second call on a mutated object; batches; two lookups of the topic map |
| database wrapper, `mysql/KnexWrapper.js` | `isConnected`, exit hooks | `connect`, `disconnect`, `executeWithErrorCount` | retries, a flag that nothing else updates |
| health check, `healthCheck/` | none | `getHealth`, `evaluateServiceHealth` | checks that answer at different times; one failing among several |
| settlement models, `util/settlement.js` | none | `validateSettlementModel` | a pure function |
| event plugin, tags | a span on the request | hapi extension points | who finishes the span |
| other plugins, OpenAPI wiring, rethrowing, ids, time, encoding, logging, enumerations | none | glue and formatting | - |

Interactions: `proceed` uses the streaming protocol and the topic map; what the
payload plugin makes of a request goes into messages and is decoded from them.
`sendRequest` uses the header transformation, and the caches use `sendRequest`; the
receiver of a request runs the header validation. `pubSub` and `redisCache` share
`retryCommand` and the connection checks. The caches are Catbox policies. A service's
health check asks its database wrapper. The lock, the duplicate check and pub/sub are
used by services directly.

What makes each modelled part correct is stated by its properties (section 3).

## 2. Modules

A component is one module, with an `MC` module and a configuration for TLC. Its
theorems are in a `...Proofs` module; `DatabaseProofs` has those of `HealthCheck` (with
`KnexWrapper`) and `DuplicateCheck`, `KafkaProofs` those of `KafkaProceed` and
`MessageFlow`, which is why the definitions of each pair have different names
(`ComparatorSpec`, `FlowSpec`). Components that interact are composed:
`HttpExchange` extends `HeaderTransformer` and `HeaderValidation`, `HealthCheck`
extends `KnexWrapper`, `MessageFlow` extends `KafkaTopics`, `EndpointCache` extends
`EndpointProxy`. A definition whose comment begins with "Mutant of" is never used by a
specification: it is a plausible bug of the definition that follows it, and shows
that the property it is paired with in `PROJECT.json` can fail.

Every module with variables states its types as `TypeOK` (`KnexTypeOK`,
`EndpointTypeOK`, `ComparatorTypeOK` and `FlowTypeOK` in those that share a proof module
or a composition with another). They are proved, for all but the abstract `Lease`, and
not among the runs' properties; add `INVARIANT TypeOK` to a configuration to check one.

**`DistLock`** - a lock value names an acquire, its timer and its lock, because
redlock draws it at random. `lock` and `timeout` are the fields of an instance,
`Owner` says which instance a flow uses, so sharing an instance is a choice of the
constants. `acquire` is split at its await: `Acquire`, then the race settles in
`AcquireWins`, `AcquireFails` or `AcquireTimesOut`. `release` and `extend` are
split the same way, with the answer of Redis in between (`RedisRelease`,
`RedisExtend`), which may be lost after it took effect. `holds` is the lock a flow
believes to act under. Environment: a flow acquires only when it holds nothing;
redlock never resolves to a falsy lock, so `ACQUIRE_ERROR` is unreachable.

**`Lease`** - the abstract lock: which flow acts under which key, and whose lease
has run out. `DistLock` maps to it through `Acting` and `Overrun`; `ImplementsLease`
is the refinement. A flow whose `release` failed may extend the lock that `#lock`
still holds and so begin to act again: the lease allows it as it does an acquire.

**`DuplicateCheck`** - calls of `duplicateCheckComparator` on one table. The two
functions it is given are the table's: a lookup resolves to the row's hash, `null`
or `undefined`; `onConflict`, chosen once in `Init`, is what the save may do if
the row exists (reject, resolve false, overwrite). The hash of a payload is a value.

**`PubSub`** - the subscriber client. `subs` and `listeners` belong to
`this.subscriberClient`; `fresh` has the calls whose command in flight went to the
present connection, which ends by a recreation or by `disconnect` and may do so any
number of times. `tries` is the loop of `retryCommand`; an error of the recreating kind
replaces whatever client is current. `Overlap` and `Resubscribe` say how the object is
used. `kept` and `latest` are history.

**`RedisStore`** - the Redis cache, and `connect`, `publish` and `broadcast` of
pub/sub, on one ioredis client. An operation is a list of commands, some of which
await `ensureConnected` first; `pc` says whether a call wants to connect, awaits its
`connect()` or awaits a command, `executed` whether Redis has run that command, so
that an attempt may fail before or after it took effect. The client is lazy, connects
by itself when a command is sent or a connection was lost, and refuses `connect()`
while it is connecting or connected; `retryCommand` calls it again all the same. After
a lost connection ioredis sends the unanswered commands again without an error that
`retryCommand` could see (`autoResendUnfulfilledCommands`, its default), a pipeline from
its beginning. The cache looks at the client's status before it connects,
`PubSub.connect` does not. `KEYS` answers for one node of a cluster, `asked`. `publish`
may replace its client by a lazy one; the model has one client throughout, also where it
is shared with a cache, which would keep the old one. `untouched`, `replaced`, `retried`,
`overlapped`, `unheard` and `asked` are history for the properties.

**`ParticipantCache`** - `getParticipant` and `getAllProxiesNames` over a Catbox policy:
`flight` is the generation that every call of an id joins. Stages: reading the cache,
fetching, answered. After `generateTimeout` the calls that wait are rejected, the
generation runs on and stores what it gets, and the next call starts another one. The
two files are one program with different keys: `participants.js` has an entry for each
participant, which may say that there is none, `proxies.js` one entry for the list of
all proxies. Each has its `switchEndpoint` and its client. They share nothing, so the
runs initialise one at a time (`MaxModules`), TLC choosing which. `floor`, `raced` and
`since` are history.

**`EndpointProxy`, `EndpointCache`** - the first has the proxy client of
`endpoints.js`: a client is named by the call of `getEndpoint` that created it; the
variable `proxy` is assigned before `connect()` is awaited and read again after it,
and `stopProxy` empties it after awaiting `disconnect()`. What the cache answers is
nondeterministic there. The second adds the cache: `policy.get` for the DFSP and again
for its proxy, joined fetches, those that outlive `generateTimeout` (`late`), the
rendering. Each of its steps is a step of the first
or none (proved). `decorated` is the policy's `getDecoratedValue`.

**`HeaderTransformer`, `HeaderValidation`, `HttpExchange`** - the first two are
operators. A header value is a set of at most one media type, with its API and its
version; what the code tells apart is kept: the case of the names, their order in the
object, whether a resource can be found in a value. `Errors` lists the checks of
`onPostAuth` in the order in which it makes them. `HttpExchange` sends a request from
`sendRequest` to a server with the plugin: the call waits for a socket, is sent, is
answered or times out, then its span is finished (`finishing`) or told of the error
(`failing`), unless composing that error throws. The server may get a request after it
timed out; its handler may answer anything, whatever it has done. A service may repeat a
refused call with a version the server listed.

**`KafkaProceed`** - one partition, one handler, one message at a time.
`Proceed`, `CommitReturns` and `Compose` are the code between its awaits;
`message.value` is one variable, because `proceed` changes the consumed object in
place. A crash restarts the handler from the committed offset; an answer of the
broker may be lost after the commit or the append. The handler may call `proceed`
again for a message on which it threw. The payload, the event's state, topic names
and the span are left out. A consumer's commits are not reordered: they share a
connection.

**`KafkaTopics`, `MessageFlow`** - the enumerations and the topic map as sets of pairs,
and the lookups as operators; a topic name is the pair it is made from, since the
template is injective on them. `MessageFlow` takes requests of every media type and body
(objects; numbers and booleans; strings by what is in them: a word, a number, an object,
a string, a data URI; what is no JSON) through the payload plugin into a message, and
the message over the hops of a `plan`, each a pair and a way to produce. Consumers
decode batches and send on what they consumed or its decoded clone.

**`KnexWrapper`, `HealthCheck`** - the wrapper with its pool, the attempts of `connect`,
its exit hooks, errors of queries, the counter, which may itself fail, outages of the
database and the end of the process: `async-exit-hook` waits for the hooks, but not for
more than ten seconds, and not on `process.exit()`, so the process may be `forced`. A
killed process runs nothing and is left out. `HealthCheck` adds a service with three
checks: whether the wrapper says it is connected, a query through it, and a broker.

## 3. Runs

All bounds are constants of the configurations.

| run | what it shows |
|---|---|
| `lock` | two flows with an instance each, two keys, two acquires: two flows act under one key only after a TTL ran out; `#lock` is the lock its flow acts under; a late grant is ignored; `release` removes only what its own instance acquired; every `acquire` settles although Redis may never answer; the lock implements `Lease` |
| `lock_shared_timer` (violation) | on a shared instance the success of one `acquire` clears the timer of another |
| `duplicate` | four calls, two ids, two hashes, three kinds of save: one first message per id unless saves overwrite; `hasDuplicateId` alone tells it if saves reject; later messages are duplicates under every save; verdicts agree |
| `pubsub` | three calls on two channels, two attempts, recreations without bound: records, listeners and subscriptions agree; a channel unsubscribed last is silent during the call and after it; every call settles |
| `redis_store` | three calls of eight kinds, two attempts, two failures, two keys on two nodes: what `clearCache` may leave of the node it asked; a message is delivered twice, or an overwritten value comes back, only after a failed attempt or a resent command; the channels that got a broadcast are a prefix; `connect` is refused only in a race |
| `participants` | three gets, two versions of a participant or of the list of proxies: a stale value comes only from a fetch that was answered before the invalidation, timed out or not; an error leaves the cache; every get settles |
| `participants_two_switches` (violation) | a get for another switch changes the URL of a pending one |
| `endpoint_proxy` | two lookups, two stops, one DFSP and its proxy: a live client is lost, or an undefined one used, only through a `stopProxy` that empties the variable of a client it did not disconnect; every lookup settles |
| `kafka` | one message, up to two calls of `proceed` per delivery, a crash, four events: at most one produced message for each consumed one, headers that agree with the addressees, replies to the sender, `responseTo` naming the consumed event |
| `message_flow` | two requests of every media type and body, three plans of two hops and one of three that use every row of the topic map and every way to produce, batches of two: topic and configuration agree; a payload arrives as it was sent, or is one of those the plugin drops or that are decoded again; which message a lost batch is due to |
| `http_exchange` | one call with every set of headers and each other argument varied, another that competes for the only socket, three attempts: what the hub sends is accepted by a server that supports the configured versions; a listed version is accepted unless the list made it up; no foreign signature; a success or a refusal is reported only if the server answered so; spans are finished; calls settle |
| `service_health` | two calls of the wrapper, one health check, one retry, two outages: a health of OK means each service was up at some time during the check; one error is handed to the counter for each rejected call; a connected process closes its pool before it ends, or has begun to when it is forced to |

Why the bounds are enough to meet the interesting cases. Lock: with two lock values a
late grant and a current holder coexist; for larger instances its safety properties are
proved. Duplicates: four calls allow an earlier/later pair on one id next to a
concurrent pair. Pub/sub: a subscribe, an unsubscribe and a disturbing third; two
attempts distinguish "another attempt" from "give up". Redis store: a `clearCache` needs
a key set before it and a write during it; two failures are a lost answer and a failed
retry; `get` does nothing to Redis that `healthCheck` does not, and a `publish` is a
broadcast to one channel, so these and `set` without a TTL are not among the operations
of the run. Caches: three gets are a starter, one that joins or takes its place after a
timeout, and one after the invalidation; calls are interchangeable, so the run has only
the behaviours in which they begin in the order of their numbers (`BegunInOrder`). Proxy
client: one lookup creates a client, the other uses it or creates the next, and two
stops overlap. `proceed`: one crash separates commit from produce, and two calls
separate the first use of a message object from its reuse. Messages: two hops separate a
payload that is consumed from one that is sent on decoded, a third decodes what was sent
on twice; a batch of two has one message that spoils it for another. HTTP: three
attempts let a service fix both versions. Health: two wrapper calls are a connect and a
disconnect around the check. Where a theorem exists the bounds do not matter.

Deadlock is not checked: in every module the environment may stop calling, and the
number of calls is bounded.

Fairness. `lock`: the timer only, since Node runs armed timers, and nothing is asked
of Redis. `pubsub`: a command is answered or fails (ioredis gives up on a lost
connection), retry delays pass, and continuations of settled promises run; weak
fairness of each call's progress, with nothing said of which outcome it has.
`participants`, `endpoint_proxy`: the request ends (it has a timeout), the proxy cache
library answers or rejects, and continuations run. `http_exchange`: the timeout of a
request that has a socket fires, and the promises of the span settle (weak); the agent
gives free sockets to queued requests (strong, since a socket may be taken by another
call in between). The server need not answer. A caller that sets no timeout in its
`axiosRequestOptionsOverride` is not covered.

### Findings

Two runs expect a violation:

1. `util/distLock/impl/redlock.js:100` clears the timer the instance armed last,
   which may be another call's: that `acquire` has no timeout any more.
2. `util/participants.js:147` keeps the caller's switch URL in a module variable
   that another call overwrites before the fetch reads it. `proxies.js:126` and
   `endpoints.js:156` do the same.

Observed while modelling and proving, without a run of their own:

* `util/redis/pubSub.js:189` overwrites the record of the first listener on a second
  `subscribe`; `unsubscribe` cannot remove it any more. With `Resubscribe = TRUE` the
  property `Tracked` fails; the run keeps to one subscription of a channel at a time.
* `util/hapi/plugins/headerValidation.js:119` compares with a constant that its module
  does not export: no payload is ever too large. `AcceptedByPeer` holds for huge
  payloads because of it.
* An invalidation does not stop a fetch that already has its answer, which is then
  stored; `StaleOnlyFromRace` says that this is the only source of stale values.
* With a policy that decorates its values, `getEndpoint` never asks the proxy client
  (`endpoints.js:180`: an object is not falsy). Without it, a fetch that failed looks
  like a DFSP without endpoints, and the proxy is asked.
* With the documented example `['1', '1.1']` of supported versions
  (`headerValidation.js:54`) a refusal lists 1.0, which is refused again. The run supports
  these versions among others; `ListedVersionAccepted` names the versions a list makes up
  (`MadeUp`) as the only ones that do not help.
* A `proceed` that throws for want of `hubName` has already overwritten `to`
  (`HeadersAgree` says what a later call makes of it).
* `decodePayload` leaves an object alone, parses a string that is no data URI and throws
  for anything else (`protocol/index.js:288-298`). So a number, a boolean or a string that
  a service sends on decoded makes the next one throw, or, when the string's content is
  JSON or looks like a data URI, that content arrives instead (`PayloadKept`,
  `BatchLostToOne`).
* `sendRequest` leaves its child span open when a parameter is missing (`request.js:125`),
  and when the error cannot be composed, say because the peer's `errorInformation` has a
  code that `createFSPIOPErrorFromErrorInformation` does not know (`request.js:191`);
  `SpanFinished` names these as the only cases.
* Every answer with `errorInformation` is reported as the peer's error, whatever its status
  (`request.js:185`): no error class of `sendRequest` says that the peer has done nothing.
  `OutcomeFromServer` states what does hold.
* ioredis sends unanswered commands again after a reconnect, so a message may be delivered
  twice although no attempt of `retryCommand` failed (`pubSub.js:159`).
* The label of a service in the counter `app_critical_total` is the `name` the check
  gives (`HealthCheck.js:151`); a rejected check is counted as `general` only.
* `openapiBackendValidator.js:42` writes an operation's tags to the settings of the
  route, which all its requests share, and never resets them.

## 4. Proofs

Every theorem is about all values of the constants that satisfy the modules'
assumptions.

`DistLockProofs`. `TypeCorrect`; then `CallsInv`, the strengthening that relates
the parts whatever the sharing of instances: `AcquiresOK` (a value of no acquire is
nowhere; redlock's progress agrees with the race), `StoreOK` (what is stored was
granted under its own key), `HandlesOK` (locks, arguments and held locks come from
races won, on the right instance). It gives `LateGrants` and `ReleaseIsLocal`.
With an instance per flow `ExclusiveInv` adds that the handle, the argument of a
pending call and the held lock are one value and that a held lock is stored or
lapsed; this gives `MutualExclusionHolds`, `HandlesAgree` and, with a lemma for each
way a step can map (`NoLeaseStep`, `LeaveStep`, `BeginStep`), `LeaseImplemented`. None
of the stated properties is inductive by itself: mutual exclusion needs to know that a
held lock is still in the store, which needs to know that only its own flow can remove
it.
`PendingAreTimed` is the safety core of `AcquireSettles`: with an instance per flow a
pending acquire has an armed timer, to which its instance refers; the run
`lock_shared_timer` is the counterexample without that hypothesis.

`DatabaseProofs`. Duplicate check: `LookupInv` (a row, once there, stays; a call that
began after another resolved found it) gives `LaterIsDuplicateHolds` under every save;
`RowInv` (unless saves overwrite, a saved hash is the row) gives `OneFirstHolds`
and `VerdictsAgreeHolds`; `SavedInv` gives `OneNewIdHolds`. Wrapper and health check:
`HookInv` (a wrapper that says it is connected has left an exit hook, and a process that
was forced to exit has begun to run it) gives `ExitCorrect`; `CountInv` (a call has handed
an error to the counter exactly if it rejects, however many attempts failed before) gives
`CountsCorrect`. `HealthIsRecent` compares
answers of three checks with what was up since the health check began: `ReachInv` relates
`isConnected` and the answers of queries to that history, `SeenInv` what the health
check has collected; together they give `HealthCorrect`.

`EndpointCacheProofs`. `TypeCorrect` and `StopsCorrect` are about the proxy client by
itself: the two properties of stopping are inductive together. `ProxyStep` shows that
every step of `EndpointCache` is a step of `EndpointProxy` or leaves its variables alone;
hence `ProxyImplemented`, and `StopsCorrectWithCache` carries the properties of stopping
over to the whole of `endpoints.js`. `EndpointTypeCorrect` includes that no `getEndpoint`
awaits a generation that is not in flight.

`KafkaProofs`. `proceed`: lemmas say what its steps do to a message
(`ComposedStep`, `AgreeStep`). `CommitInv` relates the committed offset, the
delivery under way and what was sent: the offset has passed every message for which
a first call sent something after a commit, and a fresh delivery is ahead of it; it
gives `AtMostOnceHolds` for any number of messages, calls and crashes. `ValueInv`
says that until the first call composes, `message.value` is what the partition
holds; it gives `HeadersAgreeHolds`, `RepliesHold` and `AnswersHold`. Message flow: the
produce functions look the topic up twice, once with an action that was already mapped;
`MappedOnce` shows for every pair of the map that mapping it again changes nothing, which
gives `RoutesCorrect`. `FlowCorrect` is the invariant for any number of hops: `CarryInv`
says which forms a payload can have in a message that a service holds after `h` hops and
in one of a topic, `Decodes` which of them can be decoded, so `PayloadsKept` and
`LossesCorrect` hold for every plan and every size of a batch.

`PubSubProofs`. `ChannelInv` relates the record of a channel to the one call about it;
it gives `RecordedCorrect` from the hypothesis that no two calls about a channel overlap.
`ListenerInv` adds which listeners there are besides the recorded one, and needs that no
subscribed channel is subscribed again: the second `subscribe` loses the first listener
(section 3). It gives `TrackedCorrect` and `SilentCorrect`. Both hypotheses are `~Overlap`
and `~Resubscribe`, ways to use the object that the run has too; retries, recreated
clients and commands that took effect but failed are not restricted.

`ParticipantCacheProofs`. `CacheInv` has a part for each relation: `FlightInv`
(generations, joined or timed out, and their stages), `EntryInv` (entries and the
versions they were made from), `FloorInv` and `RaceInv` (invalidations and the history)
and `WaitersServed`. It gives `StaleCorrect` and `ErrorsDropped`. `NoLostWaiter` is the
part of `GetsSettle` that is a safety property: a call that waits has a generation to
wait for.

`RedisStoreProofs`. `PlanInv` says that the commands a call has left are the last ones
of its operation, so `Position` tells how far it is. On it rest one invariant for each
property: `WriteInv` (what a `set` under way, or tried again, may have put in the store)
for `WritesCorrect`; `DeliverInv` (a channel has a message of a call if the call is past
it, or at it and Redis has run the command, and otherwise only if it is at it and the
command failed or was sent again) for `OnceCorrect` and `BroadcastsCorrect`;
`ConnectInv` for `RefusalsCorrect`; `ClearInv` (while a `clearCache` goes on, the keys
it saw that nothing has touched are listed, or on another node than the one that
answered, or their deletion failed) for `ClearCorrect`. `DistinctChannels` is a
hypothesis of two of them: a broadcast that names a channel twice delivers twice without
any failure.

`HttpExchangeProofs`. `OutcomeInv` relates how a call ends to what the server answered:
`OutcomeCorrect` says for any interleaving of late answers, timeouts and failing spans
that a success or a refusal is reported only if that was the answer. `SpansCorrect`
follows from the steps of one call. `RequestInv` ties the request on its way to the
arguments of its call, and `TriedInv` the verdict; with lemmas about the first check of
`onPostAuth` that fails (`LeastOf` and what follows from it) and about the composed
headers they give `HeadersCorrect`, `PeerAccepts` and `ListHolds`, which is about every
list of supported versions: `ListNames` says that a name of the list is a supported
version or one that the list made up.

Assumptions on constants are those the modules name. Most give a constant its range or
keep `None` and its like apart from the values they stand in for. What else they say:
an operation of `RedisStore` has the argument its kind needs (`OpsAssumption`); the
version configured for a resource begins with a number (`ResourceVersionsAssumption`:
`parseResourceVersions` rejects any other format), and a supported version has at most two
numbers (`VersionsAssumption`); the hops of a plan are event pairs of the
enumerations (`PlansAssumption`); the hub is one of the parties (`HubAssumption`).

Only
model-checked are liveness under fairness (`AcquireSettles`, `CallsSettle` of two
modules, `GetsSettle`, `EndpointsSettle`), which is out of the prover's reach, and the
two violations, which need a single behaviour. Every other property of the runs is the
conclusion of a theorem.

## 5. Not modelled, and the plan

Left out for good:

* ids, time, encoding, logging: formatting and randomness;
* the plugins for logging, documentation, currency codes and OpenAPI, the event
  plugin, the API documentation: stateless glue around hapi and third-party validators;
* `validateSettlementModel`: a pure function over four enumerations;
* the counters of `rethrow.js` and the enumerations that no step reads;
* the cached regular expression of the hub's name: a comment excludes a second name;
* histograms, and the text of log messages and errors, everywhere.

Next:

1. An abstract specification of the duplicate check (one atomic check and save per
   message) and the proof that saves which reject existing rows implement its verdict
   "first"; the same for a cache that never answers with less than the last invalidation
   allows, outside of races.
2. A refinement of `sendRequest` that separates what the service sees of a call from what
   the server does with it, over an abstract request.
3. The stateful remainder: the tags of `openapiBackendValidator.js`, the event plugin.
