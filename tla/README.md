# Nocturne Atlas in TLA+

Nocturne Atlas is an event-sourcing backend: clients post events, PostgreSQL
keeps them in versioned streams, Kafka carries them to a consumer, the consumer
builds a read model in Elasticsearch, and operators can replay what was stored.
This directory holds TLA+ models of its parts, TLC configurations that check
them on small instances, and TLAPS proofs of all their safety properties and
refinements for instances of any size.

Paths below are relative to the repository; `store.go` is
`internal/infrastructure/postgres/store.go`, and so on.

## The system

| Part | State | Operations | What is hard | What makes it correct |
|---|---|---|---|---|
| Event store, write side (`postgres/store.go`, `db/migrations`) | the `events` table, unique on `id` and on `(stream_id, version)` | `Append` (one INSERT) | concurrent statements compute the same `MAX(version)+1`; `ON CONFLICT` arbitrates on `id` only; waits at two indexes; answers lost after the commit | versions 1..n per stream, each once; visible in order; an acknowledged row is there |
| Event store, read side | none of its own | `GetByStreamID`, `GetFromVersion`, `GetByID`, the paged lists, `QueryForReplay` | rows arrive between pages; ties of `occurred_at`; the limit's edge | a reader that reaches the end has missed nothing |
| Ingest service, `POST /events` (`application/ingest`, `httpserver/handler.go`) | a handler per request | validate, `event.New`, `Append`, `Publish`, 201 | publish is best effort and concurrent; crash between the two; lost answers | what is in Kafka is stored; 201 means stored |
| Kafka producer (`kafka/producer.go`) | the writer's queues and batches | `Publish` | one batch serves several handlers and may be sent twice | every waiting handler is woken |
| Consume service, consumer (`application/consume`, `kafka/consumer.go`, `kafka/dlq_producer.go`) | the group's offset, the message in hand | fetch, decode, index, route to the dead-letter topic, commit | crashes, rebalances, late commits, SIGTERM during `handle` | the offset passes every message, and none that nobody saw |
| Elasticsearch indexer and searcher (`elasticsearch/indexer.go`) | the index and its mapping | `ensureIndex`, `Index`, `Search` | lags behind the store; two creators; an answer after the 5 s; the result window | upserts by event id; nobody indexes before the mapping is there |
| Query service (`application/query`) | none | timeline, correlation, causation, stream, list, by id | clamped limits, shifting pages | as for the read side |
| Replay engine, `POST /replay` (`application/replay`) | a batch per request | filter, limit, dry run, append copies, publish copies | partial failure without rollback; replays of replays; two at once | copies form a prefix of the matches; published only when complete |
| Read-only replay and gRPC `Replay` (`application/replay`, `grpcserver`) | none | `GetFromVersion`, contiguity check | streams shared by tenants; resuming at a version | a follower misses nothing; a gap means a shared stream |
| Topic manager and resolver (`kafka/topic_manager.go`, `topic_resolver.go`) | the broker's topics | `EnsureTopics`, `Resolve` | services provision at the same time | every topic written to exists |
| Authentication, tenants (`infrastructure/auth`, `httpserver/middleware`) | tokens in clients' hands | none, simple, jwt; issue; create tenant | tokens outlive the mode and secret they were made with; identity must reach the services | no tenant makes or gets another's events |
| Migrations (`cmd/migrate`) | `schema_migrations` | read the applied list, apply each other file in a transaction | two runs at once, failures at the commit, a list read in part | each file once, in order |
| Trace context (`pkg/trace`, `middleware/trace.go`) | none | parse and propagate ids | - | ids survive the hops |
| Processes (`cmd/*`, `config`) | how far each main has come | set up schema, topics and index; serve; shut down | several set up at once, outages, attempts that run out, shutdown during work | who serves finds all it uses; in the end all serve |

A request for an event goes: client -> authentication -> `ingest.Service.Ingest`
-> `EventStore.Append` (PostgreSQL) -> `Producer.Publish` (Kafka) -> 201.  The
consumer group reads the topic: `Consumer.Run` -> `consume.Service.handle` ->
`Indexer.Index` or `DLQProducer.Publish` -> commit.  `GET` requests read
PostgreSQL (timeline, correlation, causation) or Elasticsearch (list, stream).
`POST /replay` reads matches from PostgreSQL, appends copies through the same
`Append`, and publishes them through the same producer.  The services share no
memory: what connects them is the table, the topics and the index.

## The modules

**EventLog** is the abstract specification of the store: one append-only log per
stream; a call takes effect at one instant or never; an error tells nothing.

**EventStore** is `Append` on PostgreSQL, one statement per call, in the steps
the server takes: `ReadMax` (the sub-select over the statement's snapshot),
`ReturnExisting` / `ProbeId` (the arbiter index of `ON CONFLICT (id)`), `EnterId`
and `EnterVersion` (the uncommitted row enters the index of `id`, and then, with
that entry in place, the index of `(stream_id, version)`), `Reject` (the second
index has a committed duplicate), `ProbeAgain` (the id had come to be taken in
between: the row is withdrawn), `Commit`, `Abort`.  A statement waits (`WaitsFor`)
for uncommitted entries of its id while it probes, and of its version while it
enters that; waiting is an action not being enabled.  `EnterId` does not wait:
`ON CONFLICT` inserts speculatively, and a row that has met its id is withdrawn
before the statement waits for the other one.  `Succeed` and `Fail` are what the
caller learns: `Fail` may come at any time, so an error says nothing about the
row.  A refinement mapping turns the table into logs and shows that EventStore
implements EventLog.

**Ingest** composes EventLog (`Store`, one call per request; the request stands
for the fresh UUID of `event.New`) with the `POST /events` handlers, the
kafka-go writer and the topic.  Kafka is seen per stream, because a stream is a
key and a key is a partition; the messages other streams put in between change
nothing.  A client's repetition of a request is a request of its own.

**Consumer** is one partition, the group's offset and any number of
consumer-service instances running `Consumer.Run` with `Service.handle`.  An
owner that lost the partition goes on with the message it has in hand.

**Replay** composes EventLog with `ReplayEngine.Execute`: any number of batches
at once, among ordinary ingests.  `born` is the order of `occurred_at`, by which
`QueryForReplay` sorts and in which rows need not become visible.  Publishing is
one step per copy, with the writer's inside left to Ingest.

**Paging** is one reader that pages through an endpoint (`GET /events` with or
without `correlation_id`, `/events/timeline`, `/events/{id}/causes`) to its end
while events are stored and indexed; `Results` leaves the order of ties to the database.

**Migrate** is any number of `cmd/migrate` runs over the files 1..Last.  **Schema**
is what they promise whoever deploys them, without transactions or a tracking
table: the files are added one at a time, in order, by whichever run; a run that
reports success leaves no file of its binary out; an error tells nothing.  In the
refinement the rows of `schema_migrations` are the schema, the commit of a file
is `Apply`, whether or not the run learns of it, and what goes on inside a
transaction is not seen.

**Startup** is the mains of any number of ingest-api, consumer-service and
replay-service processes next to each other: `NewEventStore` applying the schema
(`LookForTable`, `CreateTable`, `SchemaFails`), `EnsureTopics` (`ListTopics`,
`CreateTopics`, `TopicsFail`), `NewIndexer` (`FindIndex`, `CreateIndex`,
`IndexFails`), with the attempts each is given, servers that are down for a
while, processes that die and are restarted.  `Routes`, `Resolve` and `Specs`
are `parseTopicRoutes`, the topic resolver and `buildTopicSpecs`.  An event per
domain is then published to the topic the resolver names, and consumer-services
read the topic they were given: `IndexMessage`, `DeadLetter` when Elasticsearch
is down, and `SkipMessage` when the dead letter fails as well (its topic is
missing, Kafka fails the write, or SIGTERM cancels both calls), which commits the
offset all the same and leaves a log line.  Whether a topic may be missing by then
is what the start-up decides.  The rest of what happens inside publishing and
consuming is left to Ingest and Consumer.

**Access** is who may do what: the three authenticators, the token endpoints,
`POST /tenants`, the `Auth` middleware, and for each endpoint which rows it
stores or answers for which identity.  A token records, besides the tenant it
claims, who was really given it (`holder`), so that a mix-up shows.  The server
may be started again in another mode or with another secret while tokens live
on.  `Follow` is `replay.Service.Replay` called by a follower who goes on above
the last version it has; `GrpcReplay` is the same service over gRPC.

`MC*` modules add the symmetry sets and sets of constants TLC uses.
**EventStoreProofs**, **IngestProofs**, **ConsumerProofs**, **ReplayProofs**,
**PagingProofs**, **MigrateProofs**, **StartupProofs** and **AccessProofs** hold
the theorems about the modules they are named for.  `PROJECT.json` maps each
definition to the lines it models.

Definitions headed *Variant* are not part of any specification.  Each is one
action or operator changed as a plausible mistake would change the code (no
`ON CONFLICT`, the error of `Append` ignored, the limit of a page taken from the
request ...).  Put in the place of the definition that follows it, it makes the
property `PROJECT.json` names for it fail in its run; that is how we know that
the property is about the code and not about the shape of the model.

## What is checked

| Run | Module | Properties | Bounds | Result |
|---|---|---|---|---|
| EventStore_appends | MCEventStore | TypeOK, VersionsContiguous, RetryOfStoredSucceeds, ContentionHasAWinner, NoCircularWait, NewRowExtendsStream, StatementAdvances, ImplementsEventLog, EveryStatementEnds | 3 calls, 2 ids, 1 tenant, 2 streams, 3 of the 4 events | holds |
| Ingest_requests | MCIngest | TypeOK, PublishedIsStored, CreatedIsDurable, UnpublishedIsExplained, WaitingIsHeld, EveryRequestEnds | 2 requests, 2 streams, 4 deliveries, 2 crashes | holds |
| Consumer_group | MCConsumer | TypeOK, NothingUnseen, OwnerLeavesNothing, EveryOffsetPassed | 2 instances, 3 messages, 2 faults | holds |
| Replay_safety | MCReplay | TypeOK, CopiesArePrefix, CopyFollowsSource, PublishedBatchIsStored, NothingCutOff | 2 ingests, 2 batches of up to 2, 2 tenants, 1 crash | holds |
| Paging_reader | MCPaging | TypeOK, NothingMissed | 3 events, 3 times, limits 0..3, window 3 | holds |
| Migrate_runs | MCMigrate | TypeOK, ExecutedOnce, AppliedInOrder, ImplementsSchema, EveryRunEnds | 3 runs, 3 files | holds |
| Startup_services | MCStartup | TypeOK, ServesOnlyWhenReady, OutageLosesNothing, EveryServiceServes, PublishedIsSeen | 1 process of each service, 2 attempts each, 2 domains, 3 faults | holds |
| Access_requests | MCAccess | TypeOK, TenantsApart, FollowerIsWhole, GapMeansShared | 2 tenants, 2 streams, 2 secrets, 3 rows, 2 tokens | holds |
| Ingest_order | MCIngest | DeliveredInOrder | 2 requests, 1 stream, nothing fails | violated |
| Consumer_handled | MCConsumer | CommitsOnlyHandled | 1 instance, 1 message, no outage | violated |
| Access_stream | MCAccess | StreamIsServed | as Access_requests | violated |
| Startup_routes | MCStartup | PublishedIsSeen | 1 ingest-api, 1 consumer-service, 1 route, no faults | violated |

Why the bounds suffice to meet the interesting cases:

- *EventStore*: with three calls two can collide on a version while the third
  holds, frees or takes the id; two ids let a repetition race with its first
  attempt and with a stranger; two streams let one id be proposed for both (only
  one of the ids is: `MCRequests`).  Three calls also make the longest chain of
  waits: one for the id of the second, which waits for the version of the third.  One
  tenant is enough because the INSERT never looks at it.  The run checks
  liveness as well, so it uses no symmetry.
- *Ingest*: two requests are enough for a batch of two, for a batch behind
  another, and for any order of append and publish; four deliveries let a batch
  of two be sent again.  Two crashes let the second hit what survived the first.
- *Consumer*: two instances give an owner and a former owner; three messages
  let the former owner's commit fall behind the offset while the reader is
  further on.  Faults (stops, kills, rebalances, failed fetches and commits of
  a live process) are bounded by MaxFaults; failures of Elasticsearch and of the
  dead-letter topic are not.
- *Replay*: with two ingests and two batches, a batch matches originals, copies
  of the other batch, exactly the limit and one more; an append can fail after
  a copy has been made.
- *Paging*: three events fill two pages of limit 1 or a full and a short page
  of limit 2, with a row arriving in between; the limits asked for include none
  (0) and one above the maximum; times may be equal or against store order.
- *Migrate*: three files and a list read only up to any point; three runs give
  two at once and a later one, with binaries that know fewer files.
- *Startup*: ingest-api meets replay-service at the schema and consumer-service
  at the topics and the index, and nobody else meets there.  Two attempts are
  the fewest that distinguish "once more" from "the last"; with three faults an
  outage can exhaust them, and a process can die in the middle of another's
  outage or a message be lost in one.  The routes hold a pair without topic, a prefix given twice and two
  prefixes to one topic.
- *Access*: three rows are the fewest with another tenant's row between two; two
  secrets give a foreign token; two tokens give one made from another.  One of
  the tenants is "default", who shares the modes none and simple with everybody.
  Symmetry is over the secrets.

The theorems below cover all sizes; the runs find out what the theorems should
say, and check the liveness properties.

### What the violated runs show

- *Ingest_order*: two handlers append versions 1 and 2 and reach `Publish` in
  the other order (`ingest/service.go:86` runs after `Append`, with no lock).
  `producer.go:16-19` says the events of a stream are delivered in order.  The
  index is not harmed, since it upserts by id; a consumer that relied on the
  order would be.
- *Consumer_handled*: SIGTERM during `handle` fails the index call and the
  dead-letter call, both on the cancelled context; `handle` returns nil and
  `CommitMessages` may still win its select.  `docs/architecture.md:310` says
  that offsets are committed only after successful handling.  NothingUnseen
  is the weaker promise the code keeps: the loss is logged.
- *Access_stream*: `GET /streams/{id}/events` is mounted outside the Auth
  middleware (`handler.go:65`), so `QueryByStream` finds no identity and every
  caller gets 500, where `handler.go:456-457` says that it "returns a
  paginated, version-ordered list of events for a stream".
- *Startup_routes*: with KAFKA_TOPIC_ROUTES set for ingest-api, the events of a
  routed domain go to a topic of their own; consumer-service reads KAFKA_TOPIC
  alone (`cmd/consumer-service/main.go:51`), so they are neither indexed nor
  dead-lettered nor reported, whereas `topic_resolver.go:13-14` says that swapping the
  routing needs no change of producer or consumer.  Startup_services has the
  arrangement that works: the consumer is given the routed topic.

### Divergences seen without a run

While modelling, these came up; each is a single step of the code, so a run
would add nothing.

- `README.md:240` says that on an indexing failure the event goes to the
  dead-letter topic and "the consumer never stalls".  `Indexer.Index`
  (`elasticsearch/indexer.go:131`) is called with Run's context, without a
  deadline, and over Go's default transport: while Elasticsearch accepts the
  request and never answers, there is no failure to route and the consumer stands
  still.  EveryOffsetPassed says so.
- `docs/architecture.md:314` says that every query includes a `tenant_id`
  predicate.  `EventStore.GetByID` (`store.go:214-216`) has none; the one caller,
  `query.Service.GetByID`, compares the tenant afterwards, which is the operation
  Access has (`GetByID`, under TenantsApart).
- `consumer.go:46` says "When ctx is cancelled (graceful shutdown) Run returns
  nil"; if the cancellation hits `CommitMessages` (`consumer.go:106`), Run
  returns the context's error.
- `RUNBOOK.md:95` says that `replay_source_event_id` "points to the original".
  The filter has no clause for `is_replay`, so a second replay copies the copies
  of the first and names them.  What does hold is that a source comes before its
  copy (CopyFollowsSource), so that the chain ends at an original
  (`ReplayProofs!SourceChainsEnd`).
- `store.go:229` says "total reflects the full match count".  The count is a
  column of the page's rows (`store.go:385`), so a page past the end has 0.
- gRPC `Replay` documents DATA_LOSS for version gaps (`grpcserver/handler.go:33`).
  No interceptor sets an identity, so every request for a stream gets DATA_LOSS
  (`grpcserver/handler.go:56`).
- `README.md:204` says that ADMIN_KEY is not required and defaults to
  `admin-secret`; `cmd/ingest-api/main.go:97` refuses to start without it, and
  docker-compose.yml gives ingest-api none.
- `POST /tenants` gives out a JWT whenever AUTH_JWT_SECRET is set
  (`handler.go:237-239`, "JWT mode"), in the modes none and simple too, where no
  authenticator takes it.
- An index deleted while consumer-service runs (RUNBOOK, section 4) comes back
  with a dynamic mapping: `ensureIndex` is called at the start only.  IndexThere
  in StartupProofs shows that the start itself never lets this happen.
- `scripts/smoke-test.sh:54` reads `GET /events/$STREAM_ID`, which is the route
  by event UUID and answers 400.

## Fairness

Safety properties assume none.  The liveness properties assume:

- EventStore: the server executes every statement it has, and each call's answer
  arrives or the connection is found broken (pgx returns an error).  Nothing
  forces an abort.
- Ingest: handlers run, the store answers or the call's context ends, the writer
  dispatches what it holds and each batch ends acknowledged or out of attempts
  (`MaxAttempts` of kafka-go); the client of a dead server notices.  Nothing
  forces a cancellation.
- Consumer: the calls to Kafka return (`KafkaCall`: fetch, dead letter and commit
  have the timeouts of the kafka-go reader and writer), a process that exited is
  started again (`restart: unless-stopped` in `docker-compose.yml`), and the group
  gives a partition without a live owner to somebody.  The call to Elasticsearch
  (`IndexCall`) has no deadline, so that it returns is assumed only of a process
  that was told to stop, whose context is cancelled.  EveryOffsetPassed therefore
  has two outcomes: every offset is passed, or some owner waits for
  Elasticsearch from some time on.  Stops, kills and rebalances of live owners
  are bounded: the claim is about what happens when they cease.
- Migrate: statements return; nothing makes a run fail, and a run may fail.
- Startup: a main goes on with its next step; ingest-api and consumer-service
  are restarted (`restart: unless-stopped`) and an outage ends; a
  consumer-service goes on with its messages while Elasticsearch answers (a call
  made in an outage may last as long as the outage, see Consumer).
  replay-service is not in docker-compose.yml, so nothing restarts it, and
  nobody has to publish.

## What is proved

For every value of the constants, by TLAPS: the type invariants, every safety
invariant, the action properties (NewRowExtendsStream, StatementAdvances,
NothingCutOff) and the two refinements (ImplementsEventLog, ImplementsSchema) of
the passing runs, and some results that no run states.  Each proof strengthens
the invariant to an inductive `IInv`:

- `EventStoreProofs!TypeCorrect`, `Contiguity`, `RetrySucceeds`,
  `ExtendsStream`.  VersionsContiguous alone is not inductive: that a committing
  row extends its stream depends on what its statement did earlier.  `IInv` adds
  that a version computed from a snapshot is at most one above the last version
  now (PlannedVersions: streams only grow), that the version an uncommitted row has
  entered is on no other row (VersionsExclusive), nor the id of one that will not
  be withdrawn (IdsExclusive), that ids are unique, that a call whose
  id was stored never passes the probe, and that a committed statement has its
  row.  A committing row's version is then in 1..n+1 and not in 1..n.
- `AWinner`: ContentionHasAWinner.  A rejected statement met a row, and every
  row has the committed statement of a call on its stream (LostToWinner).
- `Refinement`: EventStore implements EventLog under the mapping `AbstractLog`.
  `Commit` is TakeEffect, `Call`, `Succeed` and `Fail` are themselves, and the
  other steps of the server stutter.
- `Advances`: no statement goes round for ever between its two indexes, although
  it is set back from the second to the probe each time it meets its id.  A
  statement can be set back only by one that has entered an id or ended since
  (Contenders), which each does once.  While the contenders stay the same every
  step brings it closer to its end: `Stage` counts how far it is, with a clash
  that is certain already (IdTaken) before the second probe.
- `NoDeadlock`: no statements wait for each other in a circle, although one waits
  at the second index with its entry in the first in place.  The entries are
  ordered: who probes has none and waits for one that has; who enters its version
  has its id's and waits for one that has both; who has both waits for nobody,
  because a row that met its id is withdrawn before its statement probes again
  (in the variant `WaitsInPlace` it is not, and two statements with one id wait
  for each other, one for the version and the other for the id).
- `AnswersAgree`: all successful Appends of one event id answer the same
  version.  A version answered is that of the row with the id (AnsweredHasRow),
  and there is one.
- `IngestProofs!TypeCorrect`, `PublishedStored`, `CreatedDurable`.
  PublishedIsStored speaks of the topic alone; `IInv` follows a message back
  through the writer's batch and queue (MessagesStored) to a handler past its
  Append (PastAppend), whose answered version is the event's position
  (OkIsStored) because every entry of a log is the request that carries its id
  (LoggedIsRequested).  It stays there because logs only grow (`LogGrows`).
  Together with `Refinement` this rests on the INSERT and not only on the
  abstract log.
- `UnpublishedExplained`: a handler past Publish has its message in the topic
  or an error (Accounted).  A batch is acknowledged when the topic ends with it,
  and its messages are those of requests for this stream.
- `WaitersAreHeld`: the safety part of EveryRequestEnds.  A handler's message
  moves from queue to batch (`PartsCover`) and leaves the batch only in a step
  that wakes the handler.
- `IngestProofs!KeepsTheContract`, `ReplayProofs!KeepsTheContract`: both imply
  the specification of EventLog for the store they share with others, so they
  ask nothing of it that EventStore does not implement.  For Replay this needs
  its `IInv`: the tenant and stream of a copy are those of a stored source.
- `ConsumerProofs!TypeCorrect`, `OffsetPassesNothingUnseen`.  A commit sets
  the offset to the message in hand, so `IInv` adds that everything before that
  message has been seen (InHandSeen) and that an owner's reader stands at a
  message all before which have been seen (Resumed).  What has been seen stays
  seen (`SeenStays`), which is why a late commit of a former owner does no harm.
  `ReaderLeavesNothing` is Resumed for an owner with nothing in hand.
- `ReplayProofs!TypeCorrect`, `CopiesFollow`, `CopiesPrefix`,
  `PublishedAreComplete`, `MatchesAreComplete`.  The store keeps what was
  requested, once, in the stream named (StoreInv); a batch has called for its
  copies one after the other (CopiesAppended); its sources are stored and of its
  caller's tenant (SourcesStored) and the copies are requested for the sources'
  streams (CopiesLikeSources).  So a copy that takes effect lies behind its
  source (SourcesBefore) and behind the earlier copies of its batch (CopyOrder).
  NothingCutOff is `SelectionIsMatching`: up to `limit` of `limit + 1` rows
  asked for are all there are.
- `ReplayProofs!SourceChainsEnd`: there is no endless chain of stored copies,
  each the copy of the next.  The positions at which the members of a chain
  stand have a least one (`FirstPosition`, from the well-foundedness of the
  natural numbers in the prover's library), and its source would stand before it.
- `PagingProofs!TypeCorrect`, `ReaderMissesNothing`.  While a reader is on its
  way, an event it is owed and has not been given has at least as many rows
  ahead of it as the reader has skipped (Ranked): rows only arrive, so that
  number only grows.  A row's place in a result is one more than the number of
  rows ahead of it (`PlaceIsRank`), so a page has all whose turn has come.
- `MigrateProofs!TypeCorrect`, `EachOnce`, `InOrder`.  A run has ended with the
  first files of its binary and no others (EndedFirst), all recorded
  (EndedTracked), so its next file comes right after them (`NextFile`); a file
  in an open transaction is neither recorded nor in another one (KeyHeld).
- `MigrateProofs!Refinement`: Migrate implements Schema.  When a transaction
  commits, the files recorded are exactly those before its own
  (`SchemaIsPrefix`): all before it are (EndedTracked), and one after it would
  have brought it along (AppliedInOrder).  A run that finishes has ended with
  every file of its binary, so they are recorded.
- `MigrateProofs!RunsAdvance`: the safety part of EveryRunEnds.  Each step takes
  a run further with its file or ends with one more.
- `StartupProofs!TypeCorrect`, `ServingIsReady`.  `IInv` says of every stage what
  has been set up by then (SchemaThere, ListedThere, TopicsThere, IndexThere),
  by whomever; nothing that was set up goes away (Grows).  `NothingLost`
  (OutageLosesNothing) follows for consumers, whose dead-letter topic is among
  what must be there: the want of it is the one way to lose a message that takes
  no failure beyond the outage.
- `AccessProofs!TypeCorrect`, `TenantsStayApart`: every token is its holder's
  (TokensOwned).  `FollowersAreWhole`, `GapsAreShared`: versions on a stream
  grow, each but the first has its predecessor (HasPredecessors), and each
  tenant's have a highest (HasTop).

The assumptions are those of the modules: the values that stand for "none"
(NoEvent, None, Poison, AnyStream, Empty, NoTenant, NoSecret, Invalid ...) are
not among the sets they are added to; the bounds are numbers, attempts and
limits are positive; a copy made by a replay has a new id (OriginalsAssumption:
`uuid.New`); a process runs one service.

Only model-checked: the liveness properties EveryStatementEnds,
EveryRequestEnds, EveryOffsetPassed, EveryRunEnds, EveryServiceServes and
PublishedIsSeen.  Liveness under fairness is outside what the prover covers;
of the first four, the theorems have the part that is safety: progress that is
never undone (Advances, RunsAdvance), a holder for whatever is waited for
(WaitersAreHeld), no circle of waits (NoDeadlock), nothing left behind (ReaderLeavesNothing).  What
remains for TLC is that the fair steps are enabled and so are taken.

## What the models leave out

- Payloads, metadata, headers, occurred_at as a date, wording, and status codes
  beyond those that tell a caller's fate.
- In Ingest and Replay, other work of the process at shutdown: a graceful
  shutdown that runs out of time is a crash, one that does not is no event.
- In Replay, what is answered to `POST /events` and the inside of the writer;
  ids in a filter that are not stored (they match nothing); time windows and
  other fields of the filter, which only narrow it as the stream does.
- In Paging, filters and tenants: the reader's events are the ones its filter
  selects.  NothingMissed makes no claim for the store's lists when two rows
  have the same time, because the queries do not order such rows.
- A reader of the index that passes the result window (10,000) is refused; the
  model has the refusal and states nothing about it.
- In Migrate, the SQL in the files: each is executed as a whole in its
  transaction.
- In Startup, the values of durations: an attempt fails because its server is
  down or too late, not after a number of seconds.  Parsing of numbers and
  durations from the environment (`config.go`) is left out; parsing of the
  routes is modelled.
- In Access, signatures: a signature is the secret it was made with, and a token
  of any secret claims the tenant it was issued for.  So whether a token of another
  secret is refused decides there who gets 401, not whose events are answered.
  Subjects carry no rights in the code and are left out.
- In EventStore, the lock `DO UPDATE` takes on the row it returns: it is the last
  a statement takes, and nobody waits for anything else while holding it.
- In Startup, the time a process takes over one message: index and dead letter
  of a message are one step there, and several in Consumer.

Not modelled: trace and correlation ids (`pkg/trace`, `middleware/trace.go`),
which are parsed, passed along and decide nothing; generated code (`gen/`, `docs/docs.go`), API
documents, scripts and dashboards, which have no behaviour of their own.

## What remains

- The client's view of `POST /replay`: the server's WriteTimeout of 10 s
  (`cmd/ingest-api/main.go:111`) against the 30 s a replay may take.  The batch
  and its repetition are in Replay; the answer that is cut off is not.
- Replay over a model of the writer (as in Ingest) instead of one step per
  published copy.
- `POST /events` accepts no idempotency key, so a client that repeats a request
  stores a second event; no property can be stated until the API promises one.
