# A TLA+ model of the zump-be booking server

`zump-be` is a FastAPI application (one uvicorn process) that sells concert
seats. When a concert is popular, users stand in a waiting queue: their requests
become Kafka records, a consumer embedded in the same process projects the
records onto a Redis sorted set and releases its head at a fixed pace, and
`GET /concerts/{id}` lets in whoever has been released. Accounts, concerts and
bookings are in PostgreSQL.

This directory holds TLA+ modules translated from that code, the TLC
configurations that check them on small instances, and TLAPS proofs for every
value of the constants. File names below are relative to `src/`.

## 1. Inventory

### Components

| component | code | state | operations |
| --- | --- | --- | --- |
| queue store | Redis keys `q:zset:{c}`, `q:gate:{c}:{u}`, channel `q:chn:{c}` | sorted set user -> Kafka offset; mark `waiting`/`ready` with a TTL | ZADD, ZPOPMIN, ZRANK, ZCARD, SETEX, GET, DEL, PUBLISH, each atomic |
| embedded consumer | `services/queue_consumer.py` | fetch position, current record, popped batch, two asyncio tasks | start, project a record, auto-commit, release a batch, stop |
| detail gate | `routers/concert_router.py:21-137`, `utils/queue_guard.py` | local variables of each request | the guard (ZCARD, ZRANK, GET, send, SETEX, wait, re-check, DEL, front check), the detail query |
| enqueue and status | `routers/queue_router.py` | local variables of each request | send a record, wait for its projection, estimate; read rank and total |
| SSE rank stream | `routers/sse_router.py` | one Pub/Sub subscription per stream | snapshot, subscribe, one event per message, unsubscribe |
| Kafka producer | `utils/kafka_client.py` | the shared `_producer`, started lazily | start, send, stop |
| Redis client | `utils/redis_client.py` | one client, pool per process | ping, Pub/Sub iterator |
| database sessions | `utils/database.py`, `engines/`, `queries/` | a pool of connections, one session per request | open, execute, commit, roll back, close |
| accounts | `routers/user_router.py`, `engines/user_engine.py`, `queries/user_query.py` | `users` rows | sign-up, login |
| booking | `routers/concert_router.py`, `queries/concert_query.py:52-73` | `booking`, `concerts_seat` rows | insert the booking and mark the seat |
| application lifecycle | `main.py:39-67` | started / stopped resources | startup order, shutdown order |
| health checks | `routers/healthcheck_router.py` | local variables of each request: a pool connection, a Kafka admin client | liveness; one dependency; readiness and stack, which probe three side by side |
| configuration | `utils/config.py` | the merged files | overlay the base file in `APP_ENV=local`, override a section from the environment |
| token check | `utils/oauth.py` | none | create and decode a JWT |
| error answers | `utils/exception.py` | none | exception -> HTTP status |
| release versions | `jenkinsfile` | tags and images in the registry | resolve the next version, check, build, push the version, push `latest` |

### Interactions

* A handler *sends* a record to Kafka; the projection task reads it later and
  ZADDs it. Between the two the user is nowhere in Redis.
* The projection task, the release task and all handlers share the sorted set
  and the marks through single Redis commands. No command sequence is a
  transaction, and every command is an `await`, where any other coroutine of
  the process may run.
* Projection and release each PUBLISH `update`; streams re-read the rank on it.
* Request handlers share the database pool; a session keeps its connection
  until the request is over (`utils/database.py:58-63`).
* All handlers that send share one producer, which the first of them starts.
* Health checks take connections from the pool they report on, and read the
  configuration of Kafka when they are called.
* The pipeline reads the registry it later pushes to; builds do not overlap.

### What is hard here

* **Interleaving and stale reads**: the gate reads three values with three
  commands and decides on all of them; its own writes may land after the
  release task has changed the key.
* **Redelivery**: auto-commit is independent of the projection, so a crash
  repeats records already projected, even released, and a shutdown commits one
  that was not.
* **Partial failure**: ZPOPMIN removes users before any of them is marked.
* **Late effects**: a Kafka send that timed out may still be delivered; a COMMIT
  whose reply was lost may have happened.
* **Pool and locks**: requests wait for connections and for each other's rows.
* **Pub/Sub keeps nothing**: a message published between a stream's snapshot and
  its SUBSCRIBE is never seen.
* **Shared initialisation**: several requests may find the producer absent, being
  started, or set and never started.
* **Tasks that end of themselves**: `start()` is outside the `try`, the `async for` may
  raise, the dequeue task may stumble over its settings; nothing awaits either task, and
  the application serves on without projection or release.
* **Probes side by side**: the results in one readiness answer are of different
  moments, and every await of a probe may be the one its timer cuts off; the answer then
  waits for the session to be closed, which no timer does.
* **Layers**: a setting may silently come from another layer than its reader
  thinks, because files, overlay and variables are merged by different rules.

Every place is listed with its line under `hazards` in `PROJECT.json`, together
with the properties that cover it or the reason why none does.

### What makes each component correct

* consumer: first come, first served; every record is accounted for; one fault
  costs at most one record or one batch; every record is eventually settled.
* gate: one queue place per user however often the client asks; the mark
  `waiting` never shuts out a user who has no record on its way; a `ready` mark
  is used once; a released user is let in; every request is answered.
* sessions: connections come back; no deadlock between connections and locks;
  an acknowledged write is stored.
* SSE: a subscribed stream that shows an old rank has a message coming.
* enqueue: a rank reported as projected belongs to the record just sent.
* producer: one per process; an accepted send is a record; every send ends; it is
  started when it is needed.
* releases: versions rise and skip nothing, `latest` is the highest one.
* health checks: an answer of healthy stands for dependencies that were reached; each
  request is answered unless its final ROLLBACK is not, and gives back its connection and
  its started admin client.
* configuration: a value comes from the first layer that has a usable one, and a broken
  layer changes nothing.

## 2. Modules and their correspondence to the code

| module | models | extends |
| --- | --- | --- |
| `QueueStore` | the Redis data of one concert and the commands on it | |
| `QueueConsumer` | `queue_consumer.py`: both tasks, their starts and ends, crash | `QueueStore` |
| `FairLine` | the abstract promise of the queue: join at the end, leave from the front | |
| `AccountBook` | the abstract promise of sign-up and login: one step each on a book of accounts | |
| `RecordSend` | the abstract promise of a send: one answer, and the record if it was accepted | |
| `ConcertGate` | the detail handler, composed with the consumer | `QueueConsumer` |
| `QueueClients` | `/queue/enqueue`, `/queue/stream`, `/queue/status`, composed with the consumer | `QueueConsumer` |
| `KafkaProducer` | the shared, lazily started producer and its sends | |
| `DatabaseSessions` | sessions, pool, sign-up, login, booking, reads | |
| `ReleasePipeline` | the pipeline from the push of a commit to the push of an image | |
| `Configuration` | the loading of the settings and `get_config`, for one section | |
| `HealthChecks` | the health endpoints, after the import that `Configuration` models | `Configuration` |
| `MC...` | symmetry sets and other values for TLC | the module they are named after |
| `...Proofs` | theorems | the module they are named after |
| `ConcertGateTicketProofs` | theorems about the marks and the records of a user | `ConcertGateProofs` |

**QueueStore.** A sorted set is a function from users to scores with 0 for
"absent". Offsets are numbered from 1 (Kafka starts at 0), so that 0 is free;
only their order matters. `Lowest(z, n)` is what ZPOPMIN returns; the order of
members with equal scores is never needed because `ScoreIsOffset` is proved.

**QueueConsumer.** `loop` is the program counter of `_consume_loop`: `down`
before start and after the end, `dead` if `start()` (`StartFails`) or the `async for`
(`LoopRaises`) raised, `fetch` at the `async for`, `add` before the ZADD, `publish` before
the PUBLISH. `dq` is that of `dequeue_loop`, `dead` if a setting it reads is no number
(`DequeuerDies`). `batch` is
the local list `removed`, minus the users already marked. `position` is the
offset of the record the client handed out last, `committed` the group's offset
in Kafka. A Redis command that raises takes the `except` branch of its task; a
command whose reply is lost matters only for ZPOPMIN (`PopFails`), because a
ZADD, SETEX or PUBLISH that was executed and then raised is the success
followed by the failure of the next command, or is seen by nobody. `Stop` is
cancellation at any await plus `consumer.stop()`, which commits the position;
`Crash` leaves the last committed one, and stands as well for a stop whose last commit
fails: "without a crash" below means without either. A `dead` consumer leaves that state only with the
process: the next `Start` is that of a new one. `skipped`, `marked` and `forfeited` are
history variables: they record what became of an offset and no guard reads them.

**ConcertGate.** One request is a record with a program counter and the values
its earlier commands returned: `full` (ZCARD against the threshold), `ranked`
(ZRANK was not nil), `seen` (GET). Each action is one `await`. `late` is what
the producer still holds for sends that timed out, one element for each of them. `fate[u]` and the field
`owed` are history: what happened to the last `ready` mark of `u`, and whether
the user had one unused when the request came in. The model runs the handler in
the shipped setting (`GATE_MODE` `auto`, a `QUEUE_TOPIC`); `Blocking` selects
`BLOCKING_DETAIL_WAIT_MS > 0`. The startup order of `main.py` is the reason a
request may arrive while `loop = "down"`: the consumer is started as a task and
may still be connecting to Kafka.

**QueueClients.** A stream is a record with a program counter (`rank` and `total`
before the two commands of `_rank_payload`, `subscribe`, `listen`), the rank it
has read, the pair it has `shown`, and the messages in its subscription
(`inbox`). `missed` is history: since the last ZRANK a message went by while the
stream was not subscribed, or was not sent at all. The status call is a stream
that closes after its snapshot. An enqueue request sends (`ticket` is the offset of
its record), polls (`place` is the score of the user when ZRANK found them, which
the answer turns into a rank) and answers; `before` is history, whether the user
was in line before the send. `Others` stands for every other sender, the gate
included.

**KafkaProducer.** `ConcertGate` and `QueueClients` see a send as a step that
succeeds or does not; this module takes it apart. `producer` is `_producer`,
which is assigned before `start()` is awaited, so that a second caller finds it
set: `starting`, `started`, or `broken` if `start()` raised. `kept` is the buffer
of aiokafka, which outlives the sender's `wait_for` and not the process.
`RecordSend` is what remains of it for a caller (`Told`: a call in progress is `pending`),
and it is what the other two modules assume: the record arrives with the answer
(`Send`), or the answer is a failure and the record arrives later or not at all
(`SendTimesOut`, `LateDelivery`). They leave out the moment when a record is in the
partition and its sender, still waiting, does not know: if the send then succeeds it has
become one step, and if it times out, one that timed out before its record arrived.

**ReleasePipeline.** Each stage is an action; an image is the number of the build
that made it. Tags that are not X.Y.Z are ignored by the script and left out.
`FirstFree` models the search for a free slot although `ReleasesRise` shows that
it never has to move.

**DatabaseSessions.** `pool` is the set of requests that hold a connection,
`open` those whose transaction has written. A session takes a connection at its
first statement and gives it back at COMMIT, ROLLBACK or close. Sign-up is
`execute_post_async` (INSERT, COMMIT); login, booking and reads are `execute_query_async`
(no COMMIT: closing the session rolls back). The unique index on
`users.user_email` is a constant, since the DDL is not in the repository. The
answer of a request is decided before the session is closed and sent
afterwards, so a booking is `confirmed` at `Close`. `AccountBook` has no sessions and no
statements; the mapping (`Called`) keeps the sign-ups and logins and their answers, and
the committed rows. A sign-up takes effect there with its COMMIT and a login with its SELECT.

**Configuration.** The properties tell apart where a value comes from, so a value
*is* its layer: `base`, `local` or `env`. Sections do not touch one another; the module
follows one, with all states of the two files and of the variables (`unset`, `empty`,
a `word`, a numeral `one`); `blank` are the broker lists that a file sets to the empty
string, which the health checks take for missing. A section is absent, a scalar or an object of scalars, as
in `configs/`. `LoadOverlay` is the import, `GetConfig` the call; `Rule` says what each
variable must hold to be used.

**HealthChecks.** `probe[c][d]` is where request `c` is in its probe of dependency `d`, or
the result; several probes of one request advance independently, which is
`asyncio.gather`. A dependency is `up`, `refusing` or `silent` and may change at any
moment. `Expires` is `asyncio.timeout` at whatever await the probe is in. `admin[c]` is
the Kafka admin client: `opened` before `start()` has returned, `started`, `none` when
closed, and `cut` if the timer cut off its `close()`. `pool` counts the connections out
of the pool, `others` those that requests of `DatabaseSessions` hold: this module needs
no more of them. `Return` is the end of the handler. The response follows once the session
is closed (`Respond`), since the dependency `get_db_session` is left first. If SELECT 1 has
succeeded (`Closing`), that takes a ROLLBACK: PostgreSQL answers it, it raises and the
answer is a 500 (`CloseFails`), or, PostgreSQL being silent, it waits without a timer.
`seen` is history: the dependencies that were up since the request came in.

The operators marked *Mutant* in the modules are plausible wrong versions of
the action that follows them. The specification never uses them; each one
breaks the property `PROJECT.json` pairs it with.

## 3. Runs

| run | instance | asks |
| --- | --- | --- |
| `ConsumerSafety` | 3 users, 3 records, batch 2, 2 faults of any kind, tasks that end of themselves included | order, place, accounting, cost of a fault |
| `GateSafety` | 2 users, 2 requests, one each, 3 records, non-blocking, 1 fault but no crash, no failure of the handler | nobody is queued twice; refinement of the consumer; is the sorted set behind the gate a `FairLine`? |
| `GateFaults` | 2 users, 2 requests, of which one user may send both, 2 records, blocking, threshold 0, every failure of the handler, a crash or a Redis error of the consumer | `waiting` has a record behind it; nobody gets in who has not stood in line; one admission per mark; nobody new on a used mark |
| `GateLiveness` | 2 users, 1 request, blocking, 1 fault of any kind, 1 failure of the handler | every request is answered; `waiting` ends; every record settles |
| `GateAward` | as `GateSafety`, a Redis fault only | **violated**: a released user can be turned away |
| `QueueClients` | 2 users, 1 stream, 1 enqueue request, 2 records, 1 fault, 1 failure of a client or a message | a stale stream has a message coming; the rank is of this record; refinement of the consumer |
| `ProducerSafety` | 3 sends, broker outages, restarts | one producer; every send ends; is it a `RecordSend`? |
| `LazyStart` | 3 sends | **violated**: a send can meet a producer nobody will start |
| `SessionSafety` | 3 requests, 2 connections, 2 passwords for 1 e-mail | pool, locks, acknowledged sign-ups; are sign-up and login an `AccountBook`? |
| `BookingKept` | 2 requests | **violated**: an answered booking is not stored |
| `HealthSafety` | 1 check on any endpoint, other requests, 2 connections; every file and variable of 3 sections | what an answer of healthy stands for; connections and admin clients; every check is answered, a hanging ROLLBACK apart; the layers |
| `ReleaseSafety` | 3 builds, each bump, each failure | versions rise without gaps; `latest` is the highest |

**Why the bounds are enough.** Three users and three records give a user who
leaves, one who stays and one who joins again, with a batch smaller than the
queue; two faults allow a crash during the redelivery caused by the first one.
For the gate, two users with a request each (one of whom also calls
`/queue/enqueue`) are enough for the requests to fill the queue for each other
and for the consumer to release one in the middle of the other's guard. In `GateFaults`
one of the users may send both requests (`Overlap`), so that a user who overlaps
with themselves and one who does not are in the system together. For the
pool, three requests are one more than the connections. For the streams, the
watching user and one other are enough for a rank that changes without the
user's doing; one stream suffices because streams do not touch each other. Three
builds allow a failed one between two releases and a release above one that
left `latest` behind. `Room` in `ConcertGate` and `QueueClients` bounds the partition:
a request comes in only when there is room for the record it may send, so that
the bound never blocks a handler half way. One health check is enough because checks share nothing but the pool, and what
another one takes from it is what `others` takes; two connections allow a check that gets
the last one and one that gets none. Requests come in under the configurations in
`Probed` only, brokers given or missing, since a check reads nothing else; the import is
explored under every configuration. Three sections stand for the three shapes of
override (a scalar from one variable, numbers and presence, text), three keys for those
a variable may and may not set. `MaxRecords`, `MaxFaults`,
`MaxMishaps`, `Room`, `MaxBuilds` and `Probed` are the only bounds; `Versions` follows from
`MaxBuilds`, one bump per build.
What is proved (section 5) needs none of them to be small.

**Symmetry** is used where it is sound: on users in `ConsumerSafety`, which checks
invariants only; on requests or sends in the gate, session and `LazyStart`
runs, whose properties treat them alike. `OnePassPerMark`, `SpentMarkIsSpent`,
`ImplementsConsumer`, `ImplementsFairLine` and `ImplementsAccounts` are temporal formulas but
safety properties, of single steps, that permuting the requests maps to themselves. The runs with a liveness property
use none.

**Deadlock** is checked in every run but two: in `ReleaseSafety` the pipeline stops
after `MaxBuilds` builds, and in `HealthSafety` a process whose configuration is not in
`Probed` does nothing after the import.

## 4. Fairness

* `ConcertGate` (`GateFairness`): weak fairness of `Start` (whoever runs the
  container restarts it), of the projection task and of the release task (the
  event loop runs every ready task; neither blocks it), and of each request's
  next step. The blocking wait has a deadline, so leaving it is one of the steps.
  None for Kafka's auto-commit, for late deliveries, failures, TTLs or arrivals. Nothing
  obliges anybody to stop an application whose consumer is dead, so `WaitingEnds` and
  `EveryTicketSettles` except a task of the consumer that stays `dead` for ever. Fairness
  of a step takes for granted that its await returns or raises: a Redis, Kafka or database
  that neither answers nor breaks the connection is not covered.
* `KafkaProducer`: `start()` returns or raises, and the timer of `wait_for` fires.
  None for the broker, which may stay away for ever.
* `HealthChecks`: timers fire, `admin.close()` ends, the event loop runs what is due, and a
  ROLLBACK that PostgreSQL can answer or break off is answered or broken off. None for the
  dependencies, which may stay silent for ever, nor for the other requests, which may keep
  the whole pool. `HealthAnswered` therefore excepts a check that stays in its ROLLBACK
  (`Closing`) while PostgreSQL is silent again and again.
* The other modules are checked for safety only and state none.

## 5. Proofs

They are in the modules whose names end in `Proofs`, and assume only the `ASSUME`s of
the modules; a further hypothesis is in the statement of the theorem. Every safety
property of a passing run, each refinement included, is proved for all values of the
constants.

* **`TypeCorrect`**, **`GateTypeCorrect`**, **`SessionTypeCorrect`**: the type
  invariants. The consumer's includes `committed <= position <= Len(log)`.
* **`FirstComeFirstServed`**: `ScoreIsOffset`, `LatestTicket` and `FifoRelease`,
  which are inductive together (`Order`) on top of the type invariant; the first two are also
  stated alone (**`ScoresStayOffsets`**, **`LatestPlaceHolds`**). The
  crux is redelivery: after a crash the loop hands out offsets below scores that
  are in the sorted set. `Handled`, the records the loop is done with *in its
  current pass*, shrinks at a crash with the position and grows by one at a ZADD;
  adding record `position` moves its user to a score that no handled record
  exceeds, and a release takes a downward closed set (`LowestIsPrefix`).
* **`NoTicketVanishes`**: `TicketsAccounted`, with the type invariant: each way out
  of the sorted set or the batch is into `marked`, `forfeited` or a later record.
* **`LossIsBounded`**: `LossBound`, by counting. The lowest `n` of a sorted set are at most
  `n`, because ranks map them one to one into `0..n-1` (which needs `ScoreIsOffset`: no two
  members tie); so a fault adds one offset to `skipped` or one batch to `forfeited`.
* **`QueueIsFairLine`**: with no crash among the faults, every step of the consumer
  is a `Join`, a `Leave` or a stutter of `FairLine`. The invariant it needs is
  `NoneBeyond`: no score is beyond the position, so the record at hand comes
  after everybody in the queue.
* **`GateImplementsConsumer`**, **`GateKeepsOrder`**: every step of the composed
  system is a step of `QueueConsumer` or leaves its variables alone, so the
  consumer's theorems hold of the composition.
* **`GateKeepsLine`**, **`ClientsKeepLine`**: so does the refinement of `FairLine`, with the gate
  in front of the queue or with streams and enqueue requests at it. The hypothesis is that of
  `QueueIsFairLine`, no crash; every other failure is allowed.
* **`RequestsComeCloser`**, **`BoundHoldsUpNobody`**: what can be said of `RequestsAnswered`
  without fairness. `Distance` gives each await of the handler its distance from the
  answer, at most eight. Every step of a request in progress, failing or not, lowers its
  distance, and no step of another request or of the consumer raises it. The only guard a
  request meets besides its own place is the bound on the partition, and the second
  theorem shows that it never holds: the records sent, the late ones and the requests
  that may still send fit (`RoomKept`, for a finite set of requests). What remains to be
  assumed is that the event loop runs a request that can run.
* **`WaitingIsBacked`**, **`PassesOnce`**: `WaitingHasTicket` and `OnePassPerMark`. Neither is
  inductive: the invariant (`Backed`) says of every request between two awaits what its
  reads still mean. A request about to write `waiting` has a record behind it or a mark
  to overwrite; one about to delete finds the last mark unused, or expired. It rests on
  `QuietKeepsRecords`: whatever the consumer does with a record, its user has one
  afterwards, or the loss is on record. A step of a request concerns no other user
  (`BackedByOthers`). All of it is said of a user with one request at a time (`Singly`), and
  holds whatever requests the other users overlap; what the rest needs of those is
  `FreshMarks` only, which relates a `ready` mark to its history for every user.
* **`SpentForEverybody`**: `SpentMarkIsSpent`, for users with several requests as well. A request
  comes to hold a mark only by reading `ready`, and by `FreshMarks` a key that holds `ready`
  has not been used.
* **`OnlyThroughTheLine`**: `NobodySlipsIn`. The invariant (`Admitting`) follows the evidence: a mark
  `ready`, a request that has read one, that has seen a rank or that is past the wait
  belongs to a user who has been in the queue, and nothing takes that back
  (`QueuedForGood`: out of the queue one goes into the batch, out of the batch into `marked` or
  `forfeited`).
* **`QueuedOnce`**: `OneLiveTicket`. The invariant (`Singles`) adds that a user without the
  mark `waiting` has no record under way, unless a request is just between its send and
  its SETEX, that a request about to send or to delete has none, and that the batch
  being marked is of records before the one at hand (`BatchBefore`): so the SETEX
  `ready` ends the user's only record.
* **`ConnectionDiscipline`**: `ConnectionsReturned` and `WritersNeverWait`, for
  any number of requests and any pool size. The counting argument is on the
  cardinality of `pool`.
* **`SignUpsHold`**: `AcknowledgedIsStored` and `SignedUpCanLogIn` (the first also alone, as
  **`AcknowledgedStays`**, like `ConnectionsReturned` in **`ConnectionsComeBack`**). The
  strengthening (`EmailsUnique`): committed e-mails are unique, and an INSERT in
  progress has neither a committed nor another open row of its e-mail.
* **`SessionsAreOneStep`**: `ImplementsAccounts`. The step that takes effect in the book is the
  COMMIT, statements after the check for the e-mail; that the check still holds then is
  `EmailsUnique`. The rest of the invariant (`AnsweredLast`) is that a request has no answer
  before the step that gives it one. That an acknowledged sign-up is stored
  (`AcknowledgedIsStored`) is part of it, and no run checks it by itself.
* **`ClientTypeCorrect`**, **`ClientsImplementConsumer`**, **`ClientsKeepOrder`**: the same
  for streams and enqueue requests.
* **`StreamsAreTold`**: `StaleMeansNotified`. The invariant (`Informed`) says what a
  stream knows at each of its awaits: after the ZRANK, after the snapshot, while it
  listens. A change of the sorted set makes a PUBLISH due, and the PUBLISH, or its
  failure, leaves a message or a miss with every open stream.
* **`RankBelongsToRecord`**: `RankIsOfThisRecord`. The invariant (`Placed`) covers the
  wait: if the user was not in line before the send, the place they have, the
  record at hand and every record still to be handed out are of this ticket or a
  later one. A crash, which makes Kafka hand out older records, ends the request.
* **`OnlyOneProducer`**, **`AcceptedSendsAreRecorded`**: the invariant (`OneStarter`) is
  that the one request that awaits `start()` is the only one that can change what
  `_producer` is; without it a second `Started` could follow a failed one.
  **`ProducerTypeCorrect`** is the type invariant.
* **`ProducerSendsRecords`**: `ImplementsRecordSend`. Its invariant (`KeptUnaccepted`) says that what is in
  the buffer is of a call that was made and has not been accepted, so that a record that
  arrives late never belongs to an answer already given as a success.
* **`LayersStayInOrder`**: `LayersInOrder`, for any sections and keys. Its invariant (`Loaded`)
  says what the import leaves in `settings`; the rest is a case analysis of
  `GetConfig`, path by path.
* **`HealthTypeCorrect`**, **`HealthyIsReached`**, **`ChecksReturnConnections`**,
  **`StartedClientsAreClosed`**: one invariant (`HealthInv`) for any number of checks, any
  pool and any configuration. Beyond the properties it has `Reached`: a probe that is past
  its first answer has seen its dependency up since the request came in; `Decided`: a request
  that waits for its session has a result for each probe; and `Promised`: good news
  stands for dependencies that were up already while the session is being closed. The pool is counted by cardinality, as in
  `ConnectionDiscipline`.
* **`PipelineTypeCorrect`**, **`ReleasesAlwaysRise`**, **`VersionsHaveNoGaps`**,
  **`LatestStaysHighest`**: the invariant (`ReleaseInv`) carries the existence of a highest tag
  from push to push (`HasHighest`), so that `CHOOSE` is determined without induction on the
  set of tags, and bounds the parts of a version by the number of builds (`Bounded`), so
  that the next version is always one of `Versions`. `LatestFollows` says how far `latest`
  may be behind between the two pushes of a build.

**Only model-checked**: the liveness properties `RequestsAnswered`, `WaitingEnds`,
`EveryTicketSettles`, `SendsEnd` and `HealthAnswered` (fairness and ENABLED are beyond the
prover; of `RequestsAnswered` the two theorems above are the part that is not), and that the
three properties of section 6 are violated.

## 6. What the checks found

* `GateAward`: the gate sends its record first and writes `waiting` after
  (`routers/concert_router.py:67-69`). If the consumer projects and releases the user in
  between, the late `waiting` overwrites `ready`. The next call is answered 425
  and renews the TTL of the stale mark, although `tests/gate_auto_demo.py:8` expects
  200. The properties of the other runs name this case (`fate = "overwritten"`).
* `BookingKept`: the booking statement goes through `execute_query_async`, which does
  not commit; the session is rolled back when it is closed. The docstring of the
  write path (`utils/database.py:89`) promises a transaction that is committed.
* `LazyStart`: `start_producer` assigns `_producer` before it awaits `start()`
  (`utils/kafka_client.py:26-35`). If the first `start()` raises, because Kafka is not
  up yet, every later send finds `_producer` set and starts nothing, although
  line 14 promises a start when it is needed. Only a restart of the process
  helps. The send still ends, with a time-out (`SendsEnd`).

Some behaviour that no document speaks against is named in the properties
instead: a message missed between snapshot and SUBSCRIBE (`StaleMeansNotified`), a
rank that is about to be lost to the user's own second record
(`RankIsOfThisRecord`), version 1.0.0 when the tags cannot be read (`ReleasesRise`), and a
check on `/health/db`, `/health/readiness` or `/health/stack` that hangs, and keeps its
connection, because PostgreSQL fell silent between SELECT 1 and the ROLLBACK that closes
the session (`HealthAnswered`; `routers/healthcheck_router.py:28-31`: the timers are inside
the probes).

## 7. Not modelled, and why

* Several concerts: they share no key and no partition order; several API
  processes: the deployment runs one, so that its group has one member and is not
  rebalanced while it runs.
* Contents of answers, logging, time as a number (a TTL or a deadline may end at
  any moment).
* `GATE_MODE` other than `auto` and a missing `QUEUE_TOPIC`: they switch parts of
  the gate off. `PUSH_IMMUTABLE`, which the pipeline sets to `false`.
* `stop_producer` and `execute_post_multi_async`: nothing in the program calls them.
* The token check (`utils/oauth.py`): no router depends on `Oauth.__call__`; only
  `create_jwt_token` is called, at login, and it is a function of its input.
* A pace of 0 (`configs/config.local.json`): no dequeue task is started and nobody is ever
  released, as configured. `PerSec = 0` is covered by the proofs; `EveryTicketSettles` does
  not hold of it.
* The estimate `/queue/enqueue` answers with when its wait has ended promises nothing.
* A base configuration file that cannot be read: the import fails and nothing runs.
* Utilities, packaging, demo scripts: no state.

## 8. Plan

1. *(done)* `QueueStore`, `QueueConsumer`, `FairLine`; `ConcertGate`;
   `DatabaseSessions`; `QueueClients`; `KafkaProducer`; `ReleasePipeline`;
   `Configuration` and `HealthChecks`; their runs, and theorems for every safety property.
2. Model: a `ConcertGate` whose sends go through `KafkaProducer` (refinement of the
   one-step send), and the shutdown of the process with streams that stay open.
3. Theorems: a variant for the other liveness properties, as `RequestsComeCloser` is for
   `RequestsAnswered`; the part of `OneLiveTicket` that is left to a user with several requests.
