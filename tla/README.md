# betting-core: verification

TLA+ models of the betting-core service (`src/`), the TLC runs that check them on
small instances, and TLAPS proofs of the properties that matter most. The models are
translated from the code; PROJECT.json maps every definition to its lines.

## 1. The system

A FastAPI service, run as several uvicorn workers with an event loop and a pool of
threads each, over one PostgreSQL database (READ COMMITTED, one transaction per
writing request) and one Redis. It ingests odds and predictions in bulk, registers bets
idempotently, and lists all three. No process keeps a state that a later request
reads, except the connections of its pool: whatever goes wrong goes wrong between
transactions, between Redis round trips, between a request and its retry, while
threads wait for connections, or while the schema changes underneath.

| component | state | operations | made correct by | status |
|---|---|---|---|---|
| **Bet placement** `crud/bets.py`, `routers/bets.py` | `core.bets`, its unique indexes on `idempotency_key` and on `(user_ref, external_id)` | `POST /bets` through `insert_bet_idempotent`; `create_bet`, the writer before it | one bet per key and per external id; response agrees with table; a replay is recognised as one | modelled, proved |
| **Rate limiter** `core/ratelimit.py` | Redis hashes `rl:<bucket>:<key>` with `tokens`, `ts` and a TTL | the Lua script, `RateLimiter.allow` (TIME, EVALSHA, fallback EVAL), two dependencies of `POST /odds`: per API key, then global | admission bounded by capacity and refill; expiry harmless; `Retry-After` right; nobody passes unpaid | modelled, proved |
| **Bulk ingestion** `crud/odds.py`, `crud/predictions.py` and routers | `core.odds`, `core.predictions` | `POST /odds`, `POST /predictions`: check references, (predictions) remove repeated keys, one multi-row upsert, commit | a batch takes effect in one step; counts exact; newest of repeated keys; deadlocks only between clients that order keys differently | modelled, proved |
| **Listings** `routers/*.py`, `core/pagination.py` | none; reads the tables | `GET /odds`, `/predictions` by cursor or offset, `GET /bets` by offset: COUNT, then page | untouched rows shown exactly once; the walk ends | partly; proved |
| **Request admission** `core/security.py`, `settings.py` | key table, fixed at import | `require_scopes`: 401, 403 | a request without the scope reaches neither limiter nor handler | modelled, proved |
| **Sessions and pool** `core/db.py` | 30 + 60 pooled connections | `get_db` opens and always closes a session; pre-ping, time-out | connections come back; an outage that is over harms nobody | modelled, proved |
| **Error mapping** `core/errors.py` | none | exceptions to statuses: unique 409, foreign key 404, CHECK/NOT NULL 400, anything else 500 | an error status means nothing was stored (500 excepted) | modelled |
| **Readiness, health** `routers/readiness.py`, `health.py` | none | `/healthz`, `/readyz` (ping, view `core.readiness`, alembic revision) | ready only on the expected schema | modelled |
| **Migrations** `db/alembic`, `db/ddl` | the schema, `alembic_version` | three revisions, up and down; `V1__core_schema.sql` for containers | the schema is that of its revision; the arbiters named by the writers exist | modelled, proved |
| **Middlewares, assembly** `main.py`, `observability/*` | counters | request id, metrics, log, trace headers | each answer is counted as what the client gets | partly |
| **In-memory limiter** `core/limiter.py` | dictionary of deques | used by no route | – | not modelled |
| **Scripts, CI** | – | load test, smoke test | – | not modelled |

Interactions. A call passes the middlewares; its JSON body is parsed; its dependencies
run in the order the route lists them: API key and scope (in a thread), for `POST /odds`
the two buckets (on the loop), a session (in a thread); then parameters and body are
validated; the handler runs in a thread and calls one function of `crud/`; for most
routes the result is validated in a thread; the session is closed; only then does the
answer, or the exception, travel out to the handlers of `errors.py`. Handlers of
different requests meet in the thread limiter and the pool of their process, in
PostgreSQL (index entries, row locks, snapshots) and in Redis (the script is atomic, the
round trips around it are not). Runs of alembic meet each other and the writers in
PostgreSQL's table locks.

Hard behaviours: a replay that races its original; waiting for uncommitted index
entries; constraint checks in the middle or at the end of a statement; failures between
commit and answer; readings of the Redis clock that are overtaken; EVALSHA that ran but
raised; keys that expire or are lost; row locks taken in the order of the client's
list; listings over rows that are inserted and moved meanwhile; connections held by
calls that queue for a thread while threads wait for connections; outages of
PostgreSQL at every point of a call; overlapping or killed migrations under running
writers. PROJECT.json lists each under `hazards`, at its line, with the properties
aimed at it.

## 2. The modules

The modules divide the system along its shared resources. `Bets`, `BulkUpsert` and
`Paging` are what happens inside PostgreSQL, `TokenBucket` what happens inside Redis;
`Service` is the process around them and treats a handler's statements as one step that
commits, refuses, raises or breaks; `Migrations` is the schema the statements rely on, and
what the locks of a schema change do to the runs and to the writers.

### BetPayloads, IdempotentBets, Bets, BetsProofs, MCBets

`BetPayloads` reduces a body to what decides the outcome: its key, its external id,
the constraint it breaks after validation ("data", "check", "fk"), and the writer that
serves it: while a release is rolled out, workers with `create_bet` and workers with
`insert_bet_idempotent` serve the same table, so every delivery has its own.

`IdempotentBets` is the promise to a client: every delivery is decided in **one** step:
created (201), recognised (200 with the id of the stored bet), conflict with another
bet (409), refused (400, 404) or failed (500, stored or not). `BlindReplay` is the one
flaw of today's writer that the promise has to include: 200 without an id, only if
the bet was created while the delivery was under way.

`Bets` is the code, step by step. `Execute` takes the statement's snapshot; `RejectRow`
is the evaluation of columns and CHECKs; `ClaimKey` and `ClaimPair` enter the two
indexes, one after the other (both are disabled while an open transaction
holds the entry: the wait); `KeyConflict` and `PairConflict` are ON CONFLICT DO NOTHING
on the arbiter of the writer, with today's writer's fallback SELECT **in the
snapshot**; `UniqueViolation` and `ForeignKeyViolation` go through
`integrity_exception_handler`; `Returning`, `CommitCreated` and `CommitSkipped` end the
request; `Lookup` is the SELECT after the commit that only `create_bet` has;
`Fail` and `CommitUnacknowledged` are failures before and after the commit took
effect. A retry by a client is another member of `Requests` with the same body.

### TokenBucket, TokenBucketProofs, MCTokenBucket

`RunScript` is the Lua script: refill clamped to a non-negative interval and to the
capacity, the comparison, and HMSET with a TTL rounded up to seconds. `ReadTime`
and `EvalSha` are separate, so readings can be overtaken. `EvalShaRaises` (the
script is unknown or Redis was not reached) and `EvalShaReplyLost` (it ran) both lead
to `Eval`, with the old reading; after a lost reply the request therefore pays twice.
`Reply` sends a request on from its own bucket
to the global one. `LoseKey` is an eviction, or a restart that lost the last
writes. Time is in ticks and tokens are in grains so that everything is an integer:
`Refill[b] * TicksPerSecond / Cost` is `refill_per_sec`. The variables `taken`, `lost`
and `rewound` are history and no guard reads them, except the bound on `lost`.

### BatchPayloads, AtomicBatches, BulkUpsert, BulkUpsertProofs, MCBulkUpsert

`BatchPayloads` reduces a row to its unique key, its `predicted_at`, whether that has a
time zone, and its flaw; a batch is an endpoint and a list of rows. The two tables have
no unique key in common, so that one map holds the rows of both.

`AtomicBatches` is the promise: a delivery is decided in **one** step, which stores for
every key it names the newest row (the later one of equals) and counts the keys that
are new, or stores nothing. A 500 leaves open which. Only the rows that are `Used` can
make it refuse: an older prediction that the writer drops never reaches the constraints of
the table, so that a batch with a flaw in such a row is accepted.

`BulkUpsert` is the code. `Norm` is the loop over `by_key` as a recursive function, with
the order of a Python dict; for odds the statement is the batch. `WriteRow` adds a version to the
chain of the key if no other open transaction has locked it, and counts it as inserted if
there was no committed version (`xmax = 0`); `SecondTime` is the CardinalityViolation;
`RejectRow` a CHECK or a column; `Deadlock` PostgreSQL's choice of a victim; `Commit`,
`Fail`, `CommitUnacknowledged` as above. `NothingToDo`, `UnknownReference` and
`MixedTimes` are the early ends of the handlers. Readers see the last committed
version of a chain, and that is what `Promise` maps to the abstract table; the abstract
step is the commit.

### Paging, PagingProofs, MCPaging

One client walks a listing to its end. `Count` and the page (`CursorPage`, `OffsetPage`)
are separate statements; `Insert` is a row committed by a writer, `Move` the upsert of
a prediction with another `predicted_at`. A cursor is the pair it encodes; base64 and
JSON keep it exactly. `changed` and `raced` are history.

### NaturalsLemmas

Three facts that `BulkUpsertProofs` and `PagingProofs` share: a set of natural numbers has
a least element, a bounded one has a greatest, and a set with 0 that is closed under
successor has them all. They are stated about sets, which takes the place of induction over
a predicate.

### Service, ServiceProofs, MCService

One worker process. `stage[r]` says where a call is: on the event loop, in the FIFO
`queue` for a thread, in a thread, answered. `Arrive` is the parsing of the body;
`CheckScopes`, `Charge`, `Deny`, `RedisFails` and `OpenSession` are the dependencies in the
order of `Dependencies`, which is that of the route (`Granted` is the key table with
its rule that the last entry for a key wins); `Handle` is the handler's thread;
`Connect`, `ConnectFails` and `PoolTimeout` the checkout of a connection; `Pinged`, `Read`,
`Refuse` and `Write` its statements; `Confirm` the reply to COMMIT; `Render` the validation
of the result; `Close` the end of `get_db`, after which the error handlers and the
metrics see the outcome. `Refuse` stands for all that a call itself can make go wrong in
its handler: what the code turns into a 400, 404 or 409 (body "refused"), and what nobody
catches, such as odds that repeat a key, a comparison of times with and without a zone, or a
number the column cannot hold (body "raising"). `Deadlock` makes a writer PostgreSQL's
victim, whoever else is in the circle. `Migrate` changes the `schema` (the head revision,
an older one, tables or `alembic_version` missing); under another one than the head a
statement may fail (`SchemaFails`), and `/readyz` answers 503 if the revision is not the
expected one (`ExpectedRev`) or there is nothing to read it from (`Unready`). `conn`, `fresh` and `stale` are the pool: connections checked out,
idle and usable, idle and broken by an outage. `Stop` and `Start` are the outage. A SELECT
begins a transaction, so that a listing keeps its connection until `Close`, while a writer
gives it up at its commit.

### Migrations, MigrationsProofs, SchemaProofs, MCMigrations

A run of alembic reads the revision (`Begin`), has a `Plan` of statements from there, and
executes them in **one** transaction (`Execute`, `Commit`; `Fail` and `Kill` roll back).
A statement creates or drops an object, under a table lock that admits other index
builds (SHARE) or nobody (ACCESS EXCLUSIVE), or updates `alembic_version`, which fails if
the row is no longer the one the run began with. A statement waits for table locks, for
the writers of its table, and for uncommitted catalog entries of the same name. DROP
INDEX IF EXISTS of an index that is not there locks nothing (`LockedBy`), and CREATE INDEX IF
NOT EXISTS does not see an uncommitted one: if it had to wait for it, the name is a
duplicate (`WaitedInVain`). `Dropped` takes a table's indexes with the table. A statement
that locks several tables takes the locks one by one (`Lock`, then `Execute`): the DROPs of
the first revision's downgrade are one statement of the model, with the tables locked in the
order in which those DROPs, and the foreign keys they drop, come to them (`DropRank`,
`Front`).

Writers lock tables too, until their transaction ends (`Held`): `POST /odds` and `POST
/predictions` look up two references, one after the other (`LookUp`), before the upsert
(`Insert`), `POST /bets` only inserts, which checks its foreign keys; `Asks` is what the next
statement locks. The writers of a table bring the same row: `POST /odds` fails without its
arbiter, `POST /bets` inserts a second row as long as there is no index on the pair.
`Deadlocked` is a circle of runs and writers that wait for each other; its victim may be a
run (`Fail`) or a writer (`Abort`). `ReadView` and `ReadRevision` are the two statements
of `/readyz`. `OriginOf` are the databases a history starts from: new, at each revision,
with repeated rows under what is to become unique, and the container's. Objects that no
property tells apart (the tables and their own indexes) are one.

## 3. The runs

`expect: pass`:

| run | instance | states | shows |
|---|---|---|---|
| `bets` | 3 deliveries, 10 bodies: same key with other external ids, same external id with other keys and none, every flaw, both writers | 494 000 | section 4.1: the contract, the refinement, every delivery answered |
| `bucket` | 2 requests with one key and the global bucket, capacities 2 and 1, a third of a token per half-second tick, 3 ticks, one lost key per bucket | 552 000 | bounds, expiry and exact `Retry-After` with everything rounded; nobody passes unpaid; every request decided |
| `bulk` | 3 batches out of 5 bodies of odds over 3 keys in rings, or out of 10 of predictions over 2 keys: both orders, repeated keys with older, equal and newer times, mixed time zones, every flaw, also in a row that is dropped | 129 000 | atomic effect in commit order, newest row, exact counts, order kept, cycles of two and three resolved |
| `paging_walks` | all tables of 3 rows with 3 times, 8 queries, pages of 1 and 2 | 104 000 | what a walk shows, and that it ends |
| `service` | 3 calls: a listing, a listing or a bet, and any of 13 calls; 1 thread, 1 + 1 connections, 1 outage or 1 change of the schema | 726 000 | section 4.5 |
| `migrations` | 3 runs (an upgrade, a downgrade, either), 1 kill, a writer of odds, 2 of bets, a probe, 5 kinds of database | 374 000 | section 4.6: the invariants, and why a run fails |
| `migrations_revert` | the same runs, a writer of odds and one of predictions | 71 000 | section 4.6: circles of runs and writers while the first revision is reverted, and that everyone ends |

`expect: violation`, each a disagreement between the code and what the repository says
(quoted, with its line, under `findings`):

| run | what happens |
|---|---|
| `bets_null_replay` | a test says the same key gets 200 "och samma bet_id"; a replay that races the original gets 200 and `bet_id: null`, because the fallback SELECT is part of the INSERT's statement |
| `bucket_overadmission` | "capacity/refill_per_sec: hinkstorlek och påfyllning"; with an overtaken reading one interval is credited twice, and a bucket of 1 token and 1 token/s admits 3 within a second |
| `bulk_repeated_odds` | a list of odds is "upserted"; a list that repeats a key fails as a whole with 500 |
| `paging_moved_predictions` | a test expects "Inga dubbletter"; a prediction that is upserted with a later `predicted_at` during a walk is returned twice |
| `service_retry_after` | a test of the limiter expects `Retry-After` on a 429; in the assembled application the handler for HTTPException builds the response anew and drops the headers |

Why the bounds are enough.

* Three deliveries are the creator of a bet, a replay and a
  stranger that clashes with either; the invariants relate at most three of them, and
  a cycle of waits over two indexes needs two. The proofs remove the bound.
* Two requests to a bucket are one that overtakes and one that is overtaken; three ticks
  of half a second reach past the shortest TTL. The proofs remove the bounds.
* Three batches make the ring of waits that no two of them form. Requests are
  interchangeable but for what they carry: a bag of bodies is handed out in one way only.
  The proofs remove the bounds.
* Three rows are the page before, the boundary and the page after. The proofs remove the
  bound, and that on the size of a page.
* In `service` a thread and two connections stand for 40 and 90: what matters is that
  listings in `render` can hold every connection while the thread waits for one. In
  production this stall takes 130 listings at once (90 rendered and waiting for a
  thread, 40 in threads); the pool's time-out of 30 s ends it. One outage is one that is over while
  its broken connections are still idle in the pool; a change of the schema leaves nothing
  behind in the process, so that one is enough, and nothing relates the two. The proofs
  remove the bounds.
* Three runs are needed for the deadlock of two runs of which one was overtaken: among
  runs only, with two of them, locks are always taken in an order that makes one wait for
  the other. A run that reverts the first revision and one writer are enough for a
  deadlock of their own kind; the second writer of `migrations_revert` holds other
  references. Three writers in `migrations` are a race for the pair of a bet and one upsert
  of odds. The proofs remove the bounds.

`MaxClock`, `MaxLost`, `MaxDisruptions` and `MaxKills` are the only bounds in guards;
everything else is finite because each request ends.

Deadlock is checked in `bets`, `bucket`, `bulk` and `paging_walks`: there `Quiescent` and `Finished`
are the states in which the server idles. Service and Migrations do stop, when every
call has been answered and every run has ended (`CHECK_DEADLOCK FALSE`);
that nobody is left waiting is what `EveryCallAnswered` and `EveryoneEnds` say. Symmetry is used
only in `bucket_overadmission`, over requests that nothing tells apart.

## 4. The properties

### 4.1 Bets
`OneBetPerKey`: no two stored bets share a key or an external
id. `ResponseMatchesTable`: every status and id agrees with the table, for ever after.
`ReplayOfStoredBet`: a delivery of a bet that was already stored gets that bet's id
and no 409 or 404. `NullOnlyInRace`: a missing id needs an overlapping creation, and
today's writer. `ConflictIsForeign` (action): a 409 is about somebody else's bet.
`KeepsPromise`: refinement of `IdempotentBets`. `EveryRequestAnswered` (liveness): no
circle of waits.

### 4.2 TokenBucket
`AdmissionBound`: `taken * Cost <= capacity * (1 + lost) + refill * (clock + rewound)`; the
last term is exactly what overtaken readings cost. `ExpiryIsHarmless`: an expired key
would be full. `PassersPay`, `RetryAfterIsExact` (action), `EveryRequestDecided`
(liveness).

### 4.3 BulkUpsert
`KeepsPromise`: refinement of `AtomicBatches`, which says at once that batches are atomic
and take effect in the order of their commits, that the newest row of a batch stays,
that `inserted` counts exactly the keys that were new, and that errors leave nothing
behind. `BatchesAreAtomic` says the first of these of the table alone: it is always what the
committed batches produce one after the other, although their rows were written
interleaved. `RepeatedPredictionsAreUpserted`: predictions may repeat a key.
`OrderedBatchesNeverDeadlock`: if one order of
the keys fits all batches as the clients sent them, nobody is a deadlock victim.
`EveryBatchAnswered` (liveness).

### 4.4 Paging
`PagesAreSorted`, `StableRowsOnce` for cursors; `MissingRowsWereRaced` for
offsets; `WalkEnds` (liveness) for cursors.

### 4.5 Service
`ConnectionsComeBack`: the pool never exceeds its size and no answered call holds a
connection. `TimeoutsNeedReaders`: a call finds the pool exhausted only while more finished
readers than the pool has connections to spare hold theirs; writers never contribute.
`FailureHasOwnCause`: a 500, or a 503 of `/readyz`, is the call's own doing (it asked for
`/_boom`, or its own values make a statement or the code before it raise) or has a cause
**while it is under way**: PostgreSQL is down, the schema is not the head or not the one
`/readyz` expects, the call is a deadlock victim, it gives up waiting for a
connection, Redis fails. A call that has none of these is never failed by what happened
before it: an outage or a migration that is over leaves nothing behind in the pool; and
what the code refuses (bad cursors, unknown references, broken constraints) does not end
as a 500.
`OnlyAdmittedTouchData`: nothing is stored, charged or borrowed for a call that lacks the
scope; nothing is stored or borrowed unless both buckets were paid, where they are in force.
`AnswerAgreesWithData`: success means stored, refusal means not stored; only 500 leaves it
open. `AnswersAreCounted`: the counters add up to the answers, also to those made outside
the middleware that counts. `EveryCallAnswered` (liveness), with only the pool's time-out
to break the stall.

### 4.6 Migrations
`SchemaMatchesRevision`: whichever runs overlapped, failed or were killed, the committed
schema has all that the revision in `alembic_version` stands for. It has more in one case
only, which takes three runs: a downgrade of the last revision that was overtaken by another
one finds its indexes gone, locks nothing, and lets an upgrade in that builds them again;
its stamp then finds the row at the value it expects, and reverts the revision without the
indexes. They are in nobody's way, and the next upgrade accepts them. `IndexesHold`: an index that exists has
no key twice under it, although writers raced its construction. `ReadyMeansArbiters`: once
`/readyz` said 200, with a revision to expect, the arbiters of the writers are there until
somebody reverts one. `FailureHasCause` (action): a run fails because another one overtook
it, because of repeated keys, or as the victim of a deadlock, and there are two kinds of
those. In one, a run was overtaken: an upgrade planned before a downgrade and another upgrade
committed takes its locks in a different order. In the other nobody was, but the
first revision is being reverted: a writer of predictions holds `models` and
asks for `selections`, the downgrade locked `selections` when it dropped `bets` and asks
for `models` when it drops `predictions`. Every other revision can be applied or reverted
under writers without that risk. `LookupsLast` (action): what a writer has looked up stays there
until its transaction ends, so that after the first lookup it fails in such a deadlock or
not at all (a missing arbiter apart). `EveryoneEnds` (liveness): PostgreSQL's detection ends
the circles, and no lock outlives its transaction.

### 4.7 Fairness
Weak fairness on *some* step of the requests that have begun, as one disjunction: a thread
or coroutine that can go on is not left alone for ever, the database wakes a waiter once
its holder has ended and looks for deadlocks, an await on Redis ends with a reply or an
exception, the pool gives up after its time-out. This is weaker than fairness for each
request, and enough because no request takes steps for ever: the properties say that from
some point on nobody is under way. Nothing makes a client
send a request, a failure happen, PostgreSQL come back, the clock advance, a key
disappear, a run of alembic begin, or a probe go on. In Paging the
client is assumed to follow `next_cursor`, which is what the property is about.

## 5. The proofs

TLAPS proves, for any number of requests, keys, bodies, buckets, rates and times, any mix of the
two writers of bets, any size of the pool and number of threads, any table of API keys, any list of rows, any
size of a page and number of rows in a listing, and any number of runs of alembic, of
writers and of probes:

* `BetsProofs`: `TypeInvariant`, `InductiveInvariant` (`Spec => []IInv`), and from it
  `AtMostOnce`, `ResponsesAgree`, `ReplaysAreRecognised`, `NullMeansRace`,
  `ConflictsAreForeign` and `Refinement` (`Spec => KeepsPromise`). Uniqueness of stored bets is not inductive:
  a bet becomes unique long before it is stored, when its transaction enters the
  index. `IInv` says that an entry of an index, committed or open, has one owner
  (`KeysClaimedOnce`, `PairsClaimedOnce`), what a request knows in each phase (`WellFormed`),
  and that a request that can see its bet never gets past the index
  (`ReplayIsForeseen`). The refinement maps the snapshot to what the delivery had
  seen, and the response to the answer; each step that ends a request maps to one action
  of `IdempotentBets`, all others stutter.
* `TokenBucketProofs`: `TypeInvariant`, `InductiveInvariant`, `BoundedAdmission`,
  `HarmlessExpiry`, `NobodyPassesFree`, `RetryAfterExact`. The invariant is a budget per bucket, tokens given away plus tokens
  stored against capacity plus refill **up to `ts`**, and that a key lives until its
  bucket is full (`Covered`); with `ts <= clock` the budget gives the bound. The
  arithmetic of rounding up is in lemmas of its own. `NobodyPassesFree` counts: the requests
  a bucket has let through are a set that grows by one only when `taken` does.
* `BulkUpsertProofs`: `NormKeepsNewest`, `TypeInvariant`, `InductiveInvariant`, `BatchesAtomic`,
  `RepeatedPredictions`, `OrderedBatches`, and `ImplementsPromise` (`Spec => KeepsPromise`).
  `NormKeepsNewest` is what the loop over `by_key` computes, for any list: one row of
  each key, the newest (of equals the later), in the order in which the keys were first
  named; its proof considers the least number of passes that would not. The
  invariant says of a request which rows it has written and counted (`WellFormed`), and of
  the versions of a key that each has one writer that wrote it once (`WrittenBy`,
  `WrittenOnce`), that an open transaction has the last one (`OpenIsLast`; this is what a row
  lock is for) and that the committed ones are in the order of the log (`InLogOrder`).
  Atomicity of the table is not inductive without the last two: it is about
  the newest committed version, and a commit can only make one of its own rows that. Requests
  that wait in a circle would need ever later keys in a common order, and there are finitely
  many. Of the steps, `Commit` and `CommitUnacknowledged` map to `Accept`, as `NothingToDo`
  does (with no keys), all other ends to `Refuse`, and the rest stutter.
* `PagingProofs`: `TypeInvariant`, `InductiveInvariant`, `CursorWalksAreSorted`,
  `UntouchedRowsOnce`, `OddsOnce`, `MissedRowsWereRaced`. The pages are defined by places in a
  listing, so the proofs rest on lemmas that the ranks of the entries of a finite set are
  0 to n - 1, each taken once. The invariant says that a row is still where it was when it
  was shown, unless it was moved (`Genuine`); that a walk by cursor has shown
  all that stayed behind its cursor, and nothing beyond it (`CursorInv`); that a walk by
  offset has shown all untouched rows in the places it skips, which an insert can only move
  to later ones (`OffsetInv`).
* `ServiceProofs`: `TypeInvariant`, `InductiveInvariant`, `NoConnectionLeaks`,
  `ExhaustionNeedsReaders`, `FailuresHaveOwnCauses`, `GatesHold`, `AnswersAreTrue`,
  `CountersAgree`. What a client is told follows from the whole way of its call, so the
  invariant says of each stage of a call which gates were passed to get there (`Gates`),
  which outcomes its transaction can have had (`Commits`), whether it holds a connection
  (`Holds`) and what it can have been told (`Told`); and of the pool that
  what is checked out and what is idle stay within its size (`PoolInv`). That
  the pool is exhausted only by readers without a thread is a count: the caller that
  waits is in a thread and has no connection, so that the others in threads hold fewer than
  `Threads`; what is left of the pool belongs to listings in `render` and sessions in `close`.
* `MigrationsProofs`: `TypeInvariant`, `InductiveInvariant`, `UniqueIndexesHold`. That no key
  repeats under an index is not inductive: a writer that has inserted and not committed is
  not counted yet, and neither is an index that is being built. The invariant says that
  an index that is there lets one writer insert, and only if there is no row
  (`ArbitersHold`), and that one being built has found at most one row, no writer at
  work, and holds a lock that keeps writers out until its run ends (`BuildersLock`). The
  statements of the three revisions enter through lemmas about what they lock.
* `SchemaProofs`: `SchemaInvariant`, and from it `SchemaFollowsRevision`,
  `ReadinessCoversArbiters`, `FailuresHaveCauses` and `ReferencesLast`. None of the four is
  inductive: what a run commits is what it has seen and done since it began, while others committed. The
  invariant follows each run through its script (`Upgrading`, `Downgrading`: the place
  in it, what was made and dropped up to there, and what is known of the committed schema
  from there). Until its first stamp a run has only read the revision; with the stamp,
  which fails if the row has changed and waits if another run has changed it, that reading
  becomes a lock, so that one run at most has stamped and `Current` stays where its own
  statements started. `Covered` says that uncommitted changes lie under table locks,
  and `Apart` that no two runs hold locks or names that exclude each other: together they
  keep a commit of one run from invalidating what another has done. `SchemaInv` is what
  survives: the schema has all that the revision promises, and more only after a
  `LostRace`. For deadlocks the invariant gives an order of the runs: while nobody
  has been overtaken all runs have read the revision that is current, at most one is
  `Strong` (`OnlyOneStrong`: each revision has a lock or a name that every strong run holds), a
  strong one waits for nobody, and a run that is waited for is strong, or has dropped
  the view; only runs that have done nothing wait for that one, and it waits only for a
  strong one. Writers join such a circle only while the first revision is reverted: no other
  statement locks a table that is looked up, so that a writer another run waits for
  has already written, and waits for nobody. So there is no circle.

Assumptions: `PayloadsAssumption` (in BetPayloads), `BatchesAssumption` (in BatchPayloads),
`TokenBucketAssumption`, `PagingAssumption`, `ServiceAssumption` and `MigrationsAssumption`,
which say that the constants are what their
comments say, and that requests, keys or ids are finite in number where they are counted.
Two theorems of SchemaProofs have the hypothesis `KnownFromTheStart`, that no history starts
at the database of `V1__core_schema.sql`: it has objects that no revision promises, and
the upgrade fails there at the first table it wants to create, without anybody to blame
(so that `uq_odds_snapshot` is never made and every `POST /odds` on it fails). That all is there that the revision promises holds for that database too, as part of
`SchemaInvariant`. `ReadinessCoversArbiters` has the hypothesis `HeadIsExpected`:
`ALEMBIC_EXPECTED_REV` is the head, and `READYZ_STRICT_MIGRATIONS` is on. With an older
revision to expect, or none, `/readyz` answers 200 while an arbiter is missing.

Only model-checked: the liveness properties `EveryRequestAnswered`, `EveryRequestDecided`,
`EveryBatchAnswered`, `WalkEnds`, `EveryCallAnswered` and `EveryoneEnds`, which are out of this
prover's reach. Every invariant and action property of the passing runs, and both
refinements, are proved. Only proved: `OddsOnce`, that no row of odds comes twice in a walk
by cursor, which follows from the order of the pages because the time is part of the key of
odds.

## 6. What the models leave out

* Strings: a key is a model value. An empty `idempotency_key` or `external_id`, which the
  code treats partly as absent, is not modelled.
* A response lost on its way to the client: the client's retry is another delivery.
* Cancellation of a coroutine in the middle of the limiter, and clients that disconnect.
* Rounding of floating-point numbers: the script computes in doubles, the model in
  integers.
* The script cache of Redis: `EvalShaRaises` covers NOSCRIPT. Redis' own scheduling
  of expiry: a key is gone at its time.
* Deletes, and changes of `status`: no request does either. That the references which a
  handler has looked up stay there until its INSERT, also while a migration would drop
  them, is `LookupsLast`; in Migrations they all exist.
* In Migrations: the DROPs of `markets` and `ingest_audit`, which no writer locks (the
  relations between the reference tables add no other order for the tables that are
  modelled); the lock of a probe on the view, which the DROP of the view would wait for
  until the probe's statement ends.
* In Service: which other transactions make a writer a deadlock victim (BulkUpsert and
  Migrations say when there can be any); a result that fails the validation against
  its `response_model`. A probe is no deadlock victim: who
  locks what it reads has dropped the view before, and there the probe waits without
  having locked anything.
* Which of two batches *should* win a key that both bring: the last commit does, also if
  its `predicted_at` is older; nothing in the repository says otherwise. Rows repeated
  by a walk by offset: inserts shift them, and nothing promises more.
* In PostgreSQL: serialisation of two statements on one page, tuple locks and
  vacuum are below the models; what is modelled is when a statement waits, what it
  sees and which error it raises.
* Of the pool, `pool_recycle`; of the handlers in Service, the single statements, which the
  other modules have.
* Offline migrations, which print SQL.
* `core/limiter.py`: no route uses it. Its `check` appends to a queue only inside the loop
  that runs over a queue that is not empty, so that it would never limit.
* Log lines, traces, histograms and the wording of error bodies; of the request id only
  which answers carry it (the middleware looks for `X-Request_ID`, so that an id sent by
  a client is not taken over).
* The equality filters of the listings; `list_odds`, `list_odds_page`,
  `list_predictions_page`, which no route calls; `_ensure_fk...` of `routers/bets.py`, which
  nobody calls.
* Load test, smoke test and OpenAPI export.

## 7. Plan

Done: every component that keeps or guards state, all six with an inductive invariant
that is proved, two with an abstract specification whose refinement is proved. What remains:

1. An abstract specification of what the two buckets in a row promise to a client of
   `POST /odds`, which `TokenBucket` would implement up to the overtaken readings.
2. `list_odds_page` and `list_predictions_page`, if a route comes to call them.
