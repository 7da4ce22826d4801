# A verification of the URL shortener

TLA+ modules, TLC runs and TLAPS proofs for the FastAPI service under `src/src/`
(paths below are relative to the repository root, `src/` here): authenticated
clients create, read and delete short links; the public redirects through them;
PostgreSQL is the truth, Redis the cache in front of it.

## The system

| Component | State it keeps | Operations | Interacts with |
| --- | --- | --- | --- |
| URL service (`services/url_service.py`, `routers/urls.py`, `routers/redirect.py`) | per request: its session, `url_obj`, retries, the response | POST, GET metadata, GET redirect, DELETE | sessions, cache, click recording |
| Sessions (`database.py`) | engine with 10 + 20 connections; per session what is flushed and the locks it holds | `get_db`: yield, commit, rollback | every handler through `Depends` |
| Cache (`cache.py`) | Redis keys with expiries, one lazily created client | get, set, delete, incr, ping; errors swallowed except in incr | URL service, rate limiter, health |
| Models (`models.py`) | tables `urls` (unique index on `short_code`, soft delete), `clicks`, `users`, `audit_logs` | `is_deleted`, `is_expired` | sessions |
| Click recording, statistics (`services/analytics_service.py`, `routers/stats.py`) | rows of `clicks` | `record_click` as a background task, `get_stats` | the redirect's session |
| Rate limiter (`middleware/rate_limiter.py`) | a Redis counter per user and window | count and refuse | cache, authentication |
| Authentication (`middleware/auth.py`, `utils/crypto.py`) | none of its own | look the key's hash up | sessions |
| Validator (`services/validator.py`) | none | scheme, host and address checks, DNS | `create_url` |
| Code generator (`utils/codegen.py`) | none | a random code | `create_url` |
| Application (`main.py`, `config.py`, `schemas.py`) | settings, router order | start, stop, route, map exceptions | all |
| Health check (`routers/health.py`) | a session of its own | `SELECT 1`, ping | the pool, Redis |
| Schema runner (`schema_runner/`) | none | a command-line tool for the documents | no part of the service |

What is hard here. Every handler is a coroutine that gives way at each `await`,
so requests interleave between their queries, their cache calls and their
commits. The commit is not in the handler at all: `get_db` commits after the
handler has returned, hence *after* `cache_set` and `cache_delete`, and before
or after the response according to FastAPI's version. The cache is written from
a row read an await earlier. Redis errors are swallowed and look like success.
A rollback or a crash undoes the table and not the cache. What each component
must guarantee is the list of properties below; what is hard to test is
`PROJECT.json`'s `hazards`, each at its line.

## Modules

| Module | Role |
| --- | --- |
| `UrlService` | the handlers, sessions, cache and background task: state, one action per stretch of code between awaits, faults, `Spec`, `FairSpec`; also the variants that the mutants swap in (`UniqueAmongLive`, `AnyoneOwns`, ...) |
| `UrlServiceProperties` | invariants, action properties, liveness, and the refinement of `LinkStore` |
| `LinkStore` | the abstract specification: a code is bound once and for good to the link a request asked for, retired at most once and for a request of its owner, and clients are told only of what they asked for and has happened |
| `UrlServiceHistory` | `UrlService` with what was already confirmed, and the clock, when each request arrived |
| `RateLimiter` | the API key and the rate limit in front of the authenticated handlers: buckets, Redis counters, the verdict and Retry-After, with its properties |
| `Pool` | the engine's connections: who holds which from its first query to the end of its session, the pre-ping, overflow and time-out, outages of PostgreSQL, the health probe, start-up and shut-down |
| `Statistics` | the owner's report of a link's clicks, while clicks are recorded and the link is deleted |
| `Validator` | `validate_url` as operators: the order of its checks, the blocked networks bit by bit |
| `Routing` | the routes in the order of their registration, and which handler a path reaches |
| `Intake` | the body of a POST through schema, validator, lifetime and code, composed of `Validator` and `Routing` |
| `UrlServiceProofs` | proofs: the inductive invariant of the handlers, the table, the cache, kept promises |
| `UrlServiceOrigin` | proofs: where the URLs of redirects and cache entries come from, what clicks refer to |
| `UrlServiceRefinement` | proof that the handlers implement `LinkStore` |
| `UrlServiceClients` | proofs of what a client may conclude from an answer it has |
| `RateLimiterProofs`, `PoolProofs`, `StatisticsProofs`, `IntakeProofs` | proofs about the module of that name |
| `MC*` | the menus of jobs and bodies, the users' limits and the symmetries of the runs |

State and code. `urls` is table `urls` by `short_code` (the unique index makes
it a function); `deleted` stands for `deleted_at` and `is_active`. `cache` is
Redis with the instant at which each key expires. `pending[r]` is what session
`r` has flushed and not committed: it is also the lock it holds. `row[r]` is the
handler's `url_obj`, `answer[r]` the response, `sent` the requests whose
response has left, `clicks` the committed clicks by the redirect they count.

| Request | Actions in order | Code |
| --- | --- | --- |
| POST | `Arrive`, `CheckAlias` or `PickCode`*, `Insert`, `WarmCache`, `Commit`, `Send` | `create_url`, `_generate_unique_code` |
| GET redirect | `Arrive`, `CacheGet`, (`Select`, `Rewarm`), `GetUrl`, `Commit`, `Send`, `RecordClick` | `resolve_url`, `redirect_to_long_url`, `record_click` |
| GET metadata | `Arrive`, `Fetch`, `Commit`, `Send` | `get_url` |
| DELETE | `Arrive`, `Find`, `Mark`, `Evict`, `Commit`, `Send` | `delete_url` |

`Counters` are Redis's other keys, those of the rate limiter: `rl:<user>:<window>`
has a colon, so that no alias and no generated code is one, but `resolve_url` looks
any path up. `CountCall` is what the limiter does to them as far as a redirect can
see it, a key whose value is a count (`Tally`) and whose time to live starts anew.

Every early return is a disjunct that ends in `Abort`, which is `get_db`'s
rollback with the error response. `QueryFails` and `CommitFails` are a database
that raises at any await (a failed commit may have been applied), `RedisForgets`
an eviction or a restart, a cache operation that does nothing a Redis error, and
`Crash` the death of the process: open transactions are rolled back, Redis and
committed rows stay. `Faults` says which of them a run allows.

PostgreSQL is modelled as it is used, at READ COMMITTED: a query sees committed
rows; an INSERT waits for an uncommitted row of the same code and fails on a
committed one; an UPDATE waits for the row's lock, and its `WHERE id = ...`
applies to a row that was deleted meanwhile too. FastAPI 0.106 to 0.117 (the
README names 0.115) leave `get_db` before the response is sent; from 0.118 on,
which `requirements.txt` also allows, the response and the background task come
first. `CommitBeforeSend` selects; where a run or a theorem has it TRUE, it says what
holds of the version the documents name, and not of every one that may be installed.

`RateLimiter` stands beside `UrlService`: its calls are the requests before
`Arrive` admits them, one action each for the key's lookup (`Authenticate`), the
`INCR` and `EXPIRE` that Redis runs in one transaction (`Count`) and the verdict
(`Judge`), with the clock free to move between them. `issued`, `applied` and
`judged` are the three instants; `WindowStart` is computed from the first,
`RetryAfter` from the last. `Latency` bounds the seconds between the first two
(Redis calls time out after one second). The models are not composed. What the two
share is Redis's key space: only the limiter writes its counters, no handler creates,
re-warms or evicts one, and a redirect may read one, which is `CountCall`'s part in
`UrlService`. The counts themselves are `RateLimiter`'s matter.

`Pool` looks at the same handlers from the engine's side. What they compute is
`UrlService`'s matter; here a request is the sequence of its awaits, `todo`, with
the API key's query and the rate limit in front. `Checkout` is the pool handing a
connection to a session at its first query: an idle one, or a new one while fewer
than `PoolSize + MaxOverflow` are open, tried by the pre-ping before use. `holder`
says who has it and `alive` whether its server side still exists; `DbStops` cuts
all of them. `Query`, `Commit`, `Refuse` and `Close` are what happens on it, and
`Fail` is an exception, which `get_db` turns into rollback and close while the
probe and `record_click` swallow it. A redirect's background task checks a
connection out again, after its session has been closed by `get_db`
(`CommitBeforeSend`). `TimesOut` is the pool's 30 seconds. `StartUp` needs the
database for `create_tables` and nothing of Redis: `get_redis` only makes a client.

`Statistics` has one action per query of `get_url_stats` and `get_stats`, with
`Begin` and `Store` for the two ends of a click's transaction, because `clicked_at`
is the database's `now()`: when the transaction began, not when its click can be
seen. Days are `DayLength` ticks and `LastDay` is `date.max`.

`Intake` follows one body: `Arrive` is Pydantic's verdict on its types and limits,
`Resolve` everything `create_url` does before its first await (the name service
included, which stops the loop), `Persist` the code, the flush and the cache's TTL. A
URL is whether it parses, its scheme, its length, whether its host is missing, cannot be
encoded or can be asked for, and whether it holds U+0000, which the flush fails on. An
instant is an integer: `FirstInstant` and `LastInstant` are `datetime.min` and
`datetime.max` in UTC, and an `expiresAt` with a time zone may lie outside of them. An
address is the sequence of its bytes, and `Covered` the number of bits of each byte that
a prefix covers, so that `Free` of it is how many values of the byte share them. A name
is what the checks see of it: its text, its length and its alphabet. `checked` is the
clock when the validation was over, from which a ttl counts.

## Runs

| Run | Instance | What it shows |
| --- | --- | --- |
| `redis` | 3 requests, 1 code, 9 jobs, Redis faults, clock to 3, with history | `TypeOK`, `IInv` (what each stage relies on), `CacheFaithful`, `ClicksReferToLinks`, `BindingPermanent`, `DeadStaysCold`; for clients that act on an answer, `FreshCreateFound`, `DeletedStaysDeleted` |
| `crash` | 3 requests, 2 codes and 1 counter, 10 jobs, failing queries and commits, crashes, clock to 1 | `CacheInv`, `AckInv`, `AckedCreateDurable`, `AckedDeleteDurable`, `RowWaitsAreShort`, `RedirectHasOrigin` (a counter's key among the paths), `OnlyOwnersDelete`, and that the handlers implement `LinkStore` (`StoreSpec`) |
| `progress` | 3 requests, 1 code, Redis faults and crashes, no symmetry | `EveryRequestEnds`, `TrackedIsCounted` under `FairSpec` |
| `rate_limit` | 3 calls, 3 users (limit 1 through an override of 0, limit 2, no access), windows of 2 s, Redis and database faults, clock to 3 | `TypeOK`, `WindowQuota`, `RefusedOnlyOverQuota`, `RetryAfterReachesNextWindow` |
| `pool` | 3 requests (write, redirect on a hit, probe), 1 + 1 connections, 1 outage, no symmetry | `TypeOK`, `EndedHoldsNothing`, `FailureExplained`, `WaitsWithoutConnection`, `SomebodyGoesOn`; `AllFinish` under `FairSpec` |
| `statistics` | 1 request with any window of 3 days, 3 clicks of 2 visitors, days of 2 ticks | `TypeOK`, `ReportAddsUp`, `ReportCountsWindow`, `WindowsPartition`, `DeletedHasNoStatistics` |
| `intake` | 1 body of 41, 96 answers of the name service | `TypeOK`, `AcceptedIsPublic`, `RefusedForCause`, `LivesItsTtl`, `ServerErrorsExplained`, `PathsKeepTheirHandlers` |
| `gone_after_delete` | 4 requests, no fault | violated: `GoneAfterDelete` |
| `expired` | 2 requests, clock to 2, no fault | violated: `ExpiredIsGone` |
| `alias` | 2 requests, no fault | violated: `AliasTakenIs409` |
| `outage` | 2 requests, failing queries, `FairSpec` | violated: `HitNeedsNoDatabase` |
| `sliding_window` | 3 calls without faults or latency | violated: `SlidingQuota` |

The five violations are disagreements between the code and the documents that
need no fault but a failing query in `outage`; `PROJECT.json`'s `findings` quote
both sides. In short: an alias conflict that the check misses is a 500 instead
of a 409; a redirect that read the row before a deletion committed caches it
again, for 24 hours; the cache hit path never looks at the expiry; a cache hit
still depends on the database; and the rate limit is a fixed window, not a
sliding one.

A sixth depends on FastAPI's version and has no run: with `CommitBeforeSend`
FALSE, from 0.118 on, the client has its 201 before `get_db` commits, and its next
GET may answer 404. Changing `CommitsFirst` to `RespondsFirst` in the `redis` run
shows it as a violation of `FreshCreateFound`.

`WindowQuota` is what the fixed window does promise, and it is weaker than one
would write first: a counter lives a window from its last `INCR`, so a call that
chose its bucket in the window and reaches Redis after it may find the counter
gone and start it again. Such late calls get the limit once more. It is stated
for counters that Redis has not evicted (`lost`).

Bounds, and why they are enough. A conflict here has at most two writers of a
code and one reader of the stale value, so three requests meet every pair of
interleavings with a witness; a create, a delete and whoever asks next are three as
well, and `gone_after_delete` takes a fourth, the redirect that is overtaken.
One code makes everyone contend; the second, in `crash`, tells aliases from
generated codes and lets a retry find a free one. `MaxRetries = 2` has a first, a
middle and a last attempt between them. `MaxClock` lets a link expire while its
cache entry lives (`CacheTtl = 2`, `Sec = 1`) and the entry run out afterwards; in
`crash` a link may have expired with the first tick, and `progress` stops the clock
because its properties do not read it. Three calls with limits of 1 and 2 go over
each of them, and a clock to 3 has two windows of 2 with a late call in the second.
In `pool` three requests outnumber two connections, one idle and one overflow, so
that somebody waits while another holds a row lock and a third gives up a connection
the pool must close; statistics, metadata, misses and redirects of codes in no row
are sequences of the same awaits. One outage cuts connections in every state of
their owners. `statistics` has clicks on both sides of a midnight and on it, a
window on each side of them, and two visitors who share a day. The addresses of
`intake` are the first and the last of each blocked network and their neighbours,
alone and next to a public one; the bodies depart from a plain one in one field, or
in the two that exclude each other, with a URL of 2048 characters and one more and an
expiry on either side of both ends of UTC. Two bodies at once share nothing but the clock.

Requests are interchangeable (`ReqSymmetry`), and so are clicks and visitors
(`ClickSymmetry`), except where liveness is checked. Deadlock is checked
everywhere: `AllOver` is the only state in which nothing need happen.

Fairness. `FairSpec` assumes weak fairness of each handler's next step: the
asyncio loop resumes every coroutine whose await is over, Redis calls end within
their one-second socket timeouts (`cache.py`), and PostgreSQL grants a lock that
stays free. A handler that waits in `Insert` or `Mark` waits for a holder that
itself needs no other lock, so weak fairness is enough. Nothing is assumed of
arrivals, the clock or the faults. `progress` excludes database faults because
`record_click` only logs those and drops the click. In `Pool` the same is assumed
of `Handle` and of nothing else: not of the time-out, which would end every wait by
itself, nor of refusals, arrivals or the database's return. The queue of the pool is
first come, first served; weak fairness alone would let a waiter starve if requests
kept coming, but each slot is used once.

## Proofs

TLC checks small instances; the theorems hold for every number of requests, codes,
users, clicks, connections, outages and every clock, from the `ASSUME`s of the
modules they extend. Those that need more say so.

Handlers, table and cache (`UrlServiceProofs`, `UrlServiceOrigin`):

- `Inductive`: `Spec => []IInv`, and `TypeCorrect`: `Spec => []TypeOK`;
- `BindingIsPermanent` and `OwnersDelete`, the two action properties of the table;
- `CacheInvariant` and `CacheIsFaithful`, assuming `SingleFault`: not both Redis and
  the database (or the process) fail;
- `AckInvariant`; `CreateIsDurable` and `DeleteIsDurable`, assuming `CommitsFirst`;
- `RedirectsHaveOrigins`, `ClicksAreOfLinks` and `DeadLinksStayCold`, without a
  further assumption;
- `WaitsAreShort` and `HandlersRunOut`, likewise.

The argument. None of these is inductive alone: that an insert binds a free code
depends on nobody else holding the code's lock, and that depends on what every
stage has read. `IInv` collects it, with one named part for each thing relied
on: `StageInv` (a stage has the job it serves), `RowInv` (`url_obj` is the row
the handler is about to add, or still the link of its code), `OneWriter` (at most one
session has flushed a given code), `LockInv` (a session holds a lock exactly from
flush to the end of its transaction, and what it flushed is still applicable),
`TableInv` (a committed row is what its request wanted). `InvStep` proves one
lemma per part; `UrlsStep`, `Local` and `Outside` say once who may change what.
The table's properties follow from `AppliedKeeps`: a commit rebinds nothing.

`CacheInv` strengthens `CacheFaithful`: after `cache_set` an insert that is to
commit is covered by its own URL, or, if writes may be lost, no rollback ever
leaves another URL behind. Both faults together break it: a rolled-back create
leaves its URL, the next create's `cache_set` is lost, and the two disagree.
`AckInv` strengthens the durability of promises: a 201 or 204 that is prepared
is pending until the commit and in the table after it.

`RedirectInv` carries the origin of a URL along its way: whatever is cached under a
code, or is in an answer of 302, was asked for by a create that still has that row (its slot is
used once, so the witness never goes away, rolled back or not). A redirect that is
to be counted had a committed row at `GetUrl`, and rows are never removed.

`WaitsAreShort` and `HandlersRunOut` are what can be proved of `EveryRequestEnds`.
Who is waited for at a row has flushed, and whoever has flushed waits for no row
(`LockInv`); and every step of a handler, each retry of the generator and each failure
included, lowers `StepsLeft`, a number up to `MaxRetries + 8` that nobody else's step
raises. What is left to fairness is that who can go on does.

The abstract store (`UrlServiceRefinement`): `ImplementsLinkStore` proves
`Spec => StoreSpec` assuming `CommitsFirst`. A commit that changes the table binds or
retires one link, of the one that asked for it or for its owner; `Send` of a 201 or 204 is the store telling its client, which
`AckInv` allows because the table has what is told; every other step stutters. For
this the set of promises told is written as the image of the requests that made one
(`ToldIsPromises`), and no step other than `Send` adds to those (`NoOtherPromise`).

Clients (`UrlServiceClients`, over `HSpec`): `ConfirmedIsFound` and `DeletionStays`,
assuming `CommitsFirst`, from `ClientInvariant`. `KnowsInv`: what a request knew when
it arrived is an answer that left and stays good. Then a lookup of a confirmed code
that answers 404 has found it deleted, and an INSERT of a deleted code meets the
index; both rest on `AckInv`, and on the table never going back.

Rate limit (`RateLimiterProofs`): `LimiterTypeCorrect`, `QuotaHolds`,
`RefusedIsOwnDoing`, `RetryAfterIsEnough` from `LimiterInductive`. The quota is a
counting argument: a counter that Redis has not evicted lasts until the end of the
window, or of the next one for late calls (`LastingInv`), so no two calls with the
same end get the same count (`ApartInv`); those admitted were counted between 1 and
the limit, and an injection into that range bounds their number. That nobody pays for
others is `CountedInv`: a counter is never ahead of the calls of its own bucket.
`Rounding` has the arithmetic of windows.

Pool (`PoolProofs`): `PoolTypeCorrect`, `EndedReleases`, `FailuresHaveCauses`, and
`WaitsHoldNothing` assuming `CommitsFirst`, from `PoolInductive`. `PInv` looks ahead
in the sequence of awaits: behind every query, and for whoever holds a connection, a
commit, a close or a click is still to come (`Fit`, `WillRelease`), and comes before
the response leaves or a probe turns to Redis. A request holds one connection at a
time, so what it gives back fits the pool's size; a request that no outage has met has
its database and its connection alive, so only the time-out can fail it.
`NobodyIsStuck` (`SomebodyGoesOn`) is what can be proved of `AllFinish`: whoever holds
the row's lock has its connection and its only write behind it, so it waits for
nobody (`WaitInv`); with the lock free, whoever has a connection waits for nobody; and
with every connection free, nobody waits for one.

Statistics (`StatisticsProofs`): `StatisticsTypeCorrect`, `LateAreRefused`,
`WindowsMeet`, `WindowIsCounted` from `StatisticsInductive`: a report was made of one
look at the table, no earlier than the request, and no later click changes that. The
rest is that the half-open windows of days tile the instants. `NumbersFitTogether`
(`ReportAddsUp`) needs what a fold computes, for any number of days. The library's
induction theorems take a predicate, which the provers cannot instantiate; its
well-foundedness of the strict subsets of a finite set is first-order, and gives a
least counterexample instead. `SumsAgree` uses it to show that two functions which
take an element off a set in the same way agree on every set: the fold is one, and
the number of clicks on a set of days the other (`FoldIsSum`, `DaysAddUp`).

Intake (`IntakeProofs`): `IntakeTyped`, `OnlyPublicHosts`, `RefusalsHaveCauses`,
`LinksLiveTheirTtl`, `ServerErrorsAreExplained` and `PathsKeepHandlers` from
`IntakeAccounted`. `IndInv` says what a request is
owed at each stage (`Stage`), what a body has passed once it may become a row
(`Checked`), what a refusal (`Blamed`) and an error (`Broken`) must point to; all of
it stays true when the clock moves on (`ClockMovesOn`), although `LivesItsTtl` and
`ServerErrorsExplained` compare with the clock of now. Three facts carry the rest:

- `BlockedIsReserved`: for every IPv4 and IPv6 address, being in a blocked network,
  bit by bit, is being between the first and the last address of a reserved range,
  byte by byte. `NetworkIsRange` proves it once for any prefix: dividing by the free
  bits of the byte that the prefix splits leaves an interval (`FreeBits`), and in the
  lexicographic order nothing else lies between the two addresses (`PrefixRange`).
  The fourteen networks are instances of it. In the run it is 48 addresses;
- `TimedeltaInUnits`: the four forms of a ttl are their units, for every number;
- `TenRoutes` and `FirstMatch`: the registration order as a list of ten, and the
  first that matches wins (`OnePartReaches`, `CodeReaches`).

`IntakeTyped` has a hypothesis about `short_code_length`, which no code validates: it
is 32 at most, the width of the column. The default is 8.

Model-checked only:

- liveness under fairness (`EveryRequestEnds`, `TrackedIsCounted`, `AllFinish`), which
  is out of the prover's reach; that nobody is stuck, and that a handler's steps run
  out, are proved;
- the cache without `SingleFault`, where `CacheFaithful` is false, and the promises
  without `CommitsFirst`, where they can be broken.

## Not modelled

- The ten most frequent countries and referrers of a report: `Counter.most_common`
  of a column; `country_code` is always null, so the first list is always empty.
- How long the loop stands still while a name resolves: `Resolve` is one step
  during which the clock moves and nothing else. That a name resolves differently
  after the check, which `validator.py:60` names as a known limitation.
- How a URL is parsed, and addresses as text; which texts int() and the IDNA codec
  refuse (a ttl of more than 4300 digits is one of `Ttl`'s "other", a label of more
  than 63 characters an "unfit" host, both 422).
- The pool's internals (recycling, its queue) and a connection that dies in between
  the pre-ping and the query other than by an outage.
- A SET that Redis applies after the client gave up waiting for it.
- Clients that disconnect; `created_at` and `updated_at`; user agents and referrers
  of clicks; 405 and trailing slashes, which Starlette decides.
- `AuditLog`, which no code writes; `drop_tables`, which only tests call; the schemas
  that only carry values; `hash_ip` and `hash_api_key`, which are equalities here.
- `schema_runner`, a command-line validator of the specification documents that
  asks a language model; no part of the service.
- A request slot is used once. Redis drops a key at the tick on which it expires.

Divergences met and not given a run:

- `plans/implementation-plan.yaml:264-269` promises a retry on an INSERT conflict,
  the code retries only its SELECT (`url_service.py:230`).
- `analytics_service.py:35` says every redirect is recorded; one that hits the cache
  before the create commits is not.
- `specs/url-shortener.yaml:69-70` limits create requests, the code counts reads and
  deletes as well (`urls.py:95`, `urls.py:123`); statistics are not limited at all.
- `cache.py:87` says that the expiry is set on the first increment, it is set on
  every one.
- `main.py:5` says that start-up validates Redis; `get_redis` connects to nothing.
- An `expiresAt` without a time zone is accepted by the schema and ends in a 500
  after the flush. One whose time zone puts it outside of UTC's `datetime`, and a
  `longUrl` with U+0000, end in a 500 at the flush; a ttl beyond the year 9999 in one
  before it (`ServerErrorsExplained` has all four). `schemas.py:49` speaks of ISO 8601
  durations; only four of its forms are accepted, the others are refused with 422.
- NFR-003 (`specs/url-shortener.yaml:142`) lists five ranges to be blocked, the
  validator fourteen; `BlockedIsReserved` is about the validator's.
- The state diagram (`specs/diagrams/state-url-lifecycle.md:70-75`) and ADR-02 plan a
  hard purge 90 days after a deletion, the reuse of a code 30 days after it, and a
  sweeper of expired links. No code does any of these: a row and its code stay for
  good. `BindingPermanent` and `DeletedStaysDeleted` say so, and would have to be
  weakened for the purge and the reuse that are planned. Nor is there a Suspended state.
- `to_date=9999-12-31` is an OverflowError and a 500 (`GetStats`). The specification's
  `from` and `to` with defaults (`specs/url-shortener.yaml:606-617`) are `from_date`
  and `to_date` without.
- A click counts on the day on which its transaction began, so the report of a closed
  day may still grow.
- An alias `docs`, `redoc` or `health` is created and its redirect never reached. FR-001
  allows codes of 6 to 10 letters (`codegen.py:4`); with 6, one that is generated may
  be `health` as well. With the default of 8 none is a fixed path.
- `redirect.py:62` and SC-010 (`specs/url-shortener.yaml:308`, "Unknown short code
  returns 404") promise a 404 for what no create made. `GET /rl:<user>:<window>` is a hit
  on the rate limiter's counter (`url_service.py:149`) and answered 302 with the count as
  its target; `RedirectHasOrigin` says that this is the only such path.
- A pool that stays exhausted for 30 seconds makes the probe report the database as
  "error".

## Plan

What is left, in the order of its worth:

1. `RateLimiter` in front of `UrlService`, to give a refused or failed management call
   its place among the handlers. Beyond the key space (`CountCall`) they share no state,
   so nothing is expected of it but that the properties compose; the instance is large.
2. A SET that Redis applies after its client's time-out: it weakens `DeadStaysCold` and
   `CacheInv`, and the code has no remedy.
