------------------------------ MODULE UrlService ------------------------------
(***************************************************************************)
(* The request handlers of the URL shortener (POST, GET and DELETE on      *)
(* /api/v1/urls, and the public redirect GET /{short_code}) as concurrent  *)
(* coroutines that share one PostgreSQL table and one Redis cache.         *)
(*                                                                         *)
(* A handler runs without interruption between two awaits, so an action is *)
(* the code from one await to the next.  A request r is one HTTP request:  *)
(* it arrives once, runs one handler, and ends.  What precedes the handler *)
(* (API key, rate limit) admits it or not and is left to its own module,   *)
(* but for the counters it keeps in the same Redis: a redirect reads the   *)
(* key its path names, whatever wrote it.                                  *)
(***************************************************************************)
EXTENDS Integers

CONSTANTS
  Reqs,             \* the HTTP requests of a behaviour; also the ids of the rows they insert
  Codes,            \* what a path can name: generated codes, custom aliases, other Redis keys
  Counters,         \* the keys rl:<user>:<window> among them; the colon is in no code or alias
  Urls,             \* long URLs, and whatever else Redis may hold
  Tally,            \* the text of a count
  ValidUrls,        \* the long URLs validate_url accepts
  Users,            \* authenticated users
  Jobs,             \* what requests may ask for
  Faults,           \* which of {"redis", "db", "crash"} may happen
  MaxRetries,       \* settings.short_code_max_retries
  CacheTtl,         \* settings.cache_ttl_seconds
  RateWindow,       \* settings.rate_limit_window_seconds
  Sec,              \* clock ticks in a second (the clock is finer than a TTL)
  MaxClock,         \* bound of the clock
  CommitBeforeSend, \* FastAPI < 0.118 leaves get_db before it sends the response
  None

(* A row of table urls; deleted stands for deleted_at and is_active. *)
Row == [id : Reqs, code : Codes, url : Urls, owner : Users,
        exp : Nat \cup {None}, deleted : BOOLEAN]

(* A Redis key with its value and the instant its EX runs out. *)
Entry == [url : Urls, until : Nat]

(* A request: the body of a POST, or the path parameter of the others. *)
Job == [op : {"create", "redirect", "metadata", "delete"}, user : Users,
        code : Codes \cup {None}, url : Urls,
        exp : Nat \cup {None}, ttl : Nat \cup {None}]

(* A response; track says it carries the record_click background task. *)
Answer == [status : {0, 200, 201, 204, 302, 403, 404, 409, 410, 422, 500},
           url : Urls \cup {None}, track : BOOLEAN]

ASSUME ConstantsAssumption ==
  /\ ValidUrls \subseteq Urls
  /\ Tally \in Urls \ ValidUrls
  /\ Counters \subseteq Codes
  /\ Jobs \subseteq Job
  /\ \A j \in Jobs : j.op = "create" => j.code \notin Counters
  /\ \A j \in Jobs : j.op # "create" => j.code # None
  /\ Faults \subseteq {"redis", "db", "crash"}
  /\ {MaxRetries, CacheTtl, RateWindow, Sec} \subseteq Nat \ {0}
  /\ MaxClock \in Nat
  /\ CommitBeforeSend \in BOOLEAN

ASSUME NoneAssumption ==
  /\ None \notin Row
  /\ None \notin Job
  /\ None \notin Entry
  /\ None \notin Nat
  /\ None \notin Codes
  /\ None \notin Urls

VARIABLES
  now,      \* the clock
  urls,     \* committed rows of table urls, by short_code (a unique index)
  cache,    \* Redis
  clicks,   \* committed rows of table clicks, by the redirect that caused them
  pc,       \* where each handler is
  job,      \* what each request asked for
  row,      \* each handler's url_obj
  pending,  \* what each session has flushed and not yet committed
  tries,    \* attempts made by _generate_unique_code
  ttl,      \* create_url's ttl_seconds
  answer,   \* the response each handler has prepared
  sent      \* the requests whose response has left

shared == <<urls, cache, clicks>>
vars == <<now, urls, cache, clicks, pc, job, row, pending, tries, ttl, answer, sent>>

DbStages == {"check_alias", "pick_code", "insert", "select", "get_url",
             "fetch", "find", "mark"}
Stages == DbStages \cup {"idle", "warm", "cache_get", "rewarm", "evict",
                         "commit", "send", "background", "end", "lost"}
Over == {"idle", "end", "lost"}

(* The types: the ttl_seconds that create_url hands to cache_set is positive, and *)
(* the attempts of _generate_unique_code stay below MaxRetries.                   *)
TypeOK ==
  /\ now \in Nat
  /\ urls \in [Codes -> Row \cup {None}]
  /\ cache \in [Codes -> Entry \cup {None}]
  /\ clicks \subseteq Reqs
  /\ pc \in [Reqs -> Stages]
  /\ job \in [Reqs -> Job \cup {None}]
  /\ row \in [Reqs -> Row \cup {None}]
  /\ pending \in [Reqs -> {"none", "insert", "update"}]
  /\ tries \in [Reqs -> 0 .. MaxRetries - 1]
  /\ ttl \in [Reqs -> Nat]
  /\ \A r \in Reqs : pc[r] = "warm" => ttl[r] >= 1
  /\ answer \in [Reqs -> Answer]
  /\ sent \subseteq Reqs

-------------------------------------------------------------------------------
(* Helpers *)

Reply(status, url) == [status |-> status, url |-> url, track |-> FALSE]

(* The table starts empty and so does Redis. *)
Init ==
  /\ now = 0
  /\ urls = [c \in Codes |-> None]
  /\ cache = [c \in Codes |-> None]
  /\ clicks = {}
  /\ pc = [r \in Reqs |-> "idle"]
  /\ job = [r \in Reqs |-> None]
  /\ row = [r \in Reqs |-> None]
  /\ pending = [r \in Reqs |-> "none"]
  /\ tries = [r \in Reqs |-> 0]
  /\ ttl = [r \in Reqs |-> 0]
  /\ answer = [r \in Reqs |-> Reply(0, None)]
  /\ sent = {}

(* A row the deleted_at IS NULL filter keeps. *)
Exists(u) == u # None
Live(u) == u # None /\ ~u.deleted

(* URL.is_expired. *)
IsExpired(u) == u.exp # None /\ now > u.exp

(* create_url's expires_at: the absolute one, or the ttl from now. *)
ExpiresAt(j) == IF j.exp = None /\ j.ttl # None THEN now + j.ttl ELSE j.exp

(* create_url's ttl_seconds: whole seconds left, and cache_set gets at least 1. *)
WholeSecondsLeft(u) == IF u.exp = None THEN CacheTtl ELSE (u.exp - now) \div Sec
WarmTtl(u) == IF WholeSecondsLeft(u) > 1 THEN WholeSecondsLeft(u) ELSE 1

(* What fails before create_url touches the database: the schema's *)
(* mutually exclusive expiry fields, and validate_url.             *)
TwoExpiries(j) == j.op = "create" /\ j.exp # None /\ j.ttl # None
Rejected(j) == TwoExpiries(j) \/ (j.op = "create" /\ j.url \notin ValidUrls)

(* The row create_url is about to add, under short code c. *)
NewRow(r, c) ==
  [id |-> r, code |-> c, url |-> job[r].url, owner |-> job[r].user,
   exp |-> job[r].exp, deleted |-> FALSE]

(* PostgreSQL: another transaction has written this code and not ended. *)
NeverContended(r) == FALSE
Contended(r) ==
  \E q \in Reqs \ {r} : pending[q] # "none" /\ row[q].code = row[r].code

(* The unique index on short_code, over every row, the deleted ones too. *)
UniqueAmongLive(c) == ~Live(urls[c])
Unique(c) == urls[c] = None

(* delete_url's ownership guard. *)
AnyoneOwns(r, u) == TRUE
Owns(r, u) == u.owner = job[r].user

(* An exception reaches get_db: rollback, and an error response. *)
Abort(r, status) ==
  /\ pc' = [pc EXCEPT ![r] = "end"]
  /\ pending' = [pending EXCEPT ![r] = "none"]
  /\ answer' = [answer EXCEPT ![r] = Reply(status, None)]
  /\ sent' = sent \cup {r}
  /\ UNCHANGED <<now, shared, job, row, tries, ttl>>

(* The handler returns: what FastAPI does next depends on its version. *)
RespondsFirst == FALSE
CommitsFirst == CommitBeforeSend
AfterHandler == IF CommitsFirst THEN "commit" ELSE "send"
AfterCommit == IF CommitsFirst THEN "send" ELSE "end"
AfterResponse == IF CommitsFirst THEN "end" ELSE "commit"

Finish(r, a) ==
  /\ pc' = [pc EXCEPT ![r] = AfterHandler]
  /\ answer' = [answer EXCEPT ![r] = a]

(* cache_set: exceptions are swallowed, so a Redis error looks like success. *)
CacheSetIfAbsent(c, url, seconds) ==
  cache' = [cache EXCEPT ![c] =
    IF @ = None THEN [url |-> url, until |-> now + seconds * Sec] ELSE @]
CacheSet(c, url, seconds) ==
  \/ cache' = [cache EXCEPT ![c] = [url |-> url, until |-> now + seconds * Sec]]
  \/ "redis" \in Faults /\ UNCHANGED cache

-------------------------------------------------------------------------------
(* Arrival *)

FirstStage(j) ==
  CASE j.op = "create" /\ j.code # None -> "check_alias"
    [] j.op = "create" /\ j.code = None -> "pick_code"
    [] j.op = "redirect" -> "cache_get"
    [] j.op = "metadata" -> "fetch"
    [] OTHER -> "find"

(* A request reaches its handler, which runs up to its first await. *)
Arrive(r) ==
  /\ pc[r] = "idle"
  /\ \E j \in Jobs :
       /\ job' = [job EXCEPT ![r] = [j EXCEPT !.exp = ExpiresAt(j)]]
       /\ \/ /\ Rejected(j)
             /\ pc' = [pc EXCEPT ![r] = "end"]
             /\ answer' = [answer EXCEPT ![r] = Reply(422, None)]
             /\ sent' = sent \cup {r}
          \/ /\ ~Rejected(j)
             /\ pc' = [pc EXCEPT ![r] = FirstStage(j)]
             /\ UNCHANGED <<answer, sent>>
  /\ UNCHANGED <<now, shared, row, pending, tries, ttl>>

-------------------------------------------------------------------------------
(* POST /api/v1/urls *)

(* The alias is free when no row that is not deleted has it. *)
CheckAlias(r) ==
  /\ pc[r] = "check_alias"
  /\ LET u == urls[job[r].code] IN
       \/ Live(u) /\ Abort(r, 409)
       \/ /\ ~Live(u)
          /\ row' = [row EXCEPT ![r] = NewRow(r, job[r].code)]
          /\ pc' = [pc EXCEPT ![r] = "insert"]
          /\ UNCHANGED <<now, shared, job, pending, tries, ttl, answer, sent>>

(* One round of _generate_unique_code: draw a code and SELECT it. *)
PickCode(r) ==
  /\ pc[r] = "pick_code"
  /\ \E c \in Codes \ Counters :
       \/ /\ urls[c] = None
          /\ row' = [row EXCEPT ![r] = NewRow(r, c)]
          /\ pc' = [pc EXCEPT ![r] = "insert"]
          /\ UNCHANGED <<now, shared, job, pending, tries, ttl, answer, sent>>
       \/ /\ urls[c] # None
          /\ tries[r] + 1 < MaxRetries
          /\ tries' = [tries EXCEPT ![r] = @ + 1]
          /\ UNCHANGED <<now, shared, pc, job, row, pending, ttl, answer, sent>>
       \/ /\ urls[c] # None
          /\ tries[r] + 1 = MaxRetries
          /\ Abort(r, 500)

(* db.flush(): the unique index makes an INSERT wait for a transaction that *)
(* holds the same code, then refuses a committed duplicate.  create_url     *)
(* then computes ttl_seconds, before it awaits cache_set.                   *)
Insert(r) ==
  /\ pc[r] = "insert"
  /\ ~Contended(r)
  /\ \/ ~Unique(row[r].code) /\ Abort(r, 500)
     \/ /\ Unique(row[r].code)
        /\ pending' = [pending EXCEPT ![r] = "insert"]
        /\ ttl' = [ttl EXCEPT ![r] = WarmTtl(row[r])]
        /\ pc' = [pc EXCEPT ![r] = "warm"]
        /\ UNCHANGED <<now, shared, job, row, tries, answer, sent>>

(* The cache warm-up, before the transaction commits. *)
WarmCache(r) ==
  /\ pc[r] = "warm"
  /\ CacheSet(row[r].code, row[r].url, ttl[r])
  /\ Finish(r, Reply(201, None))
  /\ UNCHANGED <<now, urls, clicks, job, row, pending, tries, ttl, sent>>

-------------------------------------------------------------------------------
(* GET /{short_code} *)

(* cache_get of whatever the path names, a code or not: an error is a miss. *)
CacheGet(r) ==
  /\ pc[r] = "cache_get"
  /\ LET e == cache[job[r].code] IN
       \/ /\ e # None
          /\ pc' = [pc EXCEPT ![r] = "get_url"]
          /\ answer' = [answer EXCEPT ![r] = Reply(302, e.url)]
       \/ /\ e = None \/ "redis" \in Faults
          /\ pc' = [pc EXCEPT ![r] = "select"]
          /\ UNCHANGED answer
  /\ UNCHANGED <<now, shared, job, row, pending, tries, ttl, sent>>

(* resolve_url's lookup on a miss. *)
Select(r) ==
  /\ pc[r] = "select"
  /\ LET u == urls[job[r].code] IN
       \/ ~Live(u) /\ Abort(r, 404)
       \/ Live(u) /\ IsExpired(u) /\ Abort(r, 410)
       \/ /\ Live(u) /\ ~IsExpired(u)
          /\ row' = [row EXCEPT ![r] = u]
          /\ pc' = [pc EXCEPT ![r] = "rewarm"]
          /\ UNCHANGED <<now, shared, job, pending, tries, ttl, answer, sent>>

(* resolve_url writes the row it read back to Redis, with the default TTL. *)
Rewarm(r) ==
  /\ pc[r] = "rewarm"
  /\ CacheSet(row[r].code, row[r].url, CacheTtl)
  /\ pc' = [pc EXCEPT ![r] = "get_url"]
  /\ answer' = [answer EXCEPT ![r] = Reply(302, row[r].url)]
  /\ UNCHANGED <<now, urls, clicks, job, row, pending, tries, ttl, sent>>

(* The redirect handler reads the row once more: no live row, no click. *)
EveryHit(u) == TRUE
Tracked(u) == Live(u)
GetUrl(r) ==
  /\ pc[r] = "get_url"
  /\ Finish(r, [answer[r] EXCEPT !.track = Tracked(urls[job[r].code])])
  /\ UNCHANGED <<now, shared, job, row, pending, tries, ttl, sent>>

(* GET /api/v1/urls/{short_code} *)
Fetch(r) ==
  /\ pc[r] = "fetch"
  /\ LET u == urls[job[r].code] IN
       \/ ~Live(u) /\ Abort(r, 404)
       \/ /\ Live(u)
          /\ Finish(r, Reply(200, u.url))
          /\ UNCHANGED <<now, shared, job, row, pending, tries, ttl, sent>>

-------------------------------------------------------------------------------
(* DELETE /api/v1/urls/{short_code} *)

(* delete_url's lookup and its ownership guard. *)
Find(r) ==
  /\ pc[r] = "find"
  /\ LET u == urls[job[r].code] IN
       \/ ~Live(u) /\ Abort(r, 404)
       \/ Live(u) /\ ~Owns(r, u) /\ Abort(r, 403)
       \/ /\ Live(u) /\ Owns(r, u)
          /\ row' = [row EXCEPT ![r] = u]
          /\ pc' = [pc EXCEPT ![r] = "mark"]
          /\ UNCHANGED <<now, shared, job, pending, tries, ttl, answer, sent>>

(* db.flush(): the UPDATE waits for the row lock; deleting twice is allowed. *)
Mark(r) ==
  /\ pc[r] = "mark"
  /\ ~Contended(r)
  /\ pending' = [pending EXCEPT ![r] = "update"]
  /\ row' = [row EXCEPT ![r].deleted = TRUE]
  /\ pc' = [pc EXCEPT ![r] = "evict"]
  /\ UNCHANGED <<now, shared, job, tries, ttl, answer, sent>>

(* cache_delete, before the transaction commits; errors are swallowed. *)
Evict(r) ==
  /\ pc[r] = "evict"
  /\ \/ cache' = [cache EXCEPT ![row[r].code] = None]
     \/ "redis" \in Faults /\ UNCHANGED cache
  /\ Finish(r, Reply(204, None))
  /\ UNCHANGED <<now, urls, clicks, job, row, pending, tries, ttl, sent>>

-------------------------------------------------------------------------------
(* After the handler: get_db's commit, the response, the background task *)

(* The rows after r's transaction commits; an UPDATE writes what changed. *)
OnlyInserts(r) ==
  IF pending[r] = "insert" THEN [urls EXCEPT ![row[r].code] = row[r]] ELSE urls
Applied(r) ==
  LET c == row[r].code IN
  CASE pending[r] = "insert" -> [urls EXCEPT ![c] = row[r]]
    [] pending[r] = "update" -> [urls EXCEPT ![c].deleted = TRUE]
    [] OTHER -> urls

(* The transaction ends and its locks go. *)
KeepsLocks(r) == pending
Released(r) == [pending EXCEPT ![r] = "none"]

Commit(r) ==
  /\ pc[r] = "commit"
  /\ urls' = Applied(r)
  /\ pending' = Released(r)
  /\ pc' = [pc EXCEPT ![r] = AfterCommit]
  /\ UNCHANGED <<now, cache, clicks, job, row, tries, ttl, answer, sent>>

(* COMMIT raises: the server may have applied it or not.  The client gets *)
(* a 500 unless its response has already left.                            *)
CommitFails(r) ==
  /\ pc[r] = "commit"
  /\ "db" \in Faults
  /\ urls' \in {urls, Applied(r)}
  /\ pending' = Released(r)
  /\ pc' = [pc EXCEPT ![r] = "end"]
  /\ answer' = IF r \in sent THEN answer
               ELSE [answer EXCEPT ![r] = Reply(500, None)]
  /\ sent' = sent \cup {r}
  /\ UNCHANGED <<now, cache, clicks, job, row, tries, ttl>>

(* The response leaves, and the background task it carries starts. *)
NoBackground(r) == AfterResponse
AfterSend(r) == IF answer[r].track THEN "background" ELSE AfterResponse

Send(r) ==
  /\ pc[r] = "send"
  /\ sent' = sent \cup {r}
  /\ pc' = [pc EXCEPT ![r] = AfterSend(r)]
  /\ UNCHANGED <<now, shared, job, row, pending, tries, ttl, answer>>

(* record_click: adds a click and commits; a database error is logged. *)
RecordClick(r) ==
  /\ pc[r] = "background"
  /\ \/ clicks' = clicks \cup {r}
     \/ "db" \in Faults /\ UNCHANGED clicks
  /\ pc' = [pc EXCEPT ![r] = AfterResponse]
  /\ UNCHANGED <<now, urls, cache, job, row, pending, tries, ttl, answer, sent>>

(* A query raises: POST turns it into a 500 itself, the other handlers  *)
(* leave it to the global exception handler; get_db rolls back for all. *)
QueryFails(r) ==
  /\ pc[r] \in DbStages
  /\ "db" \in Faults
  /\ Abort(r, 500)

-------------------------------------------------------------------------------
(* The environment *)

(* Time passes and Redis drops the keys whose TTL has run out. *)
Tick ==
  /\ now < MaxClock
  /\ now' = now + 1
  /\ cache' = [c \in Codes |->
       IF cache[c] # None /\ cache[c].until <= now + 1 THEN None ELSE cache[c]]
  /\ UNCHANGED <<urls, clicks, pc, job, row, pending, tries, ttl, answer, sent>>

(* Redis loses a key: eviction under memory pressure, or a restart. *)
RedisForgets(c) ==
  /\ "redis" \in Faults
  /\ cache[c] # None
  /\ cache' = [cache EXCEPT ![c] = None]
  /\ UNCHANGED <<now, urls, clicks, pc, job, row, pending, tries, ttl, answer, sent>>

(* rate_limit counts a call of some user: INCR, and EXPIRE at every call. *)
CountCall(k) ==
  /\ cache' = [cache EXCEPT ![k] = [url |-> Tally, until |-> now + RateWindow * Sec]]
  /\ UNCHANGED <<now, urls, clicks, pc, job, row, pending, tries, ttl, answer, sent>>

(* The process dies: PostgreSQL rolls open transactions back, Redis keeps  *)
(* what it has, and scheduled clicks are lost with the requests in flight. *)
Crash ==
  /\ "crash" \in Faults
  /\ \E r \in Reqs : pc[r] \notin Over
  /\ pc' = [r \in Reqs |-> IF pc[r] \in Over THEN pc[r] ELSE "lost"]
  /\ pending' = [r \in Reqs |-> "none"]
  /\ UNCHANGED <<now, shared, job, row, tries, ttl, answer, sent>>

(* Every request is over: the only state in which nothing need happen. *)
AllOver ==
  /\ \A r \in Reqs : pc[r] \in {"end", "lost"}
  /\ UNCHANGED vars

Create(r) == CheckAlias(r) \/ PickCode(r) \/ Insert(r) \/ WarmCache(r)
Redirect(r) == CacheGet(r) \/ Select(r) \/ Rewarm(r) \/ GetUrl(r)
Delete(r) == Find(r) \/ Mark(r) \/ Evict(r)
Leave(r) == Commit(r) \/ CommitFails(r) \/ Send(r) \/ RecordClick(r) \/ QueryFails(r)
Handle(r) == Create(r) \/ Redirect(r) \/ Fetch(r) \/ Delete(r) \/ Leave(r)

Next ==
  \/ \E r \in Reqs : Arrive(r) \/ Handle(r)
  \/ \E c \in Codes : RedisForgets(c)
  \/ \E k \in Counters : CountCall(k)
  \/ Tick
  \/ Crash
  \/ AllOver

Spec == Init /\ [][Next]_vars

(* The event loop runs every coroutine that is ready, and PostgreSQL grants *)
(* a lock that stays free; nothing makes clients arrive or clocks advance.  *)
FairSpec == Spec /\ \A r \in Reqs : WF_vars(Handle(r))
===============================================================================
