--------------------------- MODULE UrlServiceProofs ---------------------------
(***************************************************************************)
(* What the runs check of UrlServiceProperties on small instances, proved  *)
(* for every number of requests, codes, users and every clock.             *)
(***************************************************************************)
EXTENDS UrlServiceProperties, TLAPS

USE DEF shared, Stages, DbStages, Over

(* The values the handlers build have the types of the variables they go to. *)
LEMMA ReplyType ==
  ASSUME NEW s \in {0, 200, 201, 204, 302, 403, 404, 409, 410, 422, 500},
         NEW u \in Urls \cup {None}
  PROVE  Reply(s, u) \in Answer
BY DEF Reply, Answer

(* The row create_url adds is a row of table urls, under the code it was given. *)
LEMMA NewRowType ==
  ASSUME TypeOK, NEW r \in Reqs, job[r] # None, NEW c \in Codes
  PROVE  NewRow(r, c) \in Row
BY ConstantsAssumption, NoneAssumption DEF TypeOK, NewRow, Row, Job

(* create_url's max(ttl_seconds, 1): Redis is never given a TTL that is not positive. *)
LEMMA WarmTtlType ==
  ASSUME TypeOK, NEW u \in Row
  PROVE  WarmTtl(u) \in Nat \ {0}
<1>1. CacheTtl \in Nat /\ Sec \in Nat \ {0} /\ now \in Nat
  BY ConstantsAssumption DEF TypeOK
<1>2. u.exp \in Nat \cup {None}
  BY DEF Row
<1>3. WholeSecondsLeft(u) \in Int
  BY <1>1, <1>2 DEF WholeSecondsLeft
<1> QED
  BY <1>3 DEF WarmTtl

(* The empty system is well typed. *)
LEMMA TypeInit == Init => TypeOK
<1> SUFFICES ASSUME Init PROVE TypeOK
  OBVIOUS
<1>1. Reply(0, None) \in Answer
  BY ReplyType
<1> QED
  BY <1>1, ConstantsAssumption DEF Init, TypeOK

(* An error response leaves the types alone. *)
LEMMA AbortType ==
  ASSUME TypeOK, NEW r \in Reqs, NEW s \in {403, 404, 409, 410, 500}, Abort(r, s)
  PROVE  TypeOK'
<1>1. Reply(s, None) \in Answer
  BY ReplyType
<1> QED
  BY <1>1 DEF TypeOK, Abort

(* The steps of POST /api/v1/urls keep the types; the retries stay below MaxRetries. *)
LEMMA CreateType ==
  ASSUME IInv, NEW r \in Reqs, Create(r)
  PROVE  TypeOK'
<1> USE DEF IInv
<1>1. CASE CheckAlias(r)
  <2> DEFINE u == urls[job[r].code]
  <2>1. CASE Abort(r, 409)
    BY <2>1, AbortType
  <2>2. CASE ~Abort(r, 409)
    <3>1. job[r] # None /\ job[r].code \in Codes
      BY <1>1 DEF TypeOK, StageInv, CheckAlias, Job
    <3>2. NewRow(r, job[r].code) \in Row
      BY <3>1, NewRowType
    <3> QED
      BY <1>1, <2>2, <3>2 DEF TypeOK, CheckAlias
  <2> QED
    BY <2>1, <2>2
<1>2. CASE PickCode(r)
  <2>1. CASE Abort(r, 500)
    BY <2>1, AbortType
  <2>2. CASE ~Abort(r, 500)
    <3>1. job[r] # None
      BY <1>2 DEF StageInv, PickCode
    <3>2. \A c \in Codes : NewRow(r, c) \in Row
      BY <3>1, NewRowType
    <3> QED
      BY <1>2, <2>2, <3>2, ConstantsAssumption DEF TypeOK, PickCode
  <2> QED
    BY <2>1, <2>2
<1>3. CASE Insert(r)
  <2>1. CASE Abort(r, 500)
    BY <2>1, AbortType
  <2>2. CASE ~Abort(r, 500)
    <3>1. row[r] \in Row
      BY <1>3 DEF TypeOK, RowInv, Adds, Insert
    <3>2. WarmTtl(row[r]) \in Nat /\ WarmTtl(row[r]) >= 1
      BY <3>1, WarmTtlType
    <3>3. /\ ttl' = [ttl EXCEPT ![r] = WarmTtl(row[r])]
          /\ pc' = [pc EXCEPT ![r] = "warm"]
          /\ pending' = [pending EXCEPT ![r] = "insert"]
          /\ UNCHANGED <<now, shared, job, row, tries, answer, sent>>
      BY <1>3, <2>2 DEF Insert
    <3> HIDE DEF WarmTtl
    <3> QED
      BY <3>2, <3>3 DEF TypeOK
  <2> QED
    BY <2>1, <2>2
<1>4. CASE WarmCache(r)
  <2>1. row[r] \in Row /\ row[r].code \in Codes /\ row[r].url \in Urls
    BY <1>4 DEF TypeOK, RowInv, Adds, WarmCache, Row
  <2>2. Reply(201, None) \in Answer
    BY ReplyType
  <2>3. [url |-> row[r].url, until |-> now + ttl[r] * Sec] \in Entry
    <3>1. now \in Nat /\ ttl[r] \in Nat /\ Sec \in Nat
      BY ConstantsAssumption DEF TypeOK
    <3>2. now + ttl[r] * Sec \in Nat
      BY <3>1
    <3> QED
      BY <2>1, <3>2 DEF Entry
  <2>4. cache' \in [Codes -> Entry \cup {None}]
    BY <1>4, <2>1, <2>3 DEF TypeOK, WarmCache, CacheSet
  <2> QED
    BY <1>4, <2>2, <2>4 DEF TypeOK, WarmCache, Finish, AfterHandler
<1> QED
  BY <1>1, <1>2, <1>3, <1>4 DEF Create

(* The steps of GET /{short_code} keep the types. *)
LEMMA RedirectType ==
  ASSUME IInv, NEW r \in Reqs, Redirect(r) \/ Fetch(r)
  PROVE  TypeOK'
<1> USE DEF IInv
<1>1. CASE \E s \in {404, 410} : Abort(r, s)
  BY <1>1, AbortType
<1> SUFFICES ASSUME ~Abort(r, 404), ~Abort(r, 410) PROVE TypeOK'
  BY <1>1
<1>2. CASE CacheGet(r)
  <2>1. cache[job[r].code] # None => Reply(302, cache[job[r].code].url) \in Answer
    <3>1. job[r].code \in Codes
      BY <1>2 DEF TypeOK, StageInv, CacheGet, Job
    <3> QED
      BY <3>1, ReplyType DEF TypeOK, Entry
  <2> QED
    BY <1>2, <2>1 DEF TypeOK, CacheGet
<1>3. CASE Select(r)
  <2>1. job[r].code \in Codes
    BY <1>3 DEF TypeOK, StageInv, Select, Job
  <2> QED
    BY <1>3, <2>1 DEF TypeOK, Select, Live
<1>4. CASE Rewarm(r)
  <2>1. row[r] \in Row /\ row[r].code \in Codes /\ row[r].url \in Urls
    BY <1>4 DEF TypeOK, RowInv, Reads, Rewarm, Row
  <2>2. Reply(302, row[r].url) \in Answer
    BY <2>1, ReplyType
  <2>3. [url |-> row[r].url, until |-> now + CacheTtl * Sec] \in Entry
    <3>1. now \in Nat /\ CacheTtl \in Nat /\ Sec \in Nat
      BY ConstantsAssumption DEF TypeOK
    <3>2. now + CacheTtl * Sec \in Nat
      BY <3>1
    <3> QED
      BY <2>1, <3>2 DEF Entry
  <2>4. cache' \in [Codes -> Entry \cup {None}]
    BY <1>4, <2>1, <2>3 DEF TypeOK, Rewarm, CacheSet
  <2> QED
    BY <1>4, <2>2, <2>4 DEF TypeOK, Rewarm
<1>5. CASE GetUrl(r)
  <2>1. Tracked(urls[job[r].code]) \in BOOLEAN
    BY DEF Tracked, Live
  <2>2. [answer[r] EXCEPT !.track = Tracked(urls[job[r].code])] \in Answer
    BY <2>1 DEF TypeOK, Answer
  <2> QED
    BY <1>5, <2>2 DEF TypeOK, GetUrl, Finish, AfterHandler
<1>6. CASE Fetch(r)
  <2>1. job[r].code \in Codes
    BY <1>6 DEF TypeOK, StageInv, Fetch, Job
  <2>2. Live(urls[job[r].code]) => Reply(200, urls[job[r].code].url) \in Answer
    BY <2>1, ReplyType DEF TypeOK, Live, Row
  <2> QED
    BY <1>6, <2>2 DEF TypeOK, Fetch, Finish, AfterHandler
<1> QED
  BY <1>2, <1>3, <1>4, <1>5, <1>6 DEF Redirect

(* The steps of DELETE keep the types. *)
LEMMA DeleteType ==
  ASSUME IInv, NEW r \in Reqs, Delete(r)
  PROVE  TypeOK'
<1> USE DEF IInv
<1>1. CASE \E s \in {403, 404} : Abort(r, s)
  BY <1>1, AbortType
<1> SUFFICES ASSUME ~Abort(r, 403), ~Abort(r, 404) PROVE TypeOK'
  BY <1>1
<1>2. CASE Find(r)
  <2>1. job[r].code \in Codes
    BY <1>2 DEF TypeOK, StageInv, Find, Job
  <2> QED
    BY <1>2, <2>1 DEF TypeOK, Find, Live
<1>3. CASE Mark(r)
  <2>1. row[r] \in Row
    BY <1>3 DEF TypeOK, RowInv, MayDelete, Reads, Mark
  <2>2. [row[r] EXCEPT !.deleted = TRUE] \in Row
    BY <2>1 DEF Row
  <2> QED
    BY <1>3, <2>2 DEF TypeOK, Mark
<1>4. CASE Evict(r)
  <2>1. Reply(204, None) \in Answer
    BY ReplyType
  <2> QED
    BY <1>4, <2>1 DEF TypeOK, Evict, Finish, AfterHandler
<1> QED
  BY <1>2, <1>3, <1>4 DEF Delete

(* What a commit leaves in the table is a table. *)
LEMMA AppliedType ==
  ASSUME IInv, NEW r \in Reqs
  PROVE  Applied(r) \in [Codes -> Row \cup {None}]
<1>1. CASE pending[r] = "insert"
  <2>1. row[r] \in Row
    BY <1>1 DEF IInv, TypeOK, LockInv, Adds
  <2> QED
    BY <1>1, <2>1 DEF IInv, TypeOK, Applied
<1>2. CASE pending[r] = "update"
  <2>1. Stored(r) # None /\ row[r].code \in Codes
    BY <1>2 DEF IInv, TypeOK, LockInv, MayDelete, Reads, SameLink, Row
  <2>2. Stored(r) \in Row
    BY <2>1 DEF IInv, TypeOK, Stored
  <2>3. [Stored(r) EXCEPT !.deleted = TRUE] \in Row
    BY <2>2 DEF Row
  <2> QED
    BY <1>2, <2>1, <2>3 DEF IInv, TypeOK, Applied, Stored
<1>3. CASE pending[r] = "none"
  BY <1>3 DEF IInv, TypeOK, Applied
<1> QED
  BY <1>1, <1>2, <1>3 DEF IInv, TypeOK

(* What follows the handler - commit, response, click, failure - keeps the types. *)
LEMMA LeaveType ==
  ASSUME IInv, NEW r \in Reqs, Leave(r)
  PROVE  TypeOK'
<1> USE DEF IInv
<1>1. CASE Commit(r)
  BY <1>1, AppliedType DEF TypeOK, Commit, Released, AfterCommit
<1>2. CASE CommitFails(r)
  <2>1. Reply(500, None) \in Answer
    BY ReplyType
  <2> QED
    BY <1>2, <2>1, AppliedType DEF TypeOK, CommitFails, Released
<1>3. CASE Send(r)
  BY <1>3 DEF TypeOK, Send, AfterSend, AfterResponse
<1>4. CASE RecordClick(r)
  BY <1>4 DEF TypeOK, RecordClick, AfterResponse
<1>5. CASE QueryFails(r)
  BY <1>5, AbortType DEF QueryFails
<1> QED
  BY <1>1, <1>2, <1>3, <1>4, <1>5 DEF Leave

(* A request arrives with a well typed job, its ttl turned into an expiry. *)
LEMMA ArriveType ==
  ASSUME IInv, NEW r \in Reqs, Arrive(r)
  PROVE  TypeOK'
<1>1. PICK j \in Jobs :
        /\ job' = [job EXCEPT ![r] = [j EXCEPT !.exp = ExpiresAt(j)]]
        /\ \/ /\ pc' = [pc EXCEPT ![r] = "end"]
              /\ answer' = [answer EXCEPT ![r] = Reply(422, None)]
              /\ sent' = sent \cup {r}
           \/ /\ pc' = [pc EXCEPT ![r] = FirstStage(j)]
              /\ UNCHANGED <<answer, sent>>
        /\ UNCHANGED <<now, shared, row, pending, tries, ttl>>
  BY DEF Arrive
<1>2. j \in Job
  BY ConstantsAssumption
<1>3. ExpiresAt(j) \in Nat \cup {None}
  BY <1>2 DEF IInv, TypeOK, Job, ExpiresAt
<1>4. [j EXCEPT !.exp = ExpiresAt(j)] \in Job
  BY <1>2, <1>3 DEF Job
<1>5. FirstStage(j) \in Stages \ {"warm"}
  BY <1>2 DEF FirstStage, Job
<1>6. Reply(422, None) \in Answer
  BY ReplyType
<1> QED
  BY <1>1, <1>4, <1>5, <1>6 DEF IInv, TypeOK

(* The clock, Redis and a crash keep the types. *)
LEMMA EnvironmentType ==
  ASSUME IInv, Tick \/ Crash \/ UNCHANGED vars \/ (\E c \in Codes : RedisForgets(c))
       \/ (\E k \in Counters : CountCall(k))
  PROVE  TypeOK'
<1> USE DEF IInv
<1>1. CASE Tick
  BY <1>1 DEF TypeOK, Tick
<1>2. CASE Crash
  BY <1>2 DEF TypeOK, Crash
<1>3. CASE UNCHANGED vars
  BY <1>3 DEF TypeOK, vars
<1>4. CASE \E c \in Codes : RedisForgets(c)
  BY <1>4 DEF TypeOK, RedisForgets
<1>5. CASE \E k \in Counters : CountCall(k)
  <2>1. PICK k \in Counters : CountCall(k)
    BY <1>5
  <2>2. now + RateWindow * Sec \in Nat
    <3>1. now \in Nat /\ RateWindow \in Nat /\ Sec \in Nat
      BY ConstantsAssumption DEF TypeOK
    <3> QED
      BY <3>1
  <2>3. [url |-> Tally, until |-> now + RateWindow * Sec] \in Entry
    BY <2>2, ConstantsAssumption DEF Entry
  <2> QED
    BY <2>1, <2>3 DEF TypeOK, CountCall
<1> QED
  BY <1>1, <1>2, <1>3, <1>4, <1>5

(* TypeOK is inductive by itself. *)
LEMMA TypeStep ==
  ASSUME IInv, [Next]_vars
  PROVE  TypeOK'
BY CreateType, RedirectType, DeleteType, LeaveType, ArriveType, EnvironmentType
   DEF Next, Handle, AllOver

-------------------------------------------------------------------------------
(* The table only changes in a commit, and a commit takes nothing away. *)

(* A commit rebinds no code and revives no link. *)
LEMMA AppliedKeeps ==
  ASSUME IInv, NEW r \in Reqs, NEW c \in Codes, urls[c] # None
  PROVE  /\ SameLink(urls[c], Applied(r)[c])
         /\ urls[c].deleted => Applied(r)[c].deleted
<1> USE DEF IInv, SameLink
<1>1. urls[c] \in Row
  BY DEF TypeOK
<1>2. CASE pending[r] = "insert"
  <2>1. row[r].code # c
    BY <1>2 DEF LockInv, Stored
  <2> QED
    BY <1>2, <2>1 DEF TypeOK, Applied
<1>3. CASE pending[r] = "update"
  <2>1. CASE c = row[r].code
    <3>1. Applied(r)[c] = [urls[c] EXCEPT !.deleted = TRUE]
      BY <1>3, <2>1 DEF TypeOK, Applied
    <3>2. Applied(r)[c] \in Row
      BY <1>1, <3>1 DEF Row
    <3>3. Applied(r)[c] # None
      BY <3>2, NoneAssumption
    <3> QED
      BY <1>1, <3>1, <3>3 DEF Row
  <2>2. CASE c # row[r].code
    BY <1>3, <2>2 DEF TypeOK, Applied
  <2> QED
    BY <2>1, <2>2
<1>4. CASE pending[r] = "none"
  BY <1>4 DEF Applied
<1> QED
  BY <1>2, <1>3, <1>4 DEF TypeOK

(* Only a commit, successful or in doubt, changes the table. *)
LEMMA UrlsStep ==
  ASSUME IInv, [Next]_vars
  PROVE  \/ urls' = urls
         \/ \E r \in Reqs : /\ pc[r] = "commit" /\ pc'[r] \in Committed
                            /\ urls' = Applied(r) /\ pending' = Released(r)
                            /\ UNCHANGED <<job, row, cache>>
<1>1. ASSUME NEW r \in Reqs, NEW s, Abort(r, s) PROVE urls' = urls
  BY <1>1 DEF Abort
<1>2. ASSUME NEW r \in Reqs, Create(r) PROVE urls' = urls
  BY <1>1, <1>2 DEF Create, CheckAlias, PickCode, Insert, WarmCache
<1>3. ASSUME NEW r \in Reqs, Redirect(r) \/ Fetch(r) PROVE urls' = urls
  BY <1>1, <1>3 DEF Redirect, CacheGet, Select, Rewarm, GetUrl, Fetch
<1>4. ASSUME NEW r \in Reqs, Delete(r) PROVE urls' = urls
  BY <1>1, <1>4 DEF Delete, Find, Mark, Evict
<1>5. ASSUME NEW r \in Reqs, Leave(r), urls' # urls
      PROVE  /\ pc[r] = "commit" /\ pc'[r] \in Committed
             /\ urls' = Applied(r) /\ pending' = Released(r)
             /\ UNCHANGED <<job, row, cache>>
  BY <1>1, <1>5 DEF Leave, Commit, CommitFails, Send, RecordClick, QueryFails,
                    AfterCommit, Committed, IInv, TypeOK
<1> QED
  BY <1>2, <1>3, <1>4, <1>5
  DEF Next, Handle, Arrive, Tick, RedisForgets, CountCall, Crash, AllOver, vars

(* BindingPermanent, step by step. *)
LEMMA BindingKept ==
  ASSUME IInv, [Next]_vars, NEW c \in Codes, urls[c] # None
  PROVE  /\ SameLink(urls[c], urls'[c])
         /\ urls[c].deleted => urls'[c].deleted
BY UrlsStep, AppliedKeeps DEF SameLink

-------------------------------------------------------------------------------
(* The stages: what a handler knows of its job, its row and its locks *)

(* Each await leads to a stage of the same handler, with the job it needs. *)
LEMMA StageStep ==
  ASSUME IInv, [Next]_vars
  PROVE  StageInv'
<1> USE DEF IInv, TypeOK
<1>1. ASSUME NEW r \in Reqs, NEW s, pc[r] # "idle", Abort(r, s) PROVE StageInv'
  BY <1>1 DEF Abort, StageInv
<1>2. ASSUME NEW r \in Reqs, Create(r) PROVE StageInv'
  <2>1. CASE CheckAlias(r)
    BY <1>1, <2>1 DEF CheckAlias, StageInv
  <2>2. CASE PickCode(r)
    <3>1. CASE Abort(r, 500)
      BY <1>1, <2>2, <3>1 DEF PickCode
    <3>2. CASE ~Abort(r, 500)
      <4>1. /\ pc[r] = "pick_code" /\ job' = job
            /\ pc' = pc \/ pc' = [pc EXCEPT ![r] = "insert"]
        BY <2>2, <3>2 DEF PickCode
      <4> QED
        BY <4>1 DEF StageInv
    <3> QED
      BY <3>1, <3>2
  <2>3. CASE Insert(r)
    BY <1>1, <2>3 DEF Insert, StageInv
  <2>4. CASE WarmCache(r)
    BY <2>4 DEF WarmCache, Finish, AfterHandler, StageInv
  <2> QED
    BY <1>2, <2>1, <2>2, <2>3, <2>4 DEF Create
<1>3. ASSUME NEW r \in Reqs, Redirect(r) \/ Fetch(r) PROVE StageInv'
  <2>1. CASE CacheGet(r)
    BY <2>1 DEF CacheGet, StageInv
  <2>2. CASE Select(r)
    BY <1>1, <2>2 DEF Select, StageInv
  <2>3. CASE Rewarm(r) \/ GetUrl(r)
    BY <2>3 DEF Rewarm, GetUrl, Finish, AfterHandler, StageInv
  <2>4. CASE Fetch(r)
    BY <1>1, <2>4 DEF Fetch, Finish, AfterHandler, StageInv
  <2> QED
    BY <1>3, <2>1, <2>2, <2>3, <2>4 DEF Redirect
<1>4. ASSUME NEW r \in Reqs, Delete(r) PROVE StageInv'
  BY <1>1, <1>4 DEF Delete, Find, Mark, Evict, Finish, AfterHandler, StageInv
<1>5. ASSUME NEW r \in Reqs, Leave(r) PROVE StageInv'
  BY <1>1, <1>5 DEF Leave, Commit, CommitFails, Send, RecordClick, QueryFails,
                    AfterCommit, AfterResponse, AfterSend, StageInv
<1>6. ASSUME NEW r \in Reqs, Arrive(r) PROVE StageInv'
  <2>1. PICK j \in Jobs :
          /\ job' = [job EXCEPT ![r] = [j EXCEPT !.exp = ExpiresAt(j)]]
          /\ \/ pc' = [pc EXCEPT ![r] = "end"]
             \/ ~Rejected(j) /\ pc' = [pc EXCEPT ![r] = FirstStage(j)]
    BY <1>6 DEF Arrive
  <2>2. /\ j \in Job /\ (j.op # "create" => j.code # None)
        /\ j.op = "create" => j.code \notin Counters
    BY ConstantsAssumption
  <2> DEFINE k == [j EXCEPT !.exp = ExpiresAt(j)]
  <2>3. k.op = j.op /\ k.code = j.code /\ k.url = j.url /\ k # None
    <3>1. ExpiresAt(j) \in Nat \cup {None}
      BY <2>2 DEF ExpiresAt, Job
    <3>2. k \in Job
      BY <2>2, <3>1 DEF Job
    <3> QED
      BY <2>2, <3>2, NoneAssumption DEF Job
  <2>4. job' = [job EXCEPT ![r] = k]
    BY <2>1
  <2>5. j.op \in {"create", "redirect", "metadata", "delete"}
    BY <2>2 DEF Job
  <2> HIDE DEF k
  <2> QED
    BY <2>1, <2>2, <2>3, <2>4, <2>5 DEF FirstStage, Rejected, StageInv
<1>7. CASE Tick \/ Crash \/ UNCHANGED vars \/ (\E c \in Codes : RedisForgets(c))
       \/ (\E k \in Counters : CountCall(k))
  BY <1>7 DEF Tick, Crash, RedisForgets, CountCall, vars, StageInv
<1> QED
  BY <1>2, <1>3, <1>4, <1>5, <1>6, <1>7 DEF Next, Handle, AllOver

(* A request's own step is nobody else's. *)
LEMMA Local ==
  ASSUME IInv, NEW r \in Reqs, Arrive(r) \/ Handle(r), NEW q \in Reqs, q # r
  PROVE  /\ pc'[q] = pc[q] /\ job'[q] = job[q] /\ row'[q] = row[q]
         /\ pending'[q] = pending[q] /\ answer'[q] = answer[q]
         /\ q \in sent' <=> q \in sent
         /\ q \in clicks' <=> q \in clicks
<1> USE DEF IInv, TypeOK
<1>1. ASSUME NEW s, Abort(r, s)
      PROVE  /\ pc'[q] = pc[q] /\ job' = job /\ row' = row /\ clicks' = clicks
             /\ pending'[q] = pending[q] /\ answer'[q] = answer[q]
             /\ q \in sent' <=> q \in sent
  BY <1>1 DEF Abort
<1>2. CASE Arrive(r)
  BY <1>2 DEF Arrive
<1>3. CASE Create(r)
  BY <1>1, <1>3 DEF Create, CheckAlias, PickCode, Insert, WarmCache, Finish
<1>4. CASE Redirect(r) \/ Fetch(r)
  BY <1>1, <1>4 DEF Redirect, CacheGet, Select, Rewarm, GetUrl, Fetch, Finish
<1>5. CASE Delete(r)
  BY <1>1, <1>5 DEF Delete, Find, Mark, Evict, Finish
<1>6. CASE Leave(r)
  BY <1>1, <1>6 DEF Leave, Commit, CommitFails, Send, RecordClick, QueryFails, Released
<1> QED
  BY <1>2, <1>3, <1>4, <1>5, <1>6 DEF Handle

(* A step of the environment moves no handler, except to end it. *)
LEMMA Outside ==
  ASSUME IInv, [Next]_vars, \A r \in Reqs : ~Arrive(r) /\ ~Handle(r), NEW q \in Reqs
  PROVE  /\ urls' = urls /\ job' = job /\ row' = row
         /\ answer' = answer /\ sent' = sent /\ clicks' = clicks
         /\ pc'[q] = pc[q] \/ pc'[q] = "lost"
         /\ pending'[q] = pending[q] \/ pending'[q] = "none"
         /\ pc'[q] # pc[q] => pc[q] \notin Over
         /\ pc'[q] # pc[q] \/ pending' # pending => pc'[q] \in Over /\ pending'[q] = "none"
BY DEF IInv, TypeOK, Next, Tick, Crash, RedisForgets, CountCall, AllOver, vars

(* What was true of a handler's row stays true while others commit. *)
LEMMA AddsKept ==
  ASSUME NEW q \in Reqs, Adds(q), job'[q] = job[q], row'[q] = row[q]
  PROVE  Adds(q)'
BY DEF Adds, NewRow

(* A row that was read is still the link of its code after any step. *)
LEMMA ReadsKept ==
  ASSUME IInv, [Next]_vars, NEW q \in Reqs, Reads(q), job'[q] = job[q], row'[q] = row[q]
  PROVE  Reads(q)' /\ SameLink(Stored(q), Stored(q)')
<1>1. row[q].code \in Codes /\ Stored(q) # None
  BY DEF IInv, TypeOK, Reads, SameLink, Row
<1>2. SameLink(Stored(q), Stored(q)')
  BY <1>1, BindingKept DEF Stored
<1> QED
  BY <1>2 DEF Reads, SameLink

(* The ownership that delete_url checked still holds at its UPDATE and its commit. *)
LEMMA MayDeleteKept ==
  ASSUME IInv, [Next]_vars, NEW q \in Reqs, MayDelete(q), job'[q] = job[q], row'[q] = row[q]
  PROVE  MayDelete(q)'
BY ReadsKept DEF MayDelete, SameLink

(* Each handler's url_obj stays what its next stages take it for. *)
LEMMA RowStep ==
  ASSUME IInv, [Next]_vars
  PROVE  RowInv'
<1> DEFINE RowOk(q) ==
      /\ pc[q] \in {"insert", "warm"} => Adds(q)
      /\ pc[q] = "rewarm" => Reads(q)
      /\ pc[q] \in {"mark", "evict"} => MayDelete(q)
<1> USE DEF IInv
<1>1. ASSUME NEW q \in Reqs,
             pc'[q] = pc[q] \/ pc'[q] \notin {"insert", "warm", "rewarm", "mark", "evict"},
             job'[q] = job[q], row'[q] = row[q]
      PROVE  RowOk(q)'
  BY <1>1, AddsKept, ReadsKept, MayDeleteKept DEF RowInv
<1>2. ASSUME NEW r \in Reqs, Create(r) PROVE RowOk(r)'
  <2>1. CASE pc'[r] \notin {"insert", "warm", "rewarm", "mark", "evict"}
    BY <2>1
  <2>2. CASE CheckAlias(r) /\ pc'[r] = "insert"
    <3>1. /\ job[r] # None /\ job[r].op = "create" /\ job[r].code \in Codes \ Counters
          /\ job[r].url \in ValidUrls
      BY <2>2 DEF CheckAlias, StageInv, TypeOK, Job
    <3>2. row'[r] = NewRow(r, job[r].code) /\ job' = job
      BY <2>2, <3>1 DEF CheckAlias, Abort, TypeOK
    <3>3. NewRow(r, job[r].code) # None
      BY <3>1, NewRowType, NoneAssumption
    <3> QED
      BY <2>2, <3>1, <3>2, <3>3 DEF Adds, NewRow
  <2>3. CASE PickCode(r) /\ pc'[r] = "insert"
    <3>1. /\ job[r] # None /\ job[r].op = "create" /\ job[r].url \in ValidUrls
          /\ job[r].code = None
      BY <2>3 DEF PickCode, StageInv
    <3>2. PICK c \in Codes \ Counters : row'[r] = NewRow(r, c) /\ job' = job
      BY <2>3 DEF PickCode, Abort, TypeOK
    <3>3. NewRow(r, c) # None
      BY <3>1, NewRowType, NoneAssumption
    <3> QED
      BY <2>3, <3>1, <3>2, <3>3 DEF Adds, NewRow
  <2>4. CASE Insert(r)
    BY <2>4, AddsKept DEF Insert, Abort, RowInv, TypeOK
  <2>5. CASE WarmCache(r)
    BY <2>5 DEF WarmCache, Finish, AfterHandler, TypeOK
  <2>6. CASE PickCode(r) /\ pc'[r] = "pick_code"
    BY <2>6
  <2> QED
    BY <1>2, <2>1, <2>2, <2>3, <2>4, <2>5, <2>6
    DEF Create, CheckAlias, PickCode, Abort, TypeOK
<1>3. ASSUME NEW r \in Reqs, Redirect(r) \/ Fetch(r) PROVE RowOk(r)'
  <2>1. CASE Select(r)
    <3>1. job[r].code \in Codes /\ job[r].op = "redirect"
      BY <2>1 DEF Select, StageInv, TypeOK, Job
    <3>2. CASE ~Abort(r, 404) /\ ~Abort(r, 410)
      <4>1. /\ row'[r] = urls[job[r].code] /\ urls[job[r].code] # None
            /\ pc'[r] = "rewarm" /\ job' = job /\ urls' = urls
        BY <2>1, <3>2 DEF Select, Live, TypeOK
      <4>2. row'[r].code = job[r].code
        BY <3>1, <4>1 DEF TableInv
      <4> QED
        BY <4>1, <4>2 DEF Reads, SameLink, Stored
    <3> QED
      BY <3>2 DEF Abort, TypeOK
  <2>2. CASE CacheGet(r) \/ Rewarm(r) \/ GetUrl(r) \/ Fetch(r)
    BY <2>2 DEF CacheGet, Rewarm, GetUrl, Fetch, Finish, AfterHandler, Abort, TypeOK
  <2> QED
    BY <1>3, <2>1, <2>2 DEF Redirect
<1>4. ASSUME NEW r \in Reqs, Delete(r) PROVE RowOk(r)'
  <2>1. CASE Find(r)
    <3>1. job[r].code \in Codes /\ job[r].op = "delete"
      BY <2>1 DEF Find, StageInv, TypeOK, Job
    <3>2. CASE ~Abort(r, 403) /\ ~Abort(r, 404)
      <4>1. /\ row'[r] = urls[job[r].code] /\ urls[job[r].code] # None
            /\ urls[job[r].code].owner = job[r].user
            /\ pc'[r] = "mark" /\ job' = job /\ urls' = urls
        BY <2>1, <3>2 DEF Find, Live, Owns, TypeOK
      <4>2. row'[r].code = job[r].code
        BY <3>1, <4>1 DEF TableInv
      <4> QED
        BY <3>1, <4>1, <4>2 DEF MayDelete, Reads, SameLink, Stored
    <3> QED
      BY <3>2 DEF Abort, TypeOK
  <2>2. CASE Mark(r)
    <3>1. MayDelete(r)
      BY <2>2 DEF Mark, RowInv
    <3>2. row[r] \in Row
      BY <3>1 DEF TypeOK, MayDelete, Reads
    <3>3. row'[r] = [row[r] EXCEPT !.deleted = TRUE] /\ job' = job /\ urls' = urls
      BY <2>2 DEF Mark, TypeOK
    <3>4. row'[r] # None /\ SameLink(row[r], row'[r])
      <4>1. row'[r] \in Row
        BY <3>2, <3>3 DEF Row
      <4> QED
        BY <3>2, <3>3, <4>1, NoneAssumption DEF Row, SameLink
    <3>5. MayDelete(r)'
      BY <3>1, <3>3, <3>4 DEF MayDelete, Reads, SameLink, Stored
    <3> QED
      BY <2>2, <3>5 DEF Mark, TypeOK
  <2>3. CASE Evict(r)
    BY <2>3 DEF Evict, Finish, AfterHandler, TypeOK
  <2> QED
    BY <1>4, <2>1, <2>2, <2>3 DEF Delete
<1>5. ASSUME NEW r \in Reqs, Arrive(r) \/ Leave(r) PROVE RowOk(r)'
  <2>1. pc'[r] \notin {"insert", "warm", "rewarm", "mark", "evict"}
    BY <1>5 DEF Arrive, FirstStage, Leave, Commit, CommitFails, Send, RecordClick,
                QueryFails, AfterCommit, AfterSend, AfterResponse, Abort, TypeOK
  <2> QED
    BY <2>1
<1>6. ASSUME NEW r \in Reqs, Arrive(r) \/ Handle(r), NEW q \in Reqs PROVE RowOk(q)'
  <2>1. CASE q = r
    BY <1>2, <1>3, <1>4, <1>5, <1>6, <2>1 DEF Handle
  <2>2. CASE q # r
    BY <1>1, <1>6, <2>2, Local
  <2> QED
    BY <2>1, <2>2
<1>7. ASSUME \A r \in Reqs : ~Arrive(r) /\ ~Handle(r), NEW q \in Reqs PROVE RowOk(q)'
  BY <1>1, <1>7, Outside
<1> QED
  BY <1>6, <1>7 DEF RowInv

(* The unique index and the row lock admit one writer of a code at a time. *)
LEMMA OneWriterStep ==
  ASSUME IInv, [Next]_vars
  PROVE  OneWriter'
<1> USE DEF IInv, TypeOK
<1>1. ASSUME NEW r \in Reqs, Insert(r) \/ Mark(r), pending'[r] # "none"
      PROVE  /\ row'[r].code = row[r].code
             /\ \A q \in Reqs \ {r} : pending[q] # "none" => row[q].code # row[r].code
  <2>1. ~Contended(r) /\ (row' = row \/ row' = [row EXCEPT ![r].deleted = TRUE])
    BY <1>1 DEF Insert, Mark, Abort
  <2>2. row[r] \in Row
    BY <1>1 DEF Insert, Mark, RowInv, Adds, MayDelete, Reads
  <2> QED
    BY <2>1, <2>2 DEF Contended, Row
<1>2. ASSUME NEW r \in Reqs, Arrive(r) \/ Handle(r), ~Insert(r), ~Mark(r),
             pending'[r] # "none"
      PROVE  pending'[r] = pending[r] /\ row'[r] = row[r]
  <2>1. CASE Arrive(r)
    BY <2>1 DEF Arrive
  <2>2. CASE Create(r)
    BY <1>2, <2>2 DEF Create, CheckAlias, PickCode, WarmCache, Abort, LockInv, Locking
  <2>3. CASE Redirect(r) \/ Fetch(r)
    BY <1>2, <2>3 DEF Redirect, CacheGet, Select, Rewarm, GetUrl, Fetch, Abort, LockInv, Locking
  <2>4. CASE Delete(r)
    BY <1>2, <2>4 DEF Delete, Find, Evict, Abort, LockInv, Locking
  <2>5. CASE Leave(r)
    BY <1>2, <2>5 DEF Leave, Commit, CommitFails, Send, RecordClick, QueryFails,
                      Abort, Released
  <2> QED
    BY <1>2, <2>1, <2>2, <2>3, <2>4, <2>5 DEF Handle
<1>3. ASSUME NEW r \in Reqs, Arrive(r) \/ Handle(r) PROVE OneWriter'
  BY <1>1, <1>2, <1>3, Local DEF OneWriter
<1>4. CASE \A r \in Reqs : ~Arrive(r) /\ ~Handle(r)
  BY <1>4, Outside DEF OneWriter
<1> QED
  BY <1>3, <1>4

(* What a session has flushed stays valid until its own commit. *)
LEMMA PendingKept ==
  ASSUME IInv, [Next]_vars, NEW q \in Reqs,
         pending'[q] = pending[q], job'[q] = job[q], row'[q] = row[q]
  PROVE  /\ pending'[q] = "insert" => Adds(q)' /\ Stored(q)' = None
         /\ pending'[q] = "update" => MayDelete(q)'
<1>1. ASSUME pending[q] = "insert" PROVE Adds(q)' /\ Stored(q)' = None
  <2>1. Adds(q) /\ Stored(q) = None /\ row[q].code \in Codes
    BY <1>1 DEF IInv, LockInv, TypeOK, Adds, Row
  <2>2. ASSUME NEW p \in Reqs, urls' = Applied(p), pending' = Released(p)
        PROVE  urls'[row[q].code] = None
    <3>1. p # q
      BY <1>1, <2>2 DEF Released, IInv, TypeOK
    <3>2. pending[p] # "none" => row[p].code # row[q].code
      BY <1>1, <3>1 DEF IInv, OneWriter
    <3> QED
      BY <2>1, <2>2, <3>2 DEF Applied, Stored, IInv, TypeOK
  <2>3. Stored(q)' = None
    BY <2>1, <2>2, UrlsStep DEF Stored
  <2> QED
    BY <2>1, <2>3, AddsKept
<1>2. ASSUME pending[q] = "update" PROVE MayDelete(q)'
  BY <1>2, MayDeleteKept DEF IInv, LockInv
<1> QED
  BY <1>1, <1>2

(* A session holds a lock exactly from its flush to the end of its transaction. *)
LEMMA LockStep ==
  ASSUME IInv, [Next]_vars
  PROVE  LockInv'
<1> DEFINE LockOk(q) ==
             /\ pc[q] \notin Locking => pending[q] = "none"
             /\ pc[q] = "warm" => pending[q] = "insert"
             /\ pc[q] = "evict" => pending[q] = "update"
             /\ pending[q] = "insert" => Adds(q) /\ Stored(q) = None
             /\ pending[q] = "update" => MayDelete(q)
<1> USE DEF IInv
<1>1. ASSUME NEW q \in Reqs, pending'[q] = "none", pc'[q] \notin {"warm", "evict"}
      PROVE  LockOk(q)'
  BY <1>1
<1>2. ASSUME NEW q \in Reqs, pending'[q] = pending[q], pc'[q] = pc[q],
             job'[q] = job[q], row'[q] = row[q]
      PROVE  LockOk(q)'
  BY <1>2, PendingKept DEF LockInv
<1>3. ASSUME NEW q \in Reqs, pending'[q] = pending[q], job'[q] = job[q], row'[q] = row[q],
             pc'[q] \in Locking \ {"warm", "evict"} \/ pc[q] \notin Locking,
             pc'[q] \notin {"warm", "evict"}
      PROVE  LockOk(q)'
  BY <1>3, PendingKept DEF LockInv, Locking, CommitsFirst
<1>4. ASSUME NEW r \in Reqs, Create(r) PROVE LockOk(r)'
  <2>1. CASE CheckAlias(r) \/ PickCode(r)
    BY <1>1, <2>1 DEF CheckAlias, PickCode, Abort, LockInv, Locking, TypeOK
  <2>2. CASE Insert(r) /\ pc'[r] = "warm"
    <3>1. /\ urls' = urls /\ job' = job /\ row' = row /\ pending'[r] = "insert"
          /\ Stored(r) = None
      BY <2>2 DEF Insert, Unique, Stored, Abort, TypeOK
    <3>2. Adds(r)'
      BY <2>2, <3>1, AddsKept DEF Insert, RowInv
    <3> QED
      BY <2>2, <3>1, <3>2 DEF Stored, Locking
  <2>3. CASE Insert(r) /\ pc'[r] = "end"
    BY <1>1, <2>3 DEF Insert, Abort, TypeOK
  <2>4. CASE WarmCache(r)
    BY <1>3, <2>4 DEF WarmCache, Finish, AfterHandler, Locking, TypeOK
  <2> QED
    BY <1>4, <2>1, <2>2, <2>3, <2>4 DEF Create, Insert, Abort, TypeOK
<1>5. ASSUME NEW r \in Reqs, Redirect(r) \/ Fetch(r) PROVE LockOk(r)'
  BY <1>1, <1>5 DEF Redirect, CacheGet, Select, Rewarm, GetUrl, Fetch, Finish,
                    AfterHandler, Abort, LockInv, Locking, TypeOK
<1>6. ASSUME NEW r \in Reqs, Delete(r) PROVE LockOk(r)'
  <2>1. CASE Find(r)
    BY <1>1, <2>1 DEF Find, Abort, LockInv, Locking, TypeOK
  <2>2. CASE Mark(r)
    <3>1. pc'[r] = "evict" /\ pending'[r] = "update"
      BY <2>2 DEF Mark, TypeOK
    <3>2. MayDelete(r)'
      BY <3>1, RowStep DEF RowInv
    <3> QED
      BY <3>1, <3>2 DEF Locking
  <2>3. CASE Evict(r)
    BY <1>3, <2>3 DEF Evict, Finish, AfterHandler, Locking, TypeOK
  <2> QED
    BY <1>6, <2>1, <2>2, <2>3 DEF Delete
<1>7. ASSUME NEW r \in Reqs, Leave(r) PROVE LockOk(r)'
  <2>1. CASE Commit(r) \/ CommitFails(r)
    BY <1>1, <2>1 DEF Commit, CommitFails, Released, AfterCommit, TypeOK
  <2>2. CASE Send(r) \/ RecordClick(r)
    <3>1. /\ pending' = pending /\ job' = job /\ row' = row
          /\ pc[r] \notin Locking \/ pc'[r] \in Locking \ {"warm", "evict"}
          /\ pc'[r] \notin {"warm", "evict"}
      BY <2>2 DEF Send, RecordClick, AfterSend, AfterResponse, Locking, TypeOK
    <3> QED
      BY <1>3, <3>1, <2>2
  <2>3. CASE QueryFails(r)
    BY <1>1, <2>3 DEF QueryFails, Abort, TypeOK
  <2> QED
    BY <1>7, <2>1, <2>2, <2>3 DEF Leave
<1>8. ASSUME NEW r \in Reqs, Arrive(r) PROVE LockOk(r)'
  BY <1>1, <1>8 DEF Arrive, FirstStage, LockInv, Locking, TypeOK
<1>9. ASSUME NEW r \in Reqs, Arrive(r) \/ Handle(r), NEW q \in Reqs PROVE LockOk(q)'
  <2>1. CASE q = r
    BY <1>4, <1>5, <1>6, <1>7, <1>8, <1>9, <2>1 DEF Handle
  <2>2. CASE q # r
    BY <1>2, <1>9, <2>2, Local
  <2> QED
    BY <2>1, <2>2
<1>10. ASSUME \A r \in Reqs : ~Arrive(r) /\ ~Handle(r), NEW q \in Reqs PROVE LockOk(q)'
  <2>1. CASE pc'[q] # pc[q] \/ pending' # pending
    BY <1>1, <1>10, <2>1, Outside
  <2>2. CASE pc'[q] = pc[q] /\ pending' = pending
    BY <1>2, <1>10, <2>2, Outside
  <2> QED
    BY <2>1, <2>2
<1> QED
  BY <1>9, <1>10 DEF LockInv

(* Every committed row is the one its request inserted. *)
LEMMA TableStep ==
  ASSUME IInv, [Next]_vars
  PROVE  TableInv'
<1> SUFFICES ASSUME NEW c \in Codes, urls'[c] # None
             PROVE  \E r \in Reqs :
                    /\ urls'[c].id = r /\ urls'[c].code = c
                    /\ Adds(r)' /\ SameLink(row'[r], urls'[c])
                    /\ pc'[r] \in Committed /\ pending'[r] = "none"
  BY DEF TableInv, Committed, CommitsFirst
<1> USE DEF IInv
<1>1. CASE urls[c] # None
  <2>1. SameLink(urls[c], urls'[c])
    BY <1>1, BindingKept
  <2>2. PICK r \in Reqs :
        /\ urls[c].id = r /\ urls[c].code = c
        /\ Adds(r) /\ SameLink(row[r], urls[c])
        /\ pc[r] \in Committed /\ pending[r] = "none"
    BY <1>1 DEF TableInv
  <2>3. /\ job'[r] = job[r] /\ row'[r] = row[r]
        /\ pc'[r] \in Committed /\ pending'[r] = "none"
    <3>1. CASE Arrive(r) \/ Handle(r)
      <4>1. Send(r) \/ RecordClick(r)
        BY <2>2, <3>1 DEF Committed, Arrive, Handle, Create, CheckAlias, PickCode, Insert,
          WarmCache, Redirect, CacheGet, Select, Rewarm, GetUrl, Fetch, Delete, Find, Mark,
          Evict, Leave, Commit, CommitFails, QueryFails
      <4>2. /\ job' = job /\ row' = row /\ pending' = pending
            /\ pc[r] \in {"send", "background"}
            /\ pc'[r] \in {"background", AfterResponse}
        BY <2>2, <4>1 DEF Send, RecordClick, AfterSend, TypeOK
      <4>3. CommitsFirst
        BY <2>2, <4>2 DEF Committed
      <4> QED
        BY <2>2, <4>2, <4>3 DEF Committed, AfterResponse
    <3>2. ASSUME NEW q \in Reqs, q # r, Arrive(q) \/ Handle(q)
          PROVE  job'[r] = job[r] /\ row'[r] = row[r] /\ pc'[r] = pc[r]
                 /\ pending'[r] = pending[r]
      BY <2>2, <3>2, Local
    <3>3. CASE \A q \in Reqs : ~Arrive(q) /\ ~Handle(q)
      BY <2>2, <3>3, Outside DEF Committed
    <3> QED
      BY <2>2, <3>1, <3>2, <3>3
  <2>4. Adds(r)' /\ SameLink(row'[r], urls'[c])
    BY <2>1, <2>2, <2>3, AddsKept DEF SameLink
  <2>5. urls'[c].id = r /\ urls'[c].code = c
    BY <2>1, <2>2 DEF SameLink
  <2> QED
    BY <2>3, <2>4, <2>5
<1>2. CASE urls[c] = None
  <2>1. PICK r \in Reqs : /\ pc[r] = "commit" /\ pc'[r] \in Committed
                          /\ urls' = Applied(r) /\ pending' = Released(r)
                          /\ UNCHANGED <<job, row, cache>>
    BY <1>2, UrlsStep
  <2>2. pending[r] = "insert" /\ row[r].code = c /\ urls'[c] = row[r]
    BY <1>2, <2>1 DEF Applied, TypeOK, LockInv, MayDelete, Reads, SameLink, Stored
  <2>3. Adds(r)
    BY <2>2 DEF LockInv
  <2>4. urls'[c].id = r /\ urls'[c].code = c
    BY <2>2, <2>3 DEF Adds, NewRow
  <2>5. Adds(r)' /\ SameLink(row'[r], urls'[c])
    BY <2>1, <2>2, <2>3, AddsKept DEF SameLink, Adds
  <2> QED
    BY <2>1, <2>4, <2>5 DEF Released, TypeOK
<1> QED
  BY <1>1, <1>2

-------------------------------------------------------------------------------
(* The theorems *)

(* The inductive invariant holds at the start, *)
LEMMA InvInit == Init => IInv
<1> SUFFICES ASSUME Init PROVE IInv
  OBVIOUS
<1>1. StageInv /\ RowInv /\ OneWriter /\ LockInv /\ TableInv
  BY DEF Init, StageInv, RowInv, OneWriter, LockInv, TableInv
<1> QED
  BY <1>1, TypeInit DEF IInv

(* and every step of every handler, fault or tick preserves it. *)
LEMMA InvStep == IInv /\ [Next]_vars => IInv'
BY TypeStep, StageStep, RowStep, OneWriterStep, LockStep, TableStep DEF IInv

(* In every run of the service the handlers' stages are entered as url_service.py *)
(* relies on: whatever the faults, and whichever of commit and response is first. *)
THEOREM Inductive == Spec => []IInv
BY InvInit, InvStep, PTL DEF Spec

(* Every variable keeps its type; no TTL of create_url's is negative, and the *)
(* code generator never exceeds its retries.                                  *)
THEOREM TypeCorrect == Spec => []TypeOK
<1>1. IInv => TypeOK
  BY DEF IInv
<1> QED
  BY <1>1, Inductive, PTL

(* A short code that a transaction has bound stays bound to the same link, and *)
(* a deleted link is never served from the table again.                        *)
THEOREM BindingIsPermanent == Spec => BindingPermanent
<1>1. IInv /\ [Next]_vars =>
        [\A c \in Codes : urls[c] # None =>
           /\ SameLink(urls[c], urls'[c])
           /\ urls[c].deleted => urls'[c].deleted]_vars
  BY BindingKept
<1> QED
  BY <1>1, Inductive, PTL DEF Spec, BindingPermanent

(* A link is only ever deleted by a request of its owner. *)
THEOREM OwnersDelete == Spec => OnlyOwnersDelete
<1> DEFINE Rightful(c) ==
      urls[c] # None /\ ~urls[c].deleted /\ urls'[c] # None /\ urls'[c].deleted
        => \E r \in Reqs : /\ pc[r] = "commit"
                           /\ job[r].op = "delete" /\ job[r].code = c
                           /\ job[r].user = urls[c].owner
<1>1. ASSUME IInv, [Next]_vars, NEW c \in Codes PROVE Rightful(c)
  <2> SUFFICES ASSUME urls[c] # None, ~urls[c].deleted, urls'[c] # None, urls'[c].deleted
               PROVE  \E r \in Reqs : /\ pc[r] = "commit"
                                      /\ job[r].op = "delete" /\ job[r].code = c
                                      /\ job[r].user = urls[c].owner
    OBVIOUS
  <2>1. PICK r \in Reqs : pc[r] = "commit" /\ urls' = Applied(r)
    BY <1>1, UrlsStep
  <2>2. pending[r] # "none" /\ row[r].code = c
    BY <2>1, <1>1 DEF Applied, IInv, TypeOK
  <2>3. pending[r] # "insert"
    BY <2>2, <1>1 DEF IInv, LockInv, Stored
  <2>4. MayDelete(r)
    BY <2>2, <2>3, <1>1 DEF IInv, TypeOK, LockInv
  <2> QED
    BY <2>1, <2>2, <2>4 DEF MayDelete, Reads, Stored
<1>2. IInv /\ [Next]_vars => [\A c \in Codes : Rightful(c)]_vars
  BY <1>1
<1> QED
  BY <1>2, Inductive, PTL DEF Spec, OnlyOwnersDelete

-------------------------------------------------------------------------------
(* The cache *)

(* Who writes the cache under a short code, and what. *)
LEMMA CacheStep ==
  ASSUME IInv, [Next]_vars, NEW c \in Codes \ Counters,
         cache'[c] # None, cache'[c] # cache[c]
  PROVE  \E r \in Reqs :
           /\ pc[r] \in {"warm", "rewarm"} /\ row[r].code = c
           /\ cache'[c].url = row[r].url
           /\ urls' = urls
<1> USE DEF IInv, TypeOK
<1>1. ASSUME NEW r \in Reqs, NEW s, Abort(r, s) PROVE cache' = cache
  BY <1>1 DEF Abort
<1>2. ASSUME NEW r \in Reqs, WarmCache(r) \/ Rewarm(r)
      PROVE  /\ pc[r] \in {"warm", "rewarm"} /\ row[r].code = c
             /\ cache'[c].url = row[r].url
             /\ urls' = urls
  BY <1>2 DEF WarmCache, Rewarm, CacheSet
<1>3. ASSUME NEW r \in Reqs, Create(r) PROVE cache' = cache \/ WarmCache(r)
  BY <1>1, <1>3 DEF Create, CheckAlias, PickCode, Insert
<1>4. ASSUME NEW r \in Reqs, Redirect(r) \/ Fetch(r) PROVE cache' = cache \/ Rewarm(r)
  BY <1>1, <1>4 DEF Redirect, CacheGet, Select, GetUrl, Fetch
<1>5. ASSUME NEW r \in Reqs, Delete(r) PROVE cache'[c] \in {cache[c], None}
  BY <1>1, <1>5 DEF Delete, Find, Mark, Evict
<1>6. ASSUME NEW r \in Reqs, Leave(r) \/ Arrive(r) PROVE cache' = cache
  BY <1>1, <1>6 DEF Leave, Commit, CommitFails, Send, RecordClick, QueryFails, Arrive
<1>7. CASE Tick \/ Crash \/ AllOver \/ UNCHANGED vars \/ (\E d \in Codes : RedisForgets(d))
       \/ (\E k \in Counters : CountCall(k))
  BY <1>7 DEF Tick, Crash, AllOver, RedisForgets, CountCall, vars
<1> QED
  BY <1>2, <1>3, <1>4, <1>5, <1>6, <1>7 DEF Next, Handle

(* While an insert is pending, nobody else has a row of its code to cache. *)
LEMMA SoleWarmer ==
  ASSUME IInv, NEW r \in Reqs, pending[r] = "insert",
         NEW q \in Reqs, pc[q] \in {"warm", "rewarm"}, row[q].code = row[r].code
  PROVE  q = r
<1>1. CASE pc[q] = "warm"
  BY <1>1 DEF IInv, OneWriter, LockInv
<1>2. CASE pc[q] = "rewarm"
  BY <1>2 DEF IInv, RowInv, Reads, SameLink, LockInv, Stored
<1> QED
  BY <1>1, <1>2

(* A commit that adds the row of code c. *)
LEMMA NewBinding ==
  ASSUME IInv, [Next]_vars, NEW c \in Codes, urls[c] = None, urls'[c] # None
  PROVE  \E r \in Reqs : /\ pc[r] = "commit" /\ pending[r] = "insert"
                         /\ row[r].code = c /\ urls'[c] = row[r] /\ cache' = cache
<1>1. PICK r \in Reqs : pc[r] = "commit" /\ urls' = Applied(r) /\ cache' = cache
  BY UrlsStep
<1>2. pending[r] = "insert" /\ row[r].code = c /\ urls'[c] = row[r]
  BY <1>1 DEF IInv, Applied, TypeOK, LockInv, MayDelete, Reads, SameLink, Stored
<1> QED
  BY <1>1, <1>2

(* No write of the cache and no commit makes the cache disagree with the table. *)
LEMMA FaithfulStep ==
  ASSUME IInv, CacheInv, [Next]_vars
  PROVE  CacheFaithful'
<1> SUFFICES ASSUME NEW c \in Codes, cache'[c] # None, urls'[c] # None
             PROVE  cache'[c].url = urls'[c].url
  BY DEF CacheFaithful
<1>1. CASE urls[c] = None
  <2>1. PICK r \in Reqs : /\ pc[r] = "commit" /\ pending[r] = "insert"
                          /\ row[r].code = c /\ urls'[c] = row[r] /\ cache' = cache
    BY <1>1, NewBinding
  <2> QED
    BY <2>1 DEF CacheInv, Covered
<1>2. CASE urls[c] # None /\ cache'[c] = cache[c]
  BY <1>2, BindingKept DEF CacheInv, CacheFaithful, SameLink
<1>3. CASE urls[c] # None /\ cache'[c] # cache[c]
  <2>0. c \notin Counters
    BY <1>3 DEF IInv, TableInv, Adds, SameLink
  <2>1. PICK r \in Reqs : /\ pc[r] \in {"warm", "rewarm"} /\ row[r].code = c
                          /\ cache'[c].url = row[r].url /\ urls' = urls
    BY <1>3, <2>0, CacheStep
  <2>2. SameLink(row[r], Stored(r))
    BY <1>3, <2>1 DEF IInv, RowInv, Reads, LockInv, Stored
  <2> QED
    BY <2>1, <2>2 DEF SameLink, Stored
<1> QED
  BY <1>1, <1>2, <1>3

(* How a session comes to hold a lock, and how it gives it up. *)
LEMMA Held ==
  ASSUME IInv, [Next]_vars, NEW r \in Reqs
  PROVE  \/ pending'[r] = pending[r] /\ (pending[r] # "none" => row'[r] = row[r])
         \/ pending[r] = "none" /\ (Insert(r) \/ Mark(r))
         \/ pending'[r] = "none" /\ (Commit(r) \/ CommitFails(r) \/ Crash)
<1> USE DEF IInv, TypeOK
<1>1. ASSUME NEW s, Abort(r, s), pc[r] \in DbStages
      PROVE  pending'[r] = "none" /\ pending[r] = "none"
  BY <1>1 DEF Abort, LockInv, Locking
<1>2. CASE Arrive(r)
  BY <1>2 DEF Arrive
<1>3. CASE Create(r)
  BY <1>1, <1>3 DEF Create, CheckAlias, PickCode, Insert, WarmCache, LockInv, Locking
<1>4. CASE Redirect(r) \/ Fetch(r)
  BY <1>1, <1>4 DEF Redirect, CacheGet, Select, Rewarm, GetUrl, Fetch, LockInv, Locking
<1>5. CASE Delete(r)
  BY <1>1, <1>5 DEF Delete, Find, Mark, Evict, LockInv, Locking
<1>6. CASE Leave(r)
  BY <1>1, <1>6 DEF Leave, Commit, CommitFails, Send, RecordClick, QueryFails, Released
<1>7. ASSUME NEW q \in Reqs, q # r, Arrive(q) \/ Handle(q)
      PROVE  pending'[r] = pending[r] /\ row'[r] = row[r]
  BY <1>7, Local
<1>8. CASE Tick \/ Crash \/ AllOver \/ UNCHANGED vars \/ (\E d \in Codes : RedisForgets(d))
       \/ (\E k \in Counters : CountCall(k))
  BY <1>8 DEF Tick, Crash, AllOver, RedisForgets, CountCall, vars
<1> QED
  BY <1>2, <1>3, <1>4, <1>5, <1>6, <1>7, <1>8 DEF Next, Handle

(* Until an insert commits, the cache holds nothing else under its code. *)
LEMMA CoverStep ==
  ASSUME SingleFault, IInv, CacheInv, [Next]_vars, NEW r \in Reqs,
         pending'[r] = "insert", pc'[r] # "warm" \/ "redis" \in Faults
  PROVE  Covered(r)'
<1> DEFINE c == row[r].code
<1>1. CASE pending[r] = "insert"
  <2>1. row'[r] = row[r] /\ row[r] # None /\ c \in Codes \ Counters
    BY <1>1, Held DEF IInv, TypeOK, LockInv, Adds, Row
  <2>2. CASE cache'[c] = cache[c] /\ (pc[r] # "warm" \/ "redis" \in Faults)
    BY <1>1, <2>1, <2>2 DEF CacheInv, Covered
  <2>3. CASE pc[r] = "warm" /\ "redis" \notin Faults
    <3>1. WarmCache(r)
      <4>1. pc'[r] # pc[r]
        BY <2>3
      <4>2. Arrive(r) \/ Handle(r)
        BY <4>1, Outside, Local
      <4> QED
        BY <2>3, <4>2 DEF Arrive, Handle, Create, CheckAlias, PickCode, Insert,
          Redirect, CacheGet, Select, Rewarm, GetUrl, Fetch, Delete, Find, Mark, Evict,
          Leave, Commit, CommitFails, Send, RecordClick, QueryFails
    <3> QED
      BY <2>1, <2>3, <3>1 DEF WarmCache, CacheSet, Covered, IInv, TypeOK
  <2>4. CASE cache'[c] # cache[c] /\ cache'[c] # None
    <3>1. PICK q \in Reqs : /\ pc[q] \in {"warm", "rewarm"} /\ row[q].code = c
                            /\ cache'[c].url = row[q].url
      BY <2>1, <2>4, CacheStep
    <3>2. q = r
      BY <1>1, <3>1, SoleWarmer
    <3> QED
      BY <2>1, <3>1, <3>2 DEF Covered
  <2>5. CASE cache'[c] = None
    BY <2>1, <2>5 DEF Covered
  <2> QED
    BY <2>2, <2>3, <2>4, <2>5
<1>2. CASE pending[r] # "insert"
  <2>1. Insert(r)
    BY <1>2, Held DEF Mark, IInv, TypeOK
  <2>2. /\ ~Contended(r) /\ urls[c] = None /\ pc'[r] = "warm"
        /\ cache' = cache /\ row' = row
    BY <2>1 DEF Insert, Unique, Abort, IInv, TypeOK
  <2>3. c \in Codes \ Counters
    BY <2>1 DEF Insert, IInv, RowInv, Adds, TypeOK, Row
  <2>4. cache[c] = None
    <3> SUFFICES ASSUME cache[c] # None PROVE FALSE
      OBVIOUS
    <3>1. PICK q \in Reqs : pending[q] = "insert" /\ row[q].code = c
      BY <2>2, <2>3 DEF CacheInv, SingleFault
    <3> QED
      BY <1>2, <2>2, <3>1 DEF Contended
  <2> QED
    BY <2>2, <2>4 DEF Covered
<1> QED
  BY <1>1, <1>2

(* Without rollbacks, a cached code without a row has an insert pending. *)
LEMMA BackedStep ==
  ASSUME IInv, CacheInv, [Next]_vars, Faults \cap {"db", "crash"} = {},
         NEW c \in Codes \ Counters, cache'[c] # None, urls'[c] = None
  PROVE  \E r \in Reqs : pending'[r] = "insert" /\ row'[r].code = c
<1>1. urls[c] = None
  BY BindingKept DEF SameLink
<1>2. ASSUME NEW r \in Reqs, pending[r] = "insert", row[r].code = c
      PROVE  pending'[r] = "insert" /\ row'[r].code = c
  <2>1. ~CommitFails(r) /\ ~Crash
    BY DEF CommitFails, Crash
  <2>2. ~Commit(r)
    <3> SUFFICES ASSUME Commit(r) PROVE FALSE
      OBVIOUS
    <3>1. urls'[c] = row[r] /\ row[r] # None
      BY <1>2 DEF Commit, Applied, IInv, TypeOK, LockInv, Adds
    <3> QED
      BY <3>1
  <2> QED
    BY <1>2, <2>1, <2>2, Held
<1>3. CASE cache[c] # None
  BY <1>1, <1>2, <1>3 DEF CacheInv
<1>4. CASE cache[c] = None
  <2>1. PICK r \in Reqs : pc[r] \in {"warm", "rewarm"} /\ row[r].code = c
    BY <1>4, CacheStep
  <2>2. pc[r] # "rewarm"
    BY <1>1, <2>1 DEF IInv, RowInv, Reads, SameLink, Stored
  <2>3. pending[r] = "insert"
    BY <2>1, <2>2 DEF IInv, LockInv
  <2> QED
    BY <1>2, <2>1, <2>3
<1> QED
  BY <1>3, <1>4

(* The three conjuncts of CacheInv, under at most one kind of fault. *)
LEMMA CacheInvStep == SingleFault /\ IInv /\ CacheInv /\ [Next]_vars => CacheInv'
<1> SUFFICES ASSUME SingleFault, IInv, CacheInv, [Next]_vars PROVE CacheInv'
  OBVIOUS
<1>1. CacheFaithful'
  BY FaithfulStep
<1> QED
  BY <1>1, CoverStep, BackedStep DEF CacheInv

(* CacheInv is an invariant as long as Redis does not fail in the same life as the *)
(* database or the process: create_url's write covers what a rollback left behind. *)
THEOREM CacheInvariant ==
  ASSUME SingleFault
  PROVE  Spec => []CacheInv
<1>1. Init => CacheInv
  BY DEF Init, CacheInv, CacheFaithful
<1>2. IInv /\ CacheInv /\ [Next]_vars => CacheInv'
  BY CacheInvStep
<1> QED
  BY <1>1, <1>2, Inductive, PTL DEF Spec

(* Then no cached destination ever disagrees with the table: the cache may be     *)
(* written before the commit because nothing else of the same code can be then.   *)
THEOREM CacheIsFaithful ==
  ASSUME SingleFault
  PROVE  Spec => []CacheFaithful
<1>1. CacheInv => CacheFaithful
  BY DEF CacheInv
<1> QED
  BY <1>1, CacheInvariant, PTL

-------------------------------------------------------------------------------
(* What clients are told *)

(* A response that has left is the last word of its request. *)
LEMMA SentStep ==
  ASSUME CommitsFirst, IInv, AckInv, [Next]_vars, NEW r \in Reqs, r \in sent'
  PROVE  pc'[r] \in {"background", "end", "lost"}
<1> USE DEF IInv, TypeOK
<1>1. CASE Arrive(r) \/ Handle(r)
  <2>1. ASSUME NEW s, Abort(r, s) PROVE pc'[r] = "end"
    BY <2>1 DEF Abort
  <2>2. CASE r \notin sent
    BY <1>1, <2>1, <2>2 DEF Arrive, Handle, Create, CheckAlias, PickCode, Insert, WarmCache,
      Redirect, CacheGet, Select, Rewarm, GetUrl, Fetch, Delete, Find, Mark, Evict, Leave,
      Commit, CommitFails, Send, RecordClick, QueryFails, AfterSend, AfterResponse
  <2>3. CASE r \in sent
    <3>1. pc[r] \in {"background", "end", "lost"}
      BY <2>3 DEF AckInv, Truthful
    <3>2. RecordClick(r)
      BY <1>1, <3>1 DEF Arrive, Handle, Create, CheckAlias, PickCode, Insert, WarmCache,
        Redirect, CacheGet, Select, Rewarm, GetUrl, Fetch, Delete, Find, Mark, Evict, Leave,
        Commit, CommitFails, Send, QueryFails
    <3> QED
      BY <3>2 DEF RecordClick, AfterResponse
  <2> QED
    BY <2>2, <2>3
<1>2. ASSUME NEW q \in Reqs, q # r, Arrive(q) \/ Handle(q)
      PROVE  pc'[r] \in {"background", "end", "lost"}
  BY <1>2, Local DEF AckInv, Truthful
<1>3. CASE \A q \in Reqs : ~Arrive(q) /\ ~Handle(q)
  BY <1>3, Outside DEF AckInv, Truthful
<1> QED
  BY <1>1, <1>2, <1>3

(* A promise, once in the table, is kept. *)
LEMMA CreatedKept ==
  ASSUME IInv, [Next]_vars, NEW r \in Reqs, Created(r), row'[r] = row[r]
  PROVE  Created(r)'
BY BindingKept DEF Created, Stored, SameLink, IInv, TypeOK, Row

(* A deletion that a 204 promises stays in the table. *)
LEMMA DeletedKept ==
  ASSUME IInv, [Next]_vars, NEW r \in Reqs, Deleted(r), job'[r] = job[r]
  PROVE  Deleted(r)'
<1>1. job[r].code \in Codes
  BY DEF Deleted, IInv, TypeOK, Job
<1> QED
  BY <1>1, BindingKept DEF Deleted, SameLink

(* Every step keeps the answers truthful when the commit precedes the response. *)
LEMMA AckStep ==
  ASSUME IInv, AckInv, [Next]_vars
  PROVE  AckInv'
<1> SUFFICES ASSUME CommitsFirst, NEW r \in Reqs PROVE Truthful(r)'
  BY DEF AckInv, CommitsFirst
<1>0. Truthful(r)
  BY DEF AckInv
<1> USE <1>0 DEF IInv, TypeOK, Truthful
<1>1. r \in sent' => pc'[r] \in {"background", "end", "lost"}
  BY SentStep
<1>2. \A s : Abort(r, s) => answer'[r].status = s
  BY DEF Abort, Reply
<1>3. CASE Arrive(r)
  BY <1>1, <1>3 DEF Arrive, Reply
<1>4. CASE Create(r)
  <2>1. CASE WarmCache(r)
    BY <1>1, <2>1 DEF WarmCache, Finish, Reply, AfterHandler, LockInv
  <2>2. CASE ~WarmCache(r)
    BY <1>1, <1>2, <1>4, <2>2
    DEF Create, CheckAlias, PickCode, Insert
  <2> QED
    BY <2>1, <2>2
<1>5. CASE Redirect(r) \/ Fetch(r)
  <2>1. answer'[r].status \notin {201, 204}
    <3>1. CASE GetUrl(r)
      <4>1. answer'[r].status = answer[r].status
        BY <3>1 DEF GetUrl, Finish, Answer
      <4> QED
        BY <3>1, <4>1 DEF GetUrl
    <3>2. CASE CacheGet(r) \/ Select(r) \/ Rewarm(r) \/ Fetch(r)
      BY <1>2, <3>2 DEF CacheGet, Select, Rewarm, Fetch, Finish, Reply
    <3> QED
      BY <1>5, <3>1, <3>2 DEF Redirect
  <2> QED
    BY <1>1, <2>1
<1>6. CASE Delete(r)
  <2>1. CASE Evict(r)
    BY <1>1, <2>1 DEF Evict, Finish, Reply, AfterHandler, LockInv
  <2>2. CASE ~Evict(r)
    BY <1>1, <1>2, <1>6, <2>2 DEF Delete, Find, Mark
  <2> QED
    BY <2>1, <2>2
<1>7. CASE Commit(r)
  <2>1. /\ pc[r] = "commit" /\ pc'[r] = "send" /\ answer' = answer
        /\ row' = row /\ job' = job /\ urls' = Applied(r)
    BY <1>7 DEF Commit, AfterCommit
  <2>2. ASSUME answer[r].status = 201 PROVE Created(r)'
    <3>1. pending[r] = "insert"
      BY <2>1, <2>2
    <3>2. Adds(r) /\ row[r].code \in Codes
      BY <3>1 DEF LockInv, Adds, Row
    <3>3. urls'[row[r].code] = row[r] /\ row[r].id = r
      BY <2>1, <3>1, <3>2 DEF Applied, Adds, NewRow
    <3> QED
      BY <2>1, <3>2, <3>3 DEF Created, Stored, Adds
  <2>3. ASSUME answer[r].status = 204 PROVE Deleted(r)'
    <3>1. pending[r] = "update"
      BY <2>1, <2>3
    <3>2. MayDelete(r) /\ row[r].code \in Codes
      BY <3>1 DEF LockInv, MayDelete, Reads, Row
    <3> DEFINE c == row[r].code
    <3>3. urls[c] # None /\ urls[c].owner = job[r].user /\ job[r].code = c
      BY <3>2 DEF MayDelete, Reads, SameLink, Stored
    <3>4. SameLink(urls[c], urls'[c])
      BY <2>1, <3>2, <3>3, AppliedKeeps
    <3>5. urls'[c].deleted
      <4>1. urls[c] \in Row
        BY <3>2, <3>3
      <4>2. urls'[c] = [urls[c] EXCEPT !.deleted = TRUE]
        BY <2>1, <3>1, <3>2 DEF Applied
      <4> QED
        BY <4>1, <4>2 DEF Row
    <3>6. job[r] # None /\ job[r].op = "delete" /\ job[r].code # None
      BY <2>1, <3>2 DEF StageInv, MayDelete
    <3> QED
      BY <2>1, <3>3, <3>4, <3>5, <3>6 DEF Deleted, SameLink
  <2> QED
    BY <1>1, <2>1, <2>2, <2>3
<1>8. CASE CommitFails(r)
  <2>1. pc[r] = "commit" /\ r \notin sent
    BY <1>8 DEF CommitFails
  <2> QED
    BY <1>1, <1>8, <2>1 DEF CommitFails, Reply
<1>9. CASE Send(r) \/ RecordClick(r) \/ QueryFails(r)
  <2>1. CASE QueryFails(r)
    BY <1>1, <1>2, <2>1 DEF QueryFails
  <2>2. CASE Send(r) \/ RecordClick(r)
    <3>1. /\ pc[r] \in {"send", "background"} /\ pc'[r] \in {"background", "end"}
          /\ answer' = answer /\ row' = row /\ job' = job
      BY <2>2 DEF Send, RecordClick, AfterSend, AfterResponse
    <3> QED
      BY <1>1, <3>1, CreatedKept, DeletedKept
  <2> QED
    BY <1>9, <2>1, <2>2
<1>10. ASSUME NEW q \in Reqs, q # r, Arrive(q) \/ Handle(q)
       PROVE  /\ pc'[r] = pc[r] /\ pending'[r] = pending[r] /\ answer'[r] = answer[r]
              /\ row'[r] = row[r] /\ job'[r] = job[r] /\ (r \in sent' <=> r \in sent)
  BY <1>10, Local
<1>11. CASE \A q \in Reqs : ~Arrive(q) /\ ~Handle(q)
  <2>1. /\ answer' = answer /\ row' = row /\ job' = job /\ sent' = sent
        /\ pc'[r] = pc[r] \/ pc'[r] = "lost"
        /\ pc'[r] # pc[r] \/ pending' # pending => pc'[r] \in Over
        /\ pc'[r] # pc[r] => pc[r] \notin Over
    BY <1>11, Outside
  <2>2. CASE pc'[r] # pc[r] \/ pending' # pending
    BY <1>1, <2>1, <2>2, CreatedKept, DeletedKept
  <2>3. CASE pc'[r] = pc[r] /\ pending' = pending
    BY <1>1, <2>1, <2>3, CreatedKept, DeletedKept
  <2> QED
    BY <2>2, <2>3
<1> QED
  BY <1>1, <1>3, <1>4, <1>5, <1>6, <1>7, <1>8, <1>9, <1>10, <1>11,
     CreatedKept, DeletedKept DEF Handle, Leave

(* Nothing is promised at the start. *)
LEMMA AckInit == Init => AckInv
<1> SUFFICES ASSUME Init PROVE AckInv
  OBVIOUS
<1>1. ASSUME NEW r \in Reqs PROVE Truthful(r)
  <2>1. r \notin sent /\ answer[r] = Reply(0, None)
    BY DEF Init
  <2>2. Reply(0, None).status = 0
    BY DEF Reply
  <2>3. answer[r].status = 0
    BY <2>1, <2>2
  <2> QED
    BY <2>1, <2>3 DEF Truthful
<1> QED
  BY <1>1 DEF AckInv

(* AckInv is an invariant: from the handler's answer to the end of the request, a *)
(* 201 or a 204 is backed by what is pending or by the table.                     *)
THEOREM AckInvariant == Spec => []AckInv
<1>1. Init => AckInv
  BY AckInit
<1>2. IInv /\ AckInv /\ [Next]_vars => AckInv'
  BY AckStep
<1> QED
  BY <1>1, <1>2, Inductive, PTL DEF Spec

(* With FastAPI's older order, a 201 that reached its client is backed by a row of *)
(* that client's link and alias, in every state that follows, crashes included.    *)
THEOREM CreateIsDurable ==
  ASSUME CommitsFirst
  PROVE  Spec => []AckedCreateDurable
<1>1. ASSUME IInv, AckInv PROVE AckedCreateDurable
  <2> SUFFICES ASSUME NEW r \in sent, answer[r].status = 201
               PROVE  /\ Stored(r) # None
                      /\ Stored(r).id = r /\ Stored(r).url = job[r].url
                      /\ Stored(r).url \in ValidUrls
                      /\ Stored(r).owner = job[r].user /\ Stored(r).exp = job[r].exp
                      /\ job[r].code # None => Stored(r).code = job[r].code
    BY DEF AckedCreateDurable
  <2>1. r \in Reqs /\ Created(r)
    BY <1>1 DEF IInv, TypeOK, AckInv, Truthful
  <2>2. row[r].code \in Codes
    BY <1>1, <2>1 DEF IInv, TypeOK, Created, Row
  <2>3. Adds(r) /\ SameLink(row[r], Stored(r))
    BY <1>1, <2>1, <2>2 DEF IInv, TableInv, Created, Stored
  <2>4. job[r].code # None => row[r].code = job[r].code
    BY <2>3 DEF Adds
  <2> QED
    BY <2>1, <2>3, <2>4 DEF Adds, NewRow, SameLink
<1>2. IInv /\ AckInv => AckedCreateDurable
  BY <1>1
<1> QED
  BY <1>2, Inductive, AckInvariant, PTL

(* Likewise a 204: the link is deleted, it was the client's, and stays deleted. *)
THEOREM DeleteIsDurable ==
  ASSUME CommitsFirst
  PROVE  Spec => []AckedDeleteDurable
<1>1. ASSUME IInv, AckInv PROVE AckedDeleteDurable
  BY <1>1 DEF IInv, TypeOK, AckInv, Truthful, AckedDeleteDurable, Deleted
<1>2. IInv /\ AckInv => AckedDeleteDurable
  BY <1>1
<1> QED
  BY <1>2, Inductive, AckInvariant, PTL

-------------------------------------------------------------------------------
(* Progress *)

(* RowWaitsAreShort, for any number of requests: a lock is held between a flush and *)
(* its commit, and a request flushes once.                                          *)
THEOREM WaitsAreShort == Spec => []RowWaitsAreShort
<1>1. ASSUME LockInv, NEW q \in Reqs, pending[q] # "none"
      PROVE  pc[q] \notin Over /\ ~WaitsForRow(q)
  BY <1>1 DEF LockInv, Locking, Over, WaitsForRow
<1>2. IInv => RowWaitsAreShort
  BY <1>1 DEF IInv, RowWaitsAreShort
<1> QED
  BY <1>2, Inductive, PTL

(* How many steps of its handler a request is away from its end, at most. *)
StepsLeft(r) ==
  CASE pc[r] \in {"end", "lost"} -> 0
    [] pc[r] = "background" -> IF CommitsFirst THEN 1 ELSE 2
    [] pc[r] = "send" -> IF CommitsFirst THEN 2 ELSE 3
    [] pc[r] = "commit" -> IF CommitsFirst THEN 3 ELSE 1
    [] pc[r] \in {"warm", "evict", "get_url", "fetch"} -> 4
    [] pc[r] \in {"insert", "mark", "rewarm"} -> 5
    [] pc[r] \in {"check_alias", "find", "select"} -> 6
    [] pc[r] = "cache_get" -> 7
    [] pc[r] = "pick_code" -> 5 + MaxRetries - tries[r]
    [] OTHER -> 8 + MaxRetries

OwnState(r) == <<pc[r], tries[r], job[r], row[r], pending[r], answer[r], r \in sent>>
Nearer(r) == StepsLeft(r)' < StepsLeft(r)

(* The distances are natural numbers, and only whoever is over has none left. *)
LEMMA StepsLeftType ==
  ASSUME TypeOK, NEW r \in Reqs
  PROVE  /\ StepsLeft(r) \in 0 .. MaxRetries + 8
         /\ pc[r] \notin {"end", "lost"} => StepsLeft(r) > 0
<1>1. /\ MaxRetries \in Nat \ {0} /\ pc[r] \in Stages /\ tries[r] \in 0 .. MaxRetries - 1
  BY ConstantsAssumption DEF TypeOK
<1>2. CASE pc[r] = "pick_code"
  <2>1. StepsLeft(r) = 5 + MaxRetries - tries[r]
    BY <1>2 DEF StepsLeft
  <2> QED
    BY <1>1, <1>2, <2>1
<1>3. CASE pc[r] \in {"end", "lost"}
  <2>1. StepsLeft(r) = 0
    BY <1>3 DEF StepsLeft
  <2> QED
    BY <1>1, <1>3, <2>1
<1>4. CASE pc[r] \notin {"pick_code", "end", "lost"}
  <2>1. StepsLeft(r) \in 1 .. 7 \/ StepsLeft(r) = 8 + MaxRetries
    BY <1>4 DEF StepsLeft
  <2> QED
    BY <1>1, <1>4, <2>1
<1> QED
  BY <1>2, <1>3, <1>4

(* A step of r's handler brings it nearer to its end. *)
LEMMA HandleIsNearer ==
  ASSUME TypeOK, NEW r \in Reqs, Arrive(r) \/ Handle(r)
  PROVE  Nearer(r)
<1>1. /\ MaxRetries \in Nat \ {0} /\ pc \in [Reqs -> Stages]
      /\ tries \in [Reqs -> 0 .. MaxRetries - 1]
  BY ConstantsAssumption DEF TypeOK
<1>2. ASSUME pc[r] \notin {"end", "lost"}, pc'[r] = "end"
      PROVE  Nearer(r)
  <2>1. StepsLeft(r) > 0
    BY <1>2, StepsLeftType
  <2>2. StepsLeft(r)' = 0
    BY <1>2 DEF StepsLeft
  <2> QED
    BY <2>1, <2>2 DEF Nearer
<1>3. ASSUME NEW s, Abort(r, s), pc[r] \in DbStages
      PROVE  Nearer(r)
  BY <1>1, <1>2, <1>3 DEF Abort, DbStages
<1>4. CASE Arrive(r)
  <2>1. pc[r] = "idle"
    BY <1>4 DEF Arrive
  <2>2. CASE pc'[r] = "end"
    BY <1>2, <2>1, <2>2
  <2>3. PICK j \in Jobs : pc' = [pc EXCEPT ![r] = "end"] \/ pc' = [pc EXCEPT ![r] = FirstStage(j)]
    BY <1>4 DEF Arrive
  <2>4. tries' = tries
    BY <1>4 DEF Arrive
  <2>5. FirstStage(j) \in {"check_alias", "pick_code", "cache_get", "fetch", "find"}
    BY DEF FirstStage
  <2>6. CASE pc'[r] = FirstStage(j)
    BY <1>1, <2>1, <2>4, <2>5, <2>6 DEF StepsLeft, Nearer
  <2> QED
    BY <1>1, <2>2, <2>3, <2>6
<1>5. CASE PickCode(r)
  <2>1. \/ Abort(r, 500)
        \/ pc' = [pc EXCEPT ![r] = "insert"] /\ tries' = tries
        \/ pc' = pc /\ tries' = [tries EXCEPT ![r] = @ + 1] /\ tries[r] + 1 < MaxRetries
    BY <1>5 DEF PickCode
  <2>2. pc[r] = "pick_code"
    BY <1>5 DEF PickCode
  <2> QED
    BY <1>1, <1>3, <2>1, <2>2 DEF StepsLeft, Nearer, DbStages
<1>6. CASE CheckAlias(r) \/ Insert(r) \/ WarmCache(r)
  <2>1. \/ pc[r] \in DbStages /\ \E s \in {409, 500} : Abort(r, s)
        \/ /\ tries' = tries
           /\ \/ pc[r] = "check_alias" /\ pc' = [pc EXCEPT ![r] = "insert"]
              \/ pc[r] = "insert" /\ pc' = [pc EXCEPT ![r] = "warm"]
              \/ pc[r] = "warm" /\ pc' = [pc EXCEPT ![r] = AfterHandler]
    BY <1>6 DEF CheckAlias, Insert, WarmCache, Finish, DbStages
  <2> QED
    BY <1>1, <1>3, <2>1 DEF StepsLeft, Nearer, AfterHandler
<1>7. CASE Redirect(r) \/ Fetch(r)
  <2>1. \/ pc[r] \in DbStages /\ \E s \in {404, 410} : Abort(r, s)
        \/ /\ tries' = tries
           /\ \/ pc[r] = "cache_get" /\ pc' = [pc EXCEPT ![r] = "get_url"]
              \/ pc[r] = "cache_get" /\ pc' = [pc EXCEPT ![r] = "select"]
              \/ pc[r] = "select" /\ pc' = [pc EXCEPT ![r] = "rewarm"]
              \/ pc[r] = "rewarm" /\ pc' = [pc EXCEPT ![r] = "get_url"]
              \/ pc[r] \in {"get_url", "fetch"} /\ pc' = [pc EXCEPT ![r] = AfterHandler]
    BY <1>7 DEF Redirect, CacheGet, Select, Rewarm, GetUrl, Fetch, Finish, DbStages
  <2> QED
    BY <1>1, <1>3, <2>1 DEF StepsLeft, Nearer, AfterHandler
<1>8. CASE Delete(r)
  <2>1. \/ pc[r] \in DbStages /\ \E s \in {403, 404} : Abort(r, s)
        \/ /\ tries' = tries
           /\ \/ pc[r] = "find" /\ pc' = [pc EXCEPT ![r] = "mark"]
              \/ pc[r] = "mark" /\ pc' = [pc EXCEPT ![r] = "evict"]
              \/ pc[r] = "evict" /\ pc' = [pc EXCEPT ![r] = AfterHandler]
    BY <1>8 DEF Delete, Find, Mark, Evict, Finish, DbStages
  <2> QED
    BY <1>1, <1>3, <2>1 DEF StepsLeft, Nearer, AfterHandler
<1>9. CASE Commit(r) \/ Send(r) \/ RecordClick(r)
  <2>1. /\ tries' = tries
        /\ \/ pc[r] = "commit" /\ pc' = [pc EXCEPT ![r] = AfterCommit]
           \/ pc[r] = "send" /\ pc' = [pc EXCEPT ![r] = AfterSend(r)]
           \/ pc[r] = "background" /\ pc' = [pc EXCEPT ![r] = AfterResponse]
    BY <1>9 DEF Commit, Send, RecordClick
  <2> QED
    BY <1>1, <2>1 DEF StepsLeft, Nearer, AfterCommit, AfterSend, AfterResponse
<1>10. CASE CommitFails(r) \/ QueryFails(r)
  BY <1>1, <1>2, <1>3, <1>10 DEF CommitFails, QueryFails
<1> QED
  BY <1>4, <1>5, <1>6, <1>7, <1>8, <1>9, <1>10 DEF Handle, Create, Leave

(* And it leaves the other requests where they are. *)
LEMMA HandleIsAlone ==
  ASSUME TypeOK, NEW q \in Reqs, Arrive(q) \/ Handle(q), NEW r \in Reqs \ {q}
  PROVE  UNCHANGED OwnState(r)
<1>1. /\ pc \in [Reqs -> Stages] /\ job \in [Reqs -> Job \cup {None}]
      /\ row \in [Reqs -> Row \cup {None}] /\ answer \in [Reqs -> Answer]
      /\ pending \in [Reqs -> {"none", "insert", "update"}]
      /\ tries \in [Reqs -> 0 .. MaxRetries - 1]
  BY DEF TypeOK
<1>2. ASSUME NEW s, Abort(q, s) PROVE UNCHANGED OwnState(r)
  BY <1>1, <1>2 DEF Abort, OwnState
<1>3. CASE Arrive(q)
  BY <1>1, <1>3 DEF Arrive, OwnState
<1>4. CASE Create(q)
  BY <1>1, <1>2, <1>4
     DEF Create, CheckAlias, PickCode, Insert, WarmCache, Finish, OwnState
<1>5. CASE Redirect(q) \/ Fetch(q)
  BY <1>1, <1>2, <1>5
     DEF Redirect, CacheGet, Select, Rewarm, GetUrl, Fetch, Finish, OwnState
<1>6. CASE Delete(q)
  BY <1>1, <1>2, <1>6 DEF Delete, Find, Mark, Evict, Finish, OwnState
<1>7. CASE Leave(q)
  BY <1>1, <1>2, <1>7
     DEF Leave, Commit, CommitFails, Send, RecordClick, QueryFails, Released, OwnState
<1> QED
  BY <1>3, <1>4, <1>5, <1>6, <1>7 DEF Handle

(* No handler runs for ever: each of its steps, every retry of the generator and *)
(* every failure included, brings it nearer to its end, at most MaxRetries + 8   *)
(* away, and nobody else's step or crash takes it back.                          *)
THEOREM HandlersRunOut ==
  Spec => /\ [](\A r \in Reqs : StepsLeft(r) \in 0 .. MaxRetries + 8)
          /\ [][\A r \in Reqs : Nearer(r) \/ UNCHANGED OwnState(r)]_vars
<1>1. TypeOK => \A r \in Reqs : StepsLeft(r) \in 0 .. MaxRetries + 8
  BY StepsLeftType
<1>2. ASSUME IInv, [Next]_vars, NEW r \in Reqs
      PROVE  Nearer(r) \/ UNCHANGED OwnState(r)
  <2>1. TypeOK
    BY <1>2 DEF IInv
  <2>2. ASSUME NEW q \in Reqs, Arrive(q) \/ Handle(q)
        PROVE  Nearer(r) \/ UNCHANGED OwnState(r)
    BY <2>1, <2>2, HandleIsNearer, HandleIsAlone
  <2>3. CASE \/ \E c \in Codes : RedisForgets(c)
             \/ \E k \in Counters : CountCall(k)
             \/ Tick \/ AllOver \/ UNCHANGED vars
    BY <2>3 DEF RedisForgets, CountCall, Tick, AllOver, vars, OwnState
  <2>4. CASE Crash
    <3>1. CASE pc[r] \in Over
      <4>1. pending[r] = "none" /\ pc'[r] = pc[r] /\ pending'[r] = "none"
        BY <1>2, <2>4, <3>1 DEF Crash, IInv, LockInv, Locking, Over
      <4> QED
        BY <2>4, <4>1 DEF Crash, OwnState
    <3>2. CASE pc[r] \notin Over
      <4>1. pc'[r] = "lost"
        BY <2>4, <3>2 DEF Crash
      <4>2. StepsLeft(r)' = 0 /\ StepsLeft(r) > 0
        BY <2>1, <3>2, <4>1, StepsLeftType DEF StepsLeft, Over
      <4> QED
        BY <4>2 DEF Nearer
    <3> QED
      BY <3>1, <3>2
  <2> QED
    BY <1>2, <2>2, <2>3, <2>4 DEF Next
<1>3. IInv /\ [Next]_vars => \A r \in Reqs : Nearer(r) \/ UNCHANGED OwnState(r)
  BY <1>2
<1> QED
  BY <1>1, <1>3, Inductive, TypeCorrect, PTL DEF Spec
===============================================================================
