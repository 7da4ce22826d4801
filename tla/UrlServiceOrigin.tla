--------------------------- MODULE UrlServiceOrigin ---------------------------
(***************************************************************************)
(* Proofs about redirects: where the URLs they answer come from, through   *)
(* cache, re-warm and rolled-back creates, and what their clicks refer to. *)
(***************************************************************************)
EXTENDS UrlServiceProofs

(* A handler that has not chosen its row has none; before the arrival nothing *)
(* was asked for or answered.                                                  *)
FreshInv ==
  \A r \in Reqs :
    /\ pc[r] \in {"idle", "check_alias", "pick_code"} => row[r] = None
    /\ pc[r] = "idle" => job[r] = None /\ answer[r].status = 0 /\ ~answer[r].track

(* What is cached, and what a redirect is about to answer, has an origin. *)
OriginInv ==
  /\ \A c \in Codes : cache[c] # None => HasOrigin(c, cache[c].url)
  /\ \A r \in Reqs : answer[r].status = 302 => HasOrigin(job[r].code, answer[r].url)

(* A redirect counts a click for a link that was committed before it answered. *)
Clicked == IF CommitsFirst THEN {"end", "lost"} ELSE {"commit", "end", "lost"}
Redirected(r) ==
  answer[r].status = 302 /\ job[r].op = "redirect" /\ urls[job[r].code] # None

Counting(r) ==
  /\ pc[r] = "get_url" => answer[r].status = 302
  /\ answer[r].track => Redirected(r)
  /\ pc[r] = "background" => r \in sent /\ answer[r].track
  /\ r \in clicks => r \in sent /\ pc[r] \in Clicked /\ Redirected(r)
ClickInv == \A r \in Reqs : Counting(r)

RedirectInv == FreshInv /\ OriginInv /\ ClickInv
-------------------------------------------------------------------------------
(* What a request's own step does to its job, its row and its answer *)

(* A job is given once, on arrival. *)
LEMMA JobKept ==
  ASSUME IInv, [Next]_vars, NEW r \in Reqs, pc[r] # "idle"
  PROVE  job'[r] = job[r] /\ pc'[r] # "idle"
<1> USE DEF IInv, TypeOK
<1>1. ASSUME NEW s, Abort(r, s) PROVE job' = job /\ pc'[r] # "idle"
  BY <1>1 DEF Abort
<1>2. CASE Arrive(r)
  BY <1>2 DEF Arrive
<1>3. CASE Create(r)
  BY <1>1, <1>3 DEF Create, CheckAlias, PickCode, Insert, WarmCache, Finish, AfterHandler
<1>4. CASE Redirect(r) \/ Fetch(r)
  BY <1>1, <1>4 DEF Redirect, CacheGet, Select, Rewarm, GetUrl, Fetch, Finish, AfterHandler
<1>5. CASE Delete(r)
  BY <1>1, <1>5 DEF Delete, Find, Mark, Evict, Finish, AfterHandler
<1>6. CASE Leave(r)
  BY <1>1, <1>6 DEF Leave, Commit, CommitFails, Send, RecordClick, QueryFails,
                    AfterCommit, AfterSend, AfterResponse
<1>7. ASSUME NEW q \in Reqs, q # r, Arrive(q) \/ Handle(q)
      PROVE  job'[r] = job[r] /\ pc'[r] = pc[r]
  BY <1>7, Local
<1>8. CASE \A q \in Reqs : ~Arrive(q) /\ ~Handle(q)
  BY <1>8, Outside
<1> QED
  BY <1>2, <1>3, <1>4, <1>5, <1>6, <1>7, <1>8 DEF Handle

(* A row is chosen once, by a lookup, and marked when it is deleted. *)
LEMMA RowKept ==
  ASSUME IInv, [Next]_vars, NEW r \in Reqs, row'[r] # row[r]
  PROVE  /\ pc[r] \in {"check_alias", "pick_code", "select", "find", "mark"}
         /\ pc'[r] \notin {"idle", "check_alias", "pick_code"}
<1> USE DEF IInv, TypeOK
<1>1. ASSUME NEW s, Abort(r, s) PROVE row' = row
  BY <1>1 DEF Abort
<1>2. CASE Arrive(r) \/ Leave(r)
  BY <1>1, <1>2 DEF Arrive, Leave, Commit, CommitFails, Send, RecordClick, QueryFails
<1>3. CASE Create(r)
  BY <1>1, <1>3 DEF Create, CheckAlias, PickCode, Insert, WarmCache
<1>4. CASE Redirect(r) \/ Fetch(r)
  BY <1>1, <1>4 DEF Redirect, CacheGet, Select, Rewarm, GetUrl, Fetch
<1>5. CASE Delete(r)
  BY <1>1, <1>5 DEF Delete, Find, Mark, Evict
<1>6. ASSUME NEW q \in Reqs, q # r, Arrive(q) \/ Handle(q) PROVE FALSE
  BY <1>6, Local
<1>7. CASE \A q \in Reqs : ~Arrive(q) /\ ~Handle(q)
  BY <1>7, Outside
<1> QED
  BY <1>2, <1>3, <1>4, <1>5, <1>6, <1>7 DEF Handle

(* Whoever is about to choose its row was so before, or has just arrived. *)
LEMMA ChoosersStep ==
  ASSUME IInv, [Next]_vars, NEW r \in Reqs, pc'[r] \in {"idle", "check_alias", "pick_code"}
  PROVE  /\ pc[r] \in {"idle", "check_alias", "pick_code"}
         /\ pc'[r] = "idle" => /\ pc[r] = "idle" /\ answer'[r] = answer[r]
                             /\ job'[r] = job[r]
<1> USE DEF IInv, TypeOK
<1>1. ASSUME NEW s, Abort(r, s) PROVE pc'[r] = "end"
  BY <1>1 DEF Abort
<1>2. CASE Arrive(r)
  BY <1>2 DEF Arrive, FirstStage
<1>3. CASE Create(r)
  BY <1>1, <1>3 DEF Create, CheckAlias, PickCode, Insert, WarmCache, Finish, AfterHandler
<1>4. CASE Redirect(r) \/ Fetch(r)
  BY <1>1, <1>4 DEF Redirect, CacheGet, Select, Rewarm, GetUrl, Fetch, Finish, AfterHandler
<1>5. CASE Delete(r)
  BY <1>1, <1>5 DEF Delete, Find, Mark, Evict, Finish, AfterHandler
<1>6. CASE Leave(r)
  BY <1>1, <1>6 DEF Leave, Commit, CommitFails, Send, RecordClick, QueryFails,
                    AfterCommit, AfterSend, AfterResponse
<1>7. ASSUME NEW q \in Reqs, q # r, Arrive(q) \/ Handle(q)
      PROVE  pc'[r] = pc[r] /\ answer'[r] = answer[r] /\ job'[r] = job[r]
  BY <1>7, Local
<1>8. CASE \A q \in Reqs : ~Arrive(q) /\ ~Handle(q)
  BY <1>8, Outside
<1> QED
  BY <1>2, <1>3, <1>4, <1>5, <1>6, <1>7, <1>8 DEF Handle

(* FreshInv is kept by every step. *)
LEMMA FreshStep ==
  ASSUME IInv, FreshInv, [Next]_vars
  PROVE  FreshInv'
<1> SUFFICES ASSUME NEW r \in Reqs
             PROVE  /\ pc'[r] \in {"idle", "check_alias", "pick_code"} => row'[r] = None
                    /\ pc'[r] = "idle" => /\ job'[r] = None
                                          /\ answer'[r].status = 0 /\ ~answer'[r].track
  BY DEF FreshInv
<1>1. pc'[r] \in {"idle", "check_alias", "pick_code"} => row'[r] = row[r]
  BY RowKept
<1> QED
  BY <1>1, ChoosersStep DEF FreshInv

-------------------------------------------------------------------------------
(* Origins *)

(* What a create asked for stays on record. *)
LEMMA AskedKept ==
  ASSUME IInv, FreshInv, [Next]_vars, NEW q \in Reqs,
         job[q].op = "create", row[q] # None
  PROVE  job'[q] = job[q] /\ row'[q] = row[q]
<1>1. pc[q] \notin {"idle", "check_alias", "pick_code"}
  BY DEF FreshInv
<1>2. pc[q] \notin {"select", "find", "mark"}
  BY DEF IInv, StageInv
<1> QED
  BY <1>1, <1>2, JobKept, RowKept

(* A committed row has the origin that its request is. *)
LEMMA TableHasOrigin ==
  ASSUME IInv, NEW c \in Codes, urls[c] # None
  PROVE  HasOrigin(c, urls[c].url)
<1>1. PICK q \in Reqs : /\ urls[c].id = q /\ urls[c].code = c
                        /\ Adds(q) /\ SameLink(row[q], urls[c]) /\ pc[q] \in Committed
  BY DEF IInv, TableInv
<1>2. job[q] # None
  BY <1>1 DEF IInv, StageInv, Committed
<1>3. row[q].url = job[q].url
  BY <1>1 DEF Adds, NewRow
<1> QED
  BY <1>1, <1>2, <1>3 DEF HasOrigin, Asked, Adds, SameLink

(* So has the row of a handler that is about to cache it. *)
LEMMA WarmerHasOrigin ==
  ASSUME IInv, NEW r \in Reqs, pc[r] \in {"warm", "rewarm"}
  PROVE  HasOrigin(row[r].code, row[r].url)
<1>1. CASE pc[r] = "warm"
  <2>1. Adds(r) /\ job[r] # None
    BY <1>1 DEF IInv, RowInv, StageInv
  <2> QED
    BY <2>1 DEF HasOrigin, Asked, Adds, NewRow
<1>2. CASE pc[r] = "rewarm"
  <2>1. Reads(r) /\ row[r].code \in Codes
    BY <1>2 DEF IInv, RowInv, Reads, TypeOK, Row
  <2> QED
    BY <2>1, TableHasOrigin DEF Reads, SameLink, Stored
<1> QED
  BY <1>1, <1>2

(* Under a counter's key the cache holds its count, whoever else writes. *)
LEMMA CounterStep ==
  ASSUME IInv, [Next]_vars, NEW c \in Counters, cache'[c] # None, cache'[c] # cache[c]
  PROVE  cache'[c].url = Tally
<1> USE DEF IInv, TypeOK, shared
<1>0. c \in Codes
  BY ConstantsAssumption
<1>1. ASSUME NEW r \in Reqs, NEW s, Abort(r, s) PROVE FALSE
  BY <1>1 DEF Abort
<1>2. ASSUME NEW r \in Reqs, Create(r) PROVE FALSE
  <2>1. WarmCache(r)
    BY <1>1, <1>2 DEF Create, CheckAlias, PickCode, Insert
  <2>2. row[r].code \notin Counters
    BY <2>1 DEF WarmCache, RowInv, Adds
  <2> QED
    BY <1>0, <2>1, <2>2 DEF WarmCache, CacheSet
<1>3. ASSUME NEW r \in Reqs, Redirect(r) \/ Fetch(r) PROVE FALSE
  <2>1. Rewarm(r)
    BY <1>1, <1>3 DEF Redirect, CacheGet, Select, GetUrl, Fetch
  <2>2. row[r].code \in Codes /\ Stored(r) # None /\ row[r].code = job[r].code
    BY <2>1 DEF Rewarm, RowInv, Reads, SameLink, Row
  <2>3. row[r].code \notin Counters
    BY <2>2 DEF TableInv, Adds, SameLink, Stored
  <2> QED
    BY <1>0, <2>1, <2>3 DEF Rewarm, CacheSet
<1>4. ASSUME NEW r \in Reqs, Delete(r) PROVE FALSE
  BY <1>0, <1>1, <1>4 DEF Delete, Find, Mark, Evict
<1>5. ASSUME NEW r \in Reqs, Leave(r) \/ Arrive(r) PROVE FALSE
  BY <1>1, <1>5 DEF Leave, Commit, CommitFails, Send, RecordClick, QueryFails, Arrive
<1>6. CASE \E k \in Counters : CountCall(k)
  BY <1>0, <1>6 DEF CountCall
<1>7. CASE Tick \/ Crash \/ AllOver \/ UNCHANGED vars \/ (\E d \in Codes : RedisForgets(d))
  BY <1>0, <1>7 DEF Tick, Crash, AllOver, RedisForgets, vars
<1> QED
  BY <1>2, <1>3, <1>4, <1>5, <1>6, <1>7 DEF Next, Handle

(* What was asked for stays on record, and a counter stays one. *)
LEMMA OriginKept ==
  ASSUME IInv, FreshInv, [Next]_vars, NEW c, NEW url, HasOrigin(c, url)
  PROVE  \/ c \in Counters /\ url = Tally
         \/ c \notin Counters /\ url \in ValidUrls /\ \E q \in Reqs : Asked(q, c, url)'
<1>1. CASE c \in Counters
  BY <1>1 DEF HasOrigin
<1>2. CASE c \notin Counters
  <2>1. PICK q \in Reqs : Asked(q, c, url)
    BY <1>2 DEF HasOrigin
  <2>2. job'[q] = job[q] /\ row'[q] = row[q]
    BY <2>1, AskedKept DEF Asked
  <2> QED
    BY <1>2, <2>1, <2>2 DEF HasOrigin, Asked
<1> QED
  BY <1>1, <1>2

(* A 302 is prepared from the cache or from the row that was read. *)
LEMMA AnswerStep ==
  ASSUME IInv, [Next]_vars, NEW r \in Reqs, answer'[r].status = 302
  PROVE  \/ answer[r].status = 302 /\ answer'[r].url = answer[r].url
         \/ /\ pc[r] = "cache_get" /\ cache[job[r].code] # None
            /\ answer'[r].url = cache[job[r].code].url
         \/ pc[r] = "rewarm" /\ answer'[r].url = row[r].url
<1> USE DEF IInv, TypeOK, Answer
<1>1. ASSUME NEW s, Abort(r, s) PROVE answer'[r].status = s
  BY <1>1 DEF Abort, Reply
<1>2. CASE Arrive(r)
  BY <1>2 DEF Arrive, Reply
<1>3. CASE Create(r)
  BY <1>1, <1>3 DEF Create, CheckAlias, PickCode, Insert, WarmCache, Finish, Reply
<1>4. CASE Redirect(r) \/ Fetch(r)
  <2>1. CASE CacheGet(r)
    BY <2>1 DEF CacheGet, Reply
  <2>2. CASE Select(r) \/ Fetch(r)
    BY <1>1, <2>2 DEF Select, Fetch, Finish, Reply
  <2>3. CASE Rewarm(r)
    BY <2>3 DEF Rewarm, Reply
  <2>4. CASE GetUrl(r)
    BY <2>4 DEF GetUrl, Finish
  <2> QED
    BY <1>4, <2>1, <2>2, <2>3, <2>4 DEF Redirect
<1>5. CASE Delete(r)
  BY <1>1, <1>5 DEF Delete, Find, Mark, Evict, Finish, Reply
<1>6. CASE Leave(r)
  BY <1>1, <1>6 DEF Leave, Commit, CommitFails, Send, RecordClick, QueryFails, Reply
<1>7. ASSUME NEW q \in Reqs, q # r, Arrive(q) \/ Handle(q) PROVE answer'[r] = answer[r]
  BY <1>7, Local
<1>8. CASE \A q \in Reqs : ~Arrive(q) /\ ~Handle(q)
  BY <1>8, Outside
<1> QED
  BY <1>2, <1>3, <1>4, <1>5, <1>6, <1>7, <1>8 DEF Handle

(* OriginInv is kept by every step. *)
LEMMA OriginStep ==
  ASSUME IInv, FreshInv, OriginInv, [Next]_vars
  PROVE  OriginInv'
<1>1. ASSUME NEW c \in Codes, cache'[c] # None
      PROVE  HasOrigin(c, cache[c].url)'
  <2>1. HasOrigin(c, cache'[c].url)
    <3>1. CASE cache'[c] = cache[c]
      BY <1>1, <3>1 DEF OriginInv
    <3>2. CASE c \in Counters /\ cache'[c] # cache[c]
      BY <1>1, <3>2, CounterStep DEF HasOrigin
    <3>3. CASE c \notin Counters /\ cache'[c] # cache[c]
      <4>1. PICK r \in Reqs : /\ pc[r] \in {"warm", "rewarm"} /\ row[r].code = c
                              /\ cache'[c].url = row[r].url
        BY <1>1, <3>3, CacheStep
      <4> QED
        BY <4>1, WarmerHasOrigin
    <3> QED
      BY <3>1, <3>2, <3>3
  <2> QED
    BY <2>1, OriginKept DEF HasOrigin, Asked
<1>2. ASSUME NEW r \in Reqs, answer'[r].status = 302
      PROVE  HasOrigin(job[r].code, answer[r].url)'
  <2>1. pc[r] # "idle"
    BY <1>2, AnswerStep DEF FreshInv
  <2>2. job'[r] = job[r]
    BY <2>1, JobKept
  <2>3. HasOrigin(job[r].code, answer'[r].url)
    <3>1. CASE answer[r].status = 302 /\ answer'[r].url = answer[r].url
      BY <3>1 DEF OriginInv
    <3>2. CASE /\ pc[r] = "cache_get" /\ cache[job[r].code] # None
               /\ answer'[r].url = cache[job[r].code].url
      <4>1. job[r].code \in Codes
        BY <3>2 DEF IInv, TypeOK, StageInv, Job
      <4> QED
        BY <3>2, <4>1 DEF OriginInv
    <3>3. CASE pc[r] = "rewarm" /\ answer'[r].url = row[r].url
      <4>1. row[r].code = job[r].code
        BY <3>3 DEF IInv, RowInv, Reads
      <4> QED
        BY <3>3, <4>1, WarmerHasOrigin
    <3> QED
      BY <1>2, <3>1, <3>2, <3>3, AnswerStep
  <2> QED
    BY <2>2, <2>3, OriginKept DEF HasOrigin, Asked
<1> QED
  BY <1>1, <1>2 DEF OriginInv

-------------------------------------------------------------------------------
(* Clicks *)

(* Where a redirect stands decides what its answer is: after the cache or the row *)
(* was read it is a 302, and a scheduled click rides on a response that has left.  *)
LEMMA ClickStep ==
  ASSUME IInv, FreshInv, ClickInv, [Next]_vars
  PROVE  ClickInv'
<1> SUFFICES ASSUME NEW r \in Reqs PROVE Counting(r)'
  BY DEF ClickInv
<1>0. Counting(r)
  BY DEF ClickInv
<1> USE <1>0 DEF IInv, TypeOK, Counting, shared
<1>1. ASSUME pc[r] # "idle", Redirected(r), answer'[r].status = 302
      PROVE  Redirected(r)'
  <2>1. job'[r] = job[r] /\ job[r].code \in Codes
    BY <1>1, JobKept DEF StageInv, Job, Redirected
  <2> QED
    BY <1>1, <2>1, BindingKept DEF SameLink, Redirected
<1>2. ASSUME NEW s, pc[r] \notin Clicked, Abort(r, s) PROVE Counting(r)'
  <2>1. /\ pc'[r] = "end" /\ ~answer'[r].track
        /\ r \notin clicks'
    BY <1>2 DEF Abort, Reply
  <2> QED
    BY <2>1
<1>3. CASE Arrive(r)
  <2>1. pc[r] = "idle" /\ clicks' = clicks
    BY <1>3 DEF Arrive
  <2>2. pc'[r] \notin {"get_url", "background"}
    BY <1>3 DEF Arrive, FirstStage
  <2>3. ~answer'[r].track
    BY <1>3, <2>1 DEF Arrive, Reply, FreshInv
  <2>4. r \notin clicks
    BY <2>1 DEF Clicked
  <2> QED
    BY <2>1, <2>2, <2>3, <2>4
<1>4. CASE Create(r) \/ Fetch(r) \/ Delete(r)
  <2>1. /\ job[r].op # "redirect" /\ pc[r] \notin Clicked
        /\ ~answer[r].track /\ r \notin clicks
    BY <1>4 DEF Create, CheckAlias, PickCode, Insert, WarmCache, Fetch,
                Delete, Find, Mark, Evict, StageInv, Clicked, Redirected
  <2>2. CASE \E s : Abort(r, s)
    BY <1>2, <2>1, <2>2
  <2>3. CASE ~\E s : Abort(r, s)
    <3>1. clicks' = clicks /\ pc'[r] \notin {"get_url", "background"} /\ ~answer'[r].track
      BY <1>4, <2>1, <2>3
      DEF Create, CheckAlias, PickCode, Insert, WarmCache, Fetch,
          Delete, Find, Mark, Evict, Finish, AfterHandler, Reply
    <3> QED
      BY <2>1, <3>1
  <2> QED
    BY <2>2, <2>3
<1>5. CASE CacheGet(r) \/ Select(r) \/ Rewarm(r)
  <2>1. pc[r] \notin Clicked /\ r \notin clicks /\ pc[r] # "idle"
    BY <1>5 DEF CacheGet, Select, Rewarm, Clicked
  <2>2. CASE \E s : Abort(r, s)
    BY <1>2, <2>1, <2>2
  <2>3. CASE ~\E s : Abort(r, s)
    <3>1. /\ clicks' = clicks
          /\ \/ pc'[r] = "get_url" /\ answer'[r].status = 302 /\ ~answer'[r].track
             \/ pc'[r] \in {"select", "rewarm"} /\ answer'[r] = answer[r]
      BY <1>5, <2>3 DEF CacheGet, Select, Rewarm, Reply
    <3> QED
      BY <1>1, <2>1, <3>1 DEF Redirected
  <2> QED
    BY <2>2, <2>3
<1>6. CASE GetUrl(r)
  <2>1. /\ pc[r] = "get_url" /\ clicks' = clicks /\ urls' = urls /\ job' = job
        /\ pc'[r] \notin {"get_url", "background"}
    BY <1>6 DEF GetUrl, Finish, AfterHandler
  <2>2. r \notin clicks /\ job[r].op = "redirect"
    BY <2>1 DEF Clicked, StageInv
  <2>3. answer'[r].status = 302 /\ (answer'[r].track <=> Tracked(urls[job[r].code]))
    <3>1. answer[r] \in Answer /\ answer[r].status = 302
      BY <2>1
    <3>2. answer'[r] = [answer[r] EXCEPT !.track = Tracked(urls[job[r].code])]
      BY <1>6 DEF GetUrl, Finish
    <3> QED
      BY <3>1, <3>2 DEF Answer
  <2> QED
    BY <2>1, <2>2, <2>3 DEF Redirected, Tracked, Live
<1>7. CASE Leave(r)
  <2>1. CASE Commit(r)
    <3>1. /\ pc[r] = "commit" /\ pc'[r] = AfterCommit
          /\ answer' = answer /\ sent' = sent /\ clicks' = clicks
      BY <2>1 DEF Commit
    <3> QED
      BY <1>1, <3>1 DEF AfterCommit, Clicked, Redirected
  <2>2. CASE CommitFails(r)
    <3>1. /\ pc[r] = "commit" /\ pc'[r] = "end" /\ sent' = sent \cup {r} /\ clicks' = clicks
          /\ \/ answer'[r] = answer[r]
             \/ r \notin sent /\ ~answer'[r].track
      BY <2>2 DEF CommitFails, Reply
    <3> QED
      BY <1>1, <3>1 DEF Clicked, Redirected
  <2>3. CASE Send(r)
    <3>1. /\ pc[r] = "send" /\ pc'[r] = AfterSend(r) /\ sent' = sent \cup {r}
          /\ answer' = answer /\ clicks' = clicks
      BY <2>3 DEF Send
    <3> QED
      BY <1>1, <3>1 DEF AfterSend, AfterResponse, Clicked, Redirected
  <2>4. CASE RecordClick(r)
    <3>1. /\ pc[r] = "background" /\ pc'[r] = AfterResponse /\ sent' = sent
          /\ answer' = answer /\ clicks' \subseteq clicks \cup {r}
      BY <2>4 DEF RecordClick
    <3> QED
      BY <1>1, <3>1 DEF AfterResponse, Clicked, Redirected
  <2>5. CASE QueryFails(r)
    BY <1>2, <2>5 DEF QueryFails, DbStages, Clicked
  <2> QED
    BY <1>7, <2>1, <2>2, <2>3, <2>4, <2>5 DEF Leave
<1>8. ASSUME /\ pc'[r] = pc[r] \/ pc'[r] = "lost"
             /\ answer'[r] = answer[r] /\ (r \in sent' <=> r \in sent)
             /\ r \in clicks' <=> r \in clicks
      PROVE  Counting(r)'
  BY <1>1, <1>8 DEF FreshInv, Clicked, Redirected
<1>9. ASSUME NEW q \in Reqs, q # r, Arrive(q) \/ Handle(q)
      PROVE  Counting(r)'
  BY <1>8, <1>9, Local
<1>10. CASE \A q \in Reqs : ~Arrive(q) /\ ~Handle(q)
  BY <1>8, <1>10, Outside
<1> QED
  BY <1>3, <1>4, <1>5, <1>6, <1>7, <1>9, <1>10 DEF Handle, Redirect

-------------------------------------------------------------------------------
(* The theorems *)

(* The invariant of redirects, whatever the faults and whichever of commit and *)
(* response comes first.                                                       *)
THEOREM RedirectInvariant == Spec => []RedirectInv
<1>1. Init => RedirectInv
  <2> SUFFICES ASSUME Init PROVE RedirectInv
    OBVIOUS
  <2>1. \A r \in Reqs : answer[r].status = 0 /\ ~answer[r].track
    BY DEF Init, Reply
  <2> QED
    BY <2>1 DEF Init, RedirectInv, FreshInv, OriginInv, ClickInv, Counting
<1>2. IInv /\ RedirectInv /\ [Next]_vars => RedirectInv'
  BY FreshStep, OriginStep, ClickStep DEF RedirectInv
<1> QED
  BY <1>1, <1>2, Inductive, PTL DEF Spec

(* Every redirect of a short code leads where a create that passed validate_url    *)
(* asked the code to lead, whether it was answered from the cache, from the table  *)
(* or from what a rolled-back create left; that of a counter's key to its count.   *)
THEOREM RedirectsHaveOrigins == Spec => []RedirectHasOrigin
<1>1. IInv /\ RedirectInv => RedirectHasOrigin
  BY DEF IInv, TypeOK, RedirectInv, OriginInv, HasOrigin, Asked, RedirectHasOrigin
<1> QED
  BY <1>1, Inductive, RedirectInvariant, PTL

(* No click is ever written for a link that is not committed, or for a redirect *)
(* that was not answered.                                                       *)
THEOREM ClicksAreOfLinks == Spec => []ClicksReferToLinks
<1>1. IInv /\ RedirectInv => ClicksReferToLinks
  BY DEF IInv, TypeOK, RedirectInv, ClickInv, Counting, Redirected, ClicksReferToLinks
<1> QED
  BY <1>1, Inductive, RedirectInvariant, PTL

-------------------------------------------------------------------------------
(* The end of stale redirects *)

(* A link that is deleted or expired stays so. *)
LEMMA DeadKept ==
  ASSUME IInv, [Next]_vars, NEW c \in Codes, Dead(c)
  PROVE  Dead(c)'
<1>1. now \in Nat /\ now' \in Nat /\ now <= now'
  <2>1. now \in Nat
    BY DEF IInv, TypeOK
  <2>2. now' = now \/ now' = now + 1
    <3> USE DEF shared
    <3>1. ASSUME NEW r \in Reqs, NEW s, Abort(r, s) PROVE now' = now
      BY <3>1 DEF Abort
    <3>2. ASSUME NEW r \in Reqs, Arrive(r) \/ Create(r) PROVE now' = now
      BY <3>1, <3>2 DEF Arrive, Create, CheckAlias, PickCode, Insert, WarmCache
    <3>3. ASSUME NEW r \in Reqs, Redirect(r) \/ Fetch(r) \/ Delete(r) PROVE now' = now
      BY <3>1, <3>3 DEF Redirect, CacheGet, Select, Rewarm, GetUrl, Fetch,
                        Delete, Find, Mark, Evict
    <3>4. ASSUME NEW r \in Reqs, Leave(r) PROVE now' = now
      BY <3>1, <3>4 DEF Leave, Commit, CommitFails, Send, RecordClick, QueryFails
    <3> QED
      BY <3>2, <3>3, <3>4 DEF Next, Handle, Tick, RedisForgets, CountCall, Crash, AllOver, vars
  <2> QED
    BY <2>1, <2>2
<1>2. /\ urls[c] # None /\ SameLink(urls[c], urls'[c])
      /\ urls[c].deleted => urls'[c].deleted
  BY BindingKept DEF Dead
<1>3. urls[c].exp \in Nat \cup {None}
  BY <1>2 DEF IInv, TypeOK, Row
<1> QED
  BY <1>1, <1>2, <1>3 DEF Dead, SameLink

(* A redirect comes to its re-warm by a lookup that found a live link. *)
LEMMA FillingStep ==
  ASSUME IInv, [Next]_vars, NEW r \in Reqs, pc'[r] = "rewarm"
  PROVE  \/ pc[r] = "rewarm" /\ row'[r] = row[r]
         \/ /\ pc[r] = "select" /\ row'[r] = urls[job[r].code]
            /\ Live(urls[job[r].code]) /\ ~IsExpired(urls[job[r].code])
<1> USE DEF IInv, TypeOK
<1>1. ASSUME NEW s, Abort(r, s) PROVE FALSE
  BY <1>1 DEF Abort
<1>2. CASE Arrive(r)
  BY <1>2 DEF Arrive, FirstStage
<1>3. CASE Create(r) \/ Fetch(r) \/ Delete(r)
  BY <1>1, <1>3 DEF Create, CheckAlias, PickCode, Insert, WarmCache, Fetch,
                    Delete, Find, Mark, Evict, Finish, AfterHandler
<1>4. CASE Redirect(r)
  BY <1>1, <1>4 DEF Redirect, CacheGet, Select, Rewarm, GetUrl, Live, Finish, AfterHandler
<1>5. CASE Leave(r)
  BY <1>1, <1>5 DEF Leave, Commit, CommitFails, Send, RecordClick, QueryFails,
                    AfterCommit, AfterSend, AfterResponse
<1>6. ASSUME NEW q \in Reqs, q # r, Arrive(q) \/ Handle(q)
      PROVE  pc'[r] = pc[r] /\ row'[r] = row[r]
  BY <1>6, Local
<1>7. CASE \A q \in Reqs : ~Arrive(q) /\ ~Handle(q)
  BY <1>7, Outside
<1> QED
  BY <1>2, <1>3, <1>4, <1>5, <1>6, <1>7 DEF Handle

(* A dead link that has left the cache is never cached again, whatever creates, *)
(* redirects, rollbacks and crashes follow: nobody can be about to write it.    *)
THEOREM DeadLinksStayCold == Spec => DeadStaysCold
<1>1. ASSUME IInv, [Next]_vars, NEW c \in Codes, ColdDead(c) PROVE ColdDead(c)'
  <2>1. Dead(c) /\ Dead(c)' /\ urls[c] # None
    BY <1>1, DeadKept DEF ColdDead, Dead
  <2>2. cache'[c] = None
    <3> SUFFICES ASSUME cache'[c] # None PROVE FALSE
      OBVIOUS
    <3>0. c \notin Counters
      <4>1. urls[c] # None
        BY <2>1
      <4>2. PICK q \in Reqs : Adds(q) /\ SameLink(row[q], urls[c]) /\ urls[c].code = c
        BY <1>1, <4>1 DEF IInv, TableInv
      <4> QED
        BY <4>2 DEF Adds, SameLink
    <3>1. PICK r \in Reqs : pc[r] \in {"warm", "rewarm"} /\ row[r].code = c
      BY <1>1, <3>0, CacheStep DEF ColdDead
    <3>2. pc[r] = "warm"
      BY <1>1, <3>1 DEF ColdDead, Filling
    <3> QED
      BY <1>1, <2>1, <3>1, <3>2 DEF IInv, LockInv, Stored
  <2>3. ASSUME NEW r \in Reqs, pc'[r] = "rewarm", row'[r].code = c PROVE FALSE
    <3>1. pc[r] # "rewarm" \/ row'[r] # row[r]
      BY <1>1, <2>3 DEF ColdDead, Filling
    <3>2. /\ pc[r] = "select" /\ row'[r] = urls[job[r].code] /\ Live(row'[r]) /\ ~IsExpired(row'[r])
      BY <1>1, <2>3, <3>1, FillingStep
    <3>3. job[r].code \in Codes
      BY <1>1, <3>2 DEF IInv, StageInv, TypeOK, Job
    <3>4. row'[r].code = job[r].code
      BY <1>1, <3>2, <3>3 DEF IInv, TableInv, Live
    <3> QED
      BY <2>1, <2>3, <3>2, <3>4 DEF Dead, Live, IsExpired
  <2> QED
    BY <2>1, <2>2, <2>3 DEF ColdDead, Filling
<1>2. IInv /\ [Next]_vars => [\A c \in Codes : ColdDead(c) => ColdDead(c)']_vars
  BY <1>1
<1> QED
  BY <1>2, Inductive, PTL DEF Spec, DeadStaysCold
===============================================================================
