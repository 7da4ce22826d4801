--------------------------- MODULE UrlServiceClients ---------------------------
(***************************************************************************)
(* Proofs about what a client may conclude from an answer it already has:  *)
(* a confirmed create is found and a confirmed delete stays, for clients   *)
(* that send their next request after the answer to the last.              *)
(***************************************************************************)
EXTENDS UrlServiceHistory, UrlServiceRefinement

(* Up to its last await a handler has answered nothing, and a metadata read *)
(* never has a row.                                                          *)
Working == {"idle", "check_alias", "pick_code", "insert", "warm", "cache_get", "select",
            "rewarm", "fetch", "find", "mark", "evict"}
AnswerlessInv ==
  \A q \in Reqs :
    /\ pc[q] \in Working => answer[q].status = 0
    /\ job[q] # None /\ job[q].op = "metadata" => row[q] = None

(* What q knew of r when it arrived still holds. *)
KnowsInv ==
  \A q, r \in Reqs : r \in before[q] =>
    pc[q] # "idle" /\ r \in sent /\ answer[r].status \in {201, 204}

(* A 404 for a code whose creation q knew of means that the link was deleted. *)
FreshFor(q, r) ==
  r \in before[q] /\ answer[r].status = 201 /\ job[q].code = row[r].code
    /\ answer[q].status = 404
  => Stored(r) # None /\ Stored(r).deleted

(* Once q knows of a deletion, its handler does not get as far as the UPDATE. *)
Touches(q, r) == job[q].code = job[r].code \/ (row[q] # None /\ row[q].code = job[r].code)
GoneFor(q, r) ==
  r \in before[q] /\ answer[r].status = 204 /\ Touches(q, r)
  => answer[q].status \notin {200, 201, 204} /\ pc[q] \notin {"mark", "evict"}

ClientInv ==
  /\ FreshInv /\ AnswerlessInv /\ KnowsInv
  /\ \A q, r \in Reqs : FreshFor(q, r) /\ GoneFor(q, r)
-------------------------------------------------------------------------------
(* What a request's own step answers, and what it knows by then *)

(* Every status has its await: a 404 finds no live row, a 200 finds one. *)
Answers(q) ==
  \/ answer'[q].status = answer[q].status
  \/ pc[q] = "idle" /\ answer'[q].status = 422
  \/ /\ answer'[q].status = 404 /\ pc[q] # "idle" /\ ~Live(urls[job[q].code])
  \/ /\ answer'[q].status = 200 /\ pc[q] = "fetch" /\ Live(urls[job[q].code])
  \/ answer'[q].status = 201 /\ pc[q] = "warm"
  \/ answer'[q].status = 204 /\ pc[q] = "evict"
  \/ answer'[q].status \in {302, 403, 409, 410, 500} /\ pc[q] # "idle"

(* A request answers as Answers says. *)
LEMMA AnswersStep ==
  ASSUME IInv, [Next]_vars, NEW q \in Reqs
  PROVE  Answers(q)
<1> USE DEF IInv, TypeOK, Answer, Answers
<1>1. ASSUME NEW s \in {403, 409, 410, 500}, Abort(q, s), pc[q] # "idle" PROVE Answers(q)
  BY <1>1 DEF Abort, Reply
<1>2. ASSUME Abort(q, 404), pc[q] # "idle", ~Live(urls[job[q].code]) PROVE Answers(q)
  BY <1>2 DEF Abort, Reply
<1>3. CASE Arrive(q)
  BY <1>3 DEF Arrive, Reply
<1>4. CASE Create(q)
  BY <1>1, <1>4 DEF Create, CheckAlias, PickCode, Insert, WarmCache, Finish, Reply
<1>5. CASE Redirect(q) \/ Fetch(q)
  <2>1. CASE CacheGet(q) \/ Rewarm(q)
    BY <2>1 DEF CacheGet, Rewarm, Reply
  <2>2. CASE Select(q)
    BY <1>1, <1>2, <2>2 DEF Select
  <2>3. CASE Fetch(q)
    BY <1>2, <2>3 DEF Fetch, Finish, Reply
  <2>4. CASE GetUrl(q)
    BY <2>4 DEF GetUrl, Finish
  <2> QED
    BY <1>5, <2>1, <2>2, <2>3, <2>4 DEF Redirect
<1>6. CASE Delete(q)
  BY <1>1, <1>2, <1>6 DEF Delete, Find, Mark, Evict, Finish, Reply
<1>7. CASE Leave(q)
  BY <1>1, <1>7 DEF Leave, Commit, CommitFails, Send, RecordClick, QueryFails, Reply, DbStages
<1>8. ASSUME NEW r \in Reqs, r # q, Arrive(r) \/ Handle(r) PROVE answer'[q] = answer[q]
  BY <1>8, Local
<1>9. CASE \A r \in Reqs : ~Arrive(r) /\ ~Handle(r)
  BY <1>9, Outside
<1> QED
  BY <1>3, <1>4, <1>5, <1>6, <1>7, <1>8, <1>9 DEF Handle

(* A handler still at work was so before, and has not answered meanwhile. *)
LEMMA WorkingStep ==
  ASSUME IInv, [Next]_vars, NEW q \in Reqs, pc'[q] \in Working
  PROVE  pc[q] \in Working /\ answer'[q] = answer[q]
<1> USE DEF IInv, TypeOK, Working
<1>1. ASSUME NEW s, Abort(q, s) PROVE pc'[q] = "end"
  BY <1>1 DEF Abort
<1>2. CASE Arrive(q)
  BY <1>2 DEF Arrive
<1>3. CASE Create(q)
  BY <1>1, <1>3 DEF Create, CheckAlias, PickCode, Insert, WarmCache, Finish, AfterHandler
<1>4. CASE Redirect(q) \/ Fetch(q)
  BY <1>1, <1>4 DEF Redirect, CacheGet, Select, Rewarm, GetUrl, Fetch, Finish, AfterHandler
<1>5. CASE Delete(q)
  BY <1>1, <1>5 DEF Delete, Find, Mark, Evict, Finish, AfterHandler
<1>6. CASE Leave(q)
  BY <1>1, <1>6 DEF Leave, Commit, CommitFails, Send, RecordClick, QueryFails,
                    AfterCommit, AfterSend, AfterResponse
<1>7. ASSUME NEW r \in Reqs, r # q, Arrive(r) \/ Handle(r)
      PROVE  pc'[q] = pc[q] /\ answer'[q] = answer[q]
  BY <1>7, Local
<1>8. CASE \A r \in Reqs : ~Arrive(r) /\ ~Handle(r)
  BY <1>8, Outside
<1> QED
  BY <1>2, <1>3, <1>4, <1>5, <1>6, <1>7, <1>8 DEF Handle

(* A deleter has found its row alive, and keeps it. *)
LEMMA DeleterStep ==
  ASSUME IInv, [Next]_vars, NEW q \in Reqs, pc'[q] \in {"mark", "evict"}
  PROVE  \/ /\ pc[q] \in {"mark", "evict"} /\ row[q] # None /\ row'[q] # None
            /\ row'[q].code = row[q].code
         \/ /\ pc[q] = "find" /\ Live(urls[job[q].code]) /\ row'[q] = urls[job[q].code]
<1> USE DEF IInv, TypeOK
<1>1. ASSUME NEW s, Abort(q, s) PROVE pc'[q] = "end"
  BY <1>1 DEF Abort
<1>2. CASE Arrive(q)
  BY <1>2 DEF Arrive, FirstStage
<1>3. CASE Create(q)
  BY <1>1, <1>3 DEF Create, CheckAlias, PickCode, Insert, WarmCache, Finish, AfterHandler
<1>4. CASE Redirect(q) \/ Fetch(q)
  BY <1>1, <1>4 DEF Redirect, CacheGet, Select, Rewarm, GetUrl, Fetch, Finish, AfterHandler
<1>5. CASE Delete(q)
  <2>1. pc[q] \in {"mark", "evict"} => row[q] \in Row /\ row[q] # None
    BY NoneAssumption DEF RowInv, MayDelete, Reads
  <2>2. CASE Find(q)
    BY <1>1, <2>2 DEF Find
  <2>3. CASE Mark(q)
    <3>1. row'[q] = [row[q] EXCEPT !.deleted = TRUE] /\ pc[q] = "mark"
      BY <2>3 DEF Mark
    <3>2. row'[q] \in Row /\ row'[q].code = row[q].code
      BY <2>1, <3>1 DEF Row
    <3> QED
      BY <2>1, <3>1, <3>2, NoneAssumption
  <2>4. CASE Evict(q)
    BY <2>4 DEF Evict, Finish, AfterHandler
  <2> QED
    BY <1>5, <2>2, <2>3, <2>4 DEF Delete
<1>6. CASE Leave(q)
  BY <1>1, <1>6 DEF Leave, Commit, CommitFails, Send, RecordClick, QueryFails,
                    AfterCommit, AfterSend, AfterResponse
<1>7. pc[q] \in {"mark", "evict"} => row[q] # None
  BY DEF RowInv, MayDelete, Reads
<1>8. ASSUME NEW r \in Reqs, r # q, Arrive(r) \/ Handle(r)
      PROVE  pc'[q] = pc[q] /\ row'[q] = row[q]
  BY <1>8, Local
<1>9. ASSUME \A r \in Reqs : ~Arrive(r) /\ ~Handle(r)
      PROVE  pc'[q] = pc[q] /\ row'[q] = row[q]
  BY <1>9, Outside
<1> QED
  BY <1>2, <1>3, <1>4, <1>5, <1>6, <1>7, <1>8, <1>9 DEF Handle

-------------------------------------------------------------------------------
(* The invariant's parts, step by step *)

(* AnswerlessInv is kept: rows are only chosen by creates, redirects and deletes. *)
LEMMA AnswerlessStep ==
  ASSUME IInv, FreshInv, AnswerlessInv, [Next]_vars
  PROVE  AnswerlessInv'
<1> SUFFICES ASSUME NEW q \in Reqs
             PROVE  /\ pc'[q] \in Working => answer'[q].status = 0
                    /\ job'[q] # None /\ job'[q].op = "metadata" => row'[q] = None
  BY DEF AnswerlessInv
<1>1. pc'[q] \in Working => answer'[q].status = 0
  BY WorkingStep DEF AnswerlessInv
<1>2. ASSUME job'[q] # None, job'[q].op = "metadata" PROVE row'[q] = None
  <2>1. CASE pc[q] = "idle"
    BY <2>1, RowKept DEF FreshInv
  <2>2. CASE pc[q] # "idle"
    <3>1. job'[q] = job[q]
      BY <2>2, JobKept
    <3>2. pc[q] \notin {"check_alias", "pick_code", "select", "find", "mark"}
      BY <1>2, <3>1 DEF IInv, StageInv
    <3> QED
      BY <1>2, <3>1, <3>2, RowKept DEF AnswerlessInv
  <2> QED
    BY <2>1, <2>2
<1> QED
  BY <1>1, <1>2

(* What a request knew on arrival is all it will know, and it had left by then. *)
LEMMA KnowsStep ==
  ASSUME CommitsFirst, IInv, AckInv, KnowsInv, [HNext]_hvars,
         NEW q \in Reqs, NEW r \in Reqs, r \in before'[q]
  PROVE  /\ pc'[q] # "idle" /\ r \in sent /\ r \in sent' /\ answer'[r] = answer[r]
         /\ answer[r].status \in {201, 204} /\ job'[r] = job[r] /\ row'[r] = row[r]
         /\ pc[q] = "idle" \/ (r \in before[q] /\ job'[q] = job[q])
<1>1. [Next]_vars
  BY DEF HNext, hvars
<1>2. r \in before[q] \/ (Arrives(q) /\ r \in Confirmed)
  BY DEF HNext, hvars
<1>3. r \in sent /\ answer[r].status \in {201, 204}
  BY <1>2 DEF KnowsInv, Confirmed
<1>4. pc[r] \in {"background", "end", "lost"}
  BY <1>3 DEF AckInv, Truthful
<1>5. /\ answer'[r] = answer[r] /\ r \in sent' /\ job'[r] = job[r] /\ row'[r] = row[r]
  BY <1>1, <1>3, <1>4, SentAnswer, JobKept, RowKept
<1>6. CASE r \in before[q]
  <2>1. pc[q] # "idle"
    BY <1>6 DEF KnowsInv
  <2> QED
    BY <1>1, <1>3, <1>5, <1>6, <2>1, JobKept
<1>7. CASE Arrives(q)
  BY <1>3, <1>5, <1>7 DEF Arrives
<1> QED
  BY <1>2, <1>6, <1>7

(* What was confirmed is in the table. *)
LEMMA KnownIsStored ==
  ASSUME CommitsFirst, AckInv, NEW r \in Reqs, r \in sent
  PROVE  /\ answer[r].status = 201 => Created(r)
         /\ answer[r].status = 204 => Deleted(r)
BY DEF AckInv, Truthful

(* FreshFor is kept: a 404 is found in the table, and the table forgets nothing. *)
LEMMA FreshForStep ==
  ASSUME CommitsFirst, IInv, AckInv, ClientInv, [HNext]_hvars, NEW q \in Reqs, NEW r \in Reqs
  PROVE  FreshFor(q, r)'
<1> SUFFICES ASSUME r \in before'[q], answer'[r].status = 201, job'[q].code = row'[r].code,
                    answer'[q].status = 404
             PROVE  Stored(r)' # None /\ Stored(r)'.deleted
  BY DEF FreshFor
<1>1. [Next]_vars
  BY DEF HNext, hvars
<1>2. /\ r \in sent /\ answer[r].status = 201 /\ row'[r] = row[r]
      /\ pc[q] = "idle" \/ (r \in before[q] /\ job'[q] = job[q])
  BY KnowsStep DEF ClientInv
<1>3. Created(r)
  BY <1>2, KnownIsStored
<1>4. row[r] \in Row /\ row[r].code \in Codes
  BY <1>3 DEF Created, IInv, TypeOK, Row
<1>5. pc[q] # "idle"
  BY <1>1, AnswersStep DEF Answers, ClientInv, FreshInv
<1>6. Stored(r) # None /\ Stored(r).deleted
  <2>1. CASE answer[q].status = 404
    BY <1>2, <1>5, <2>1 DEF ClientInv, FreshFor
  <2>2. CASE answer[q].status # 404
    <3>1. ~Live(urls[job[q].code])
      BY <1>1, <2>2, AnswersStep DEF Answers
    <3> QED
      BY <1>2, <1>3, <1>5, <3>1 DEF Live, Created, Stored
  <2> QED
    BY <2>1, <2>2
<1>7. Stored(r)' = urls'[row[r].code]
  BY <1>2 DEF Stored
<1> QED
  BY <1>1, <1>4, <1>6, <1>7, BindingKept DEF SameLink, Stored

(* GoneFor is kept: the lookups find the code deleted, the INSERT finds it taken. *)
LEMMA GoneForStep ==
  ASSUME CommitsFirst, IInv, AckInv, ClientInv, [HNext]_hvars, NEW q \in Reqs, NEW r \in Reqs
  PROVE  GoneFor(q, r)'
<1> SUFFICES ASSUME r \in before'[q], answer'[r].status = 204, Touches(q, r)'
             PROVE  answer'[q].status \notin {200, 201, 204} /\ pc'[q] \notin {"mark", "evict"}
  BY DEF GoneFor
<1>1. [Next]_vars
  BY DEF HNext, hvars
<1>2. /\ r \in sent /\ answer[r].status = 204 /\ job'[r] = job[r]
      /\ pc[q] = "idle" \/ (r \in before[q] /\ job'[q] = job[q])
  BY KnowsStep DEF ClientInv
<1>3. Deleted(r)
  BY <1>2, KnownIsStored
<1>4. /\ job[r].code \in Codes /\ job[r].code # None
      /\ urls[job[r].code] # None /\ ~Live(urls[job[r].code])
  BY <1>3 DEF Deleted, IInv, TypeOK, Job, Live
<1>5. CASE pc[q] = "idle"
  <2>1. answer'[q].status \in {0, 422}
    BY <1>1, <1>5, AnswersStep DEF Answers, ClientInv, FreshInv
  <2> QED
    BY <1>1, <1>5, <2>1, DeleterStep
<1>6. CASE pc[q] # "idle"
  <2>1. r \in before[q] /\ job'[q] = job[q]
    BY <1>2, <1>6
  <2>2. row'[q] = row[q] => Touches(q, r)
    BY <1>2, <2>1 DEF Touches
  <2>3. Touches(q, r) => /\ answer[q].status \notin {200, 201, 204}
                         /\ pc[q] \notin {"mark", "evict"}
    BY <1>2, <2>1 DEF ClientInv, GoneFor
  <2>4. answer'[q].status # 200
    <3>1. CASE answer[q].status = 200
      <4>1. pc[q] \notin Working
        BY <3>1 DEF ClientInv, AnswerlessInv
      <4>2. row'[q] = row[q]
        BY <1>1, <4>1, RowKept DEF Working
      <4> QED
        BY <2>2, <2>3, <3>1, <4>2
    <3>2. CASE pc[q] = "fetch" /\ Live(urls[job[q].code])
      <4>1. row[q] = None /\ row'[q] = row[q]
        BY <1>1, <3>2, RowKept DEF ClientInv, AnswerlessInv, IInv, StageInv
      <4> QED
        BY <1>2, <1>4, <2>1, <3>2, <4>1 DEF Touches
    <3> QED
      BY <1>1, <3>1, <3>2, AnswersStep DEF Answers
  <2>5. answer'[q].status # 201
    <3>1. CASE answer[q].status = 201
      <4>1. pc[q] \notin Working
        BY <3>1 DEF ClientInv, AnswerlessInv
      <4>2. row'[q] = row[q]
        BY <1>1, <4>1, RowKept DEF Working
      <4> QED
        BY <2>2, <2>3, <3>1, <4>2
    <3>2. CASE pc[q] = "warm"
      <4>1. row'[q] = row[q]
        BY <1>1, <3>2, RowKept
      <4>2. Adds(q) /\ Stored(q) = None
        BY <3>2 DEF IInv, LockInv
      <4> QED
        BY <1>4, <2>2, <4>1, <4>2 DEF Touches, Adds, Stored
    <3> QED
      BY <1>1, <3>1, <3>2, AnswersStep DEF Answers
  <2>6. answer'[q].status # 204
    <3>1. CASE answer[q].status = 204
      <4>1. pc[q] \notin Working
        BY <3>1 DEF ClientInv, AnswerlessInv
      <4>2. row'[q] = row[q]
        BY <1>1, <4>1, RowKept DEF Working
      <4> QED
        BY <2>2, <2>3, <3>1, <4>2
    <3>2. CASE pc[q] = "evict"
      <4>1. row'[q] = row[q]
        BY <1>1, <3>2, RowKept
      <4> QED
        BY <2>2, <2>3, <3>2, <4>1
    <3> QED
      BY <1>1, <3>1, <3>2, AnswersStep DEF Answers
  <2>7. pc'[q] \notin {"mark", "evict"}
    <3>1. CASE /\ pc[q] \in {"mark", "evict"} /\ row[q] # None
               /\ row'[q].code = row[q].code
      BY <1>2, <2>1, <2>3, <3>1 DEF Touches
    <3>2. CASE pc[q] = "find" /\ Live(urls[job[q].code]) /\ row'[q] = urls[job[q].code]
      <4>1. job[q].code \in Codes /\ urls[job[q].code] # None
        BY <3>2 DEF Live, IInv, StageInv, TypeOK, Job
      <4>2. urls[job[q].code].code = job[q].code
        BY <4>1 DEF IInv, TableInv
      <4> QED
        BY <1>2, <1>4, <2>1, <3>2, <4>2 DEF Touches
    <3> QED
      BY <1>1, <3>1, <3>2, DeleterStep
  <2> QED
    BY <2>4, <2>5, <2>6, <2>7
<1> QED
  BY <1>5, <1>6

-------------------------------------------------------------------------------
(* The theorems *)

(* Between a client's answer and the end of its next request, the table and the *)
(* handlers keep what the answer told it.                                        *)
THEOREM ClientInvariant ==
  ASSUME CommitsFirst
  PROVE  HSpec => []ClientInv
<1>1. HInit => ClientInv
  <2> SUFFICES ASSUME HInit PROVE ClientInv
    OBVIOUS
  <2>1. \A q \in Reqs : /\ before[q] = {} /\ job[q] = None /\ row[q] = None
                        /\ answer[q].status = 0 /\ ~answer[q].track
    BY DEF HInit, Init, Reply
  <2> QED
    BY <2>1 DEF ClientInv, FreshInv, AnswerlessInv, KnowsInv, FreshFor, GoneFor
<1>2. IInv /\ AckInv /\ ClientInv /\ [HNext]_hvars => ClientInv'
  <2> SUFFICES ASSUME IInv, AckInv, ClientInv, [HNext]_hvars PROVE ClientInv'
    OBVIOUS
  <2>1. [Next]_vars
    BY DEF HNext, hvars
  <2>2. FreshInv' /\ AnswerlessInv'
    BY <2>1, FreshStep, AnswerlessStep DEF ClientInv
  <2>3. KnowsInv'
    BY CommitsFirst, KnowsStep DEF ClientInv, KnowsInv
  <2>4. \A q, r \in Reqs : FreshFor(q, r)' /\ GoneFor(q, r)'
    BY CommitsFirst, FreshForStep, GoneForStep
  <2> QED
    BY <2>2, <2>3, <2>4 DEF ClientInv
<1>3. HSpec => Spec
  <2>1. HInit => Init
    BY DEF HInit
  <2>2. [HNext]_hvars => [Next]_vars
    BY DEF HNext, hvars
  <2> QED
    BY <2>1, <2>2, PTL DEF HSpec, Spec
<1> QED
  BY <1>1, <1>2, <1>3, Inductive, AckInvariant, PTL DEF HSpec

(* With FastAPI's older order, a client that has its 201 and asks for the code is *)
(* told 404 only of a link that was deleted.                                      *)
THEOREM ConfirmedIsFound ==
  ASSUME CommitsFirst
  PROVE  HSpec => []FreshCreateFound
<1>1. ClientInv => FreshCreateFound
  BY DEF ClientInv, FreshCreateFound, FreshFor, Follows, Stored
<1> QED
  BY <1>1, ClientInvariant, PTL

(* With FastAPI's older order, a client that has its 204 gets no 200, 201 or 204 *)
(* for that code again.                                                          *)
THEOREM DeletionStays ==
  ASSUME CommitsFirst
  PROVE  HSpec => []DeletedStaysDeleted
<1>1. ClientInv => DeletedStaysDeleted
  BY DEF ClientInv, DeletedStaysDeleted, GoneFor, Touches, Follows
<1> QED
  BY <1>1, ClientInvariant, PTL
===============================================================================
