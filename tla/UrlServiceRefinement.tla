------------------------- MODULE UrlServiceRefinement -------------------------
(***************************************************************************)
(* Proof that the handlers implement LinkStore when get_db commits before  *)
(* the response is sent: an arrival asks, a commit binds or retires a link *)
(* that was asked for, the response of a create or a delete tells its      *)
(* client, and every other step stutters.                                  *)
(***************************************************************************)
EXTENDS UrlServiceOrigin

(* A promise that has been made, and what it says. *)
Promised(q) == q \in sent /\ answer[q].status \in {201, 204}
Promise(q) ==
  <<q, answer[q].status, IF answer[q].status = 201 THEN row[q].code ELSE job[q].code>>

(* The promises the store has made are those of its clients' responses. *)
LEMMA ToldIsPromises ==
  ASSUME sent \subseteq Reqs
  PROVE  Told = {Promise(q) : q \in {p \in Reqs : Promised(p)}}
<1>1. \A q \in Reqs : answer[q].status = 201 => Promise(q) = <<q, 201, row[q].code>>
  BY DEF Promise
<1>2. \A q \in Reqs : answer[q].status = 204 => Promise(q) = <<q, 204, job[q].code>>
  BY DEF Promise
<1> QED
  BY <1>1, <1>2 DEF Told, Promised

(* A response with good news leaves by Send: the errors say 4xx or 5xx. *)
LEMMA OnlySendPromises ==
  ASSUME IInv, NEW r \in Reqs, Arrive(r) \/ Handle(r), ~Send(r), r \notin sent, r \in sent'
  PROVE  answer'[r].status \notin {201, 204}
<1> USE DEF IInv, TypeOK
<1>1. \A s : Abort(r, s) => answer'[r].status = s
  BY DEF Abort, Reply
<1>2. CASE Arrive(r)
  BY <1>2 DEF Arrive, Reply
<1>3. CASE Create(r)
  BY <1>1, <1>3 DEF Create, CheckAlias, PickCode, Insert, WarmCache
<1>4. CASE Redirect(r) \/ Fetch(r)
  BY <1>1, <1>4 DEF Redirect, CacheGet, Select, Rewarm, GetUrl, Fetch
<1>5. CASE Delete(r)
  BY <1>1, <1>5 DEF Delete, Find, Mark, Evict
<1>6. CASE Leave(r)
  BY <1>1, <1>6 DEF Leave, Commit, CommitFails, RecordClick, QueryFails, Reply
<1> QED
  BY <1>2, <1>3, <1>4, <1>5, <1>6 DEF Handle

(* Once its response has left, a request only records a click. *)
LEMMA SentAnswer ==
  ASSUME CommitsFirst, IInv, AckInv, [Next]_vars, NEW q \in Reqs, q \in sent
  PROVE  answer'[q] = answer[q] /\ q \in sent'
<1>1. pc[q] \in {"background", "end", "lost"}
  BY DEF AckInv, Truthful
<1>2. CASE Arrive(q) \/ Handle(q)
  <2>1. RecordClick(q)
    BY <1>1, <1>2 DEF Arrive, Handle, Create, CheckAlias, PickCode, Insert, WarmCache,
      Redirect, CacheGet, Select, Rewarm, GetUrl, Fetch, Delete, Find, Mark, Evict, Leave,
      Commit, CommitFails, Send, QueryFails, DbStages
  <2> QED
    BY <2>1 DEF RecordClick
<1>3. ASSUME NEW r \in Reqs, r # q, Arrive(r) \/ Handle(r)
      PROVE  answer'[q] = answer[q] /\ q \in sent'
  BY <1>3, Local
<1>4. CASE \A r \in Reqs : ~Arrive(r) /\ ~Handle(r)
  BY <1>4, Outside
<1> QED
  BY <1>2, <1>3, <1>4

(* A promise that was made does not change. *)
LEMMA PromiseKept ==
  ASSUME CommitsFirst, IInv, AckInv, [Next]_vars, NEW q \in Reqs, Promised(q)
  PROVE  Promised(q)' /\ Promise(q)' = Promise(q)
<1>1. pc[q] \in {"background", "end", "lost"} /\ q \in sent
  BY DEF AckInv, Truthful, Promised
<1>2. job'[q] = job[q] /\ row'[q] = row[q]
  BY <1>1, JobKept, RowKept
<1>3. answer'[q] = answer[q] /\ q \in sent'
  BY <1>1, SentAnswer
<1> QED
  BY <1>2, <1>3 DEF Promised, Promise

(* Nothing is promised but in a Send. *)
LEMMA NoOtherPromise ==
  ASSUME CommitsFirst, IInv, AckInv, [Next]_vars, NEW q \in Reqs, ~Promised(q), ~Send(q)
  PROVE  ~Promised(q)'
<1>1. CASE q \in sent
  BY <1>1, SentAnswer DEF Promised
<1>2. CASE q \notin sent
  <2>1. CASE Arrive(q) \/ Handle(q)
    BY <1>2, <2>1, OnlySendPromises DEF Promised
  <2>2. ASSUME NEW r \in Reqs, r # q, Arrive(r) \/ Handle(r) PROVE ~Promised(q)'
    BY <1>2, <2>2, Local DEF Promised
  <2>3. CASE \A r \in Reqs : ~Arrive(r) /\ ~Handle(r)
    BY <1>2, <2>3, Outside DEF Promised
  <2> QED
    BY <2>1, <2>2, <2>3
<1> QED
  BY <1>1, <1>2

-------------------------------------------------------------------------------
(* The steps of the store *)

(* Nobody asks twice, and nobody asks but by arriving. *)
LEMMA ArriveIsAsk ==
  ASSUME IInv, FreshInv, NEW r \in Reqs, Arrive(r), Told' = Told
  PROVE  Store!Next
<1>1. PICK j \in Jobs : job' = [job EXCEPT ![r] = [j EXCEPT !.exp = ExpiresAt(j)]]
  BY DEF Arrive
<1>2. j \in Job /\ ExpiresAt(j) \in Nat \cup {None}
  BY ConstantsAssumption DEF IInv, TypeOK, Job, ExpiresAt
<1>3. [j EXCEPT !.exp = ExpiresAt(j)] \in Job
  BY <1>2 DEF Job
<1>4. job[r] = None /\ urls' = urls /\ job \in [Reqs -> Job \cup {None}]
  BY DEF Arrive, FreshInv, shared, IInv, TypeOK
<1>5. job'[r] = [j EXCEPT !.exp = ExpiresAt(j)]
  BY <1>1, <1>4
<1>6. Store!Ask(r)
  BY <1>1, <1>3, <1>4, <1>5 DEF Store!Ask
<1> QED
  BY <1>6 DEF Store!Next

LEMMA OnlyArrivalsAsk ==
  ASSUME IInv, [Next]_vars, \A r \in Reqs : ~Arrive(r)
  PROVE  job' = job
<1>1. ASSUME NEW r \in Reqs, NEW s, Abort(r, s) PROVE job' = job
  BY <1>1 DEF Abort
<1>2. ASSUME NEW r \in Reqs, Create(r) PROVE job' = job
  BY <1>1, <1>2 DEF Create, CheckAlias, PickCode, Insert, WarmCache
<1>3. ASSUME NEW r \in Reqs, Redirect(r) \/ Fetch(r) PROVE job' = job
  BY <1>1, <1>3 DEF Redirect, CacheGet, Select, Rewarm, GetUrl, Fetch
<1>4. ASSUME NEW r \in Reqs, Delete(r) PROVE job' = job
  BY <1>1, <1>4 DEF Delete, Find, Mark, Evict
<1>5. ASSUME NEW r \in Reqs, Leave(r) PROVE job' = job
  BY <1>1, <1>5 DEF Leave, Commit, CommitFails, Send, RecordClick, QueryFails
<1> QED
  BY <1>2, <1>3, <1>4, <1>5
  DEF Next, Handle, Tick, RedisForgets, CountCall, Crash, AllOver, vars, shared

(* A commit binds the code of a new link, retires a link, or changes nothing. *)
LEMMA CommitIsStoreStep ==
  ASSUME CommitsFirst, IInv, NEW r \in Reqs, pc[r] = "commit",
         urls' = Applied(r), job' = job, Told' = Told
  PROVE  Store!Next \/ urls' = urls
<1> USE DEF IInv, TypeOK
<1> DEFINE c == row[r].code
<1>1. CASE pending[r] = "insert"
  <2>1. Adds(r) /\ row[r] \in Row /\ c \in Codes /\ urls[c] = None
    BY <1>1 DEF LockInv, Adds, Row, Stored
  <2>2. urls' = [urls EXCEPT ![c] = row[r]]
    BY <1>1 DEF Applied
  <2>3. urls'[c] = row[r]
    BY <2>1, <2>2
  <2>4. Store!WantsLink(r, c, row[r]) /\ ~row[r].deleted
    <3>1. job[r] # None /\ row[r] = NewRow(r, c) /\ (job[r].code # None => c = job[r].code)
      BY <2>1 DEF StageInv, Adds
    <3> QED
      BY <2>1, <3>1 DEF Adds, NewRow, Store!WantsLink
  <2>5. \A d \in Codes : urls[d] # None => urls[d].id # r
    BY DEF TableInv, Committed
  <2>6. Store!Bind(r, c)
    BY <2>1, <2>2, <2>3, <2>4, <2>5 DEF Store!Bind
  <2> QED
    BY <2>1, <2>6 DEF Store!Next
<1>2. CASE pending[r] = "update"
  <2>1. c \in Codes /\ urls[c] # None
    BY <1>2 DEF LockInv, MayDelete, Reads, SameLink, Stored, Row
  <2>0. Store!OwnerWantsItGone(r, c)
    BY <1>2 DEF LockInv, MayDelete, Reads, Stored, StageInv, Store!OwnerWantsItGone
  <2>2. urls' = [urls EXCEPT ![c].deleted = TRUE]
    BY <1>2 DEF Applied
  <2>3. CASE ~urls[c].deleted
    <3>1. Store!Retire(r, c)
      BY <2>1, <2>0, <2>2, <2>3 DEF Store!Retire
    <3> QED
      BY <2>1, <3>1 DEF Store!Next
  <2>4. CASE urls[c].deleted
    <3>1. urls[c] \in Row
      BY <2>1
    <3>2. [urls[c] EXCEPT !.deleted = TRUE] = urls[c]
      BY <2>4, <3>1 DEF Row
    <3> QED
      BY <2>1, <2>2, <3>2
  <2> QED
    BY <2>3, <2>4
<1>3. CASE pending[r] = "none"
  BY <1>3 DEF Applied
<1> QED
  BY <1>1, <1>2, <1>3

(* A 201 or a 204 that leaves is a promise the store may make. *)
LEMMA SendIsTell ==
  ASSUME CommitsFirst, IInv, AckInv, FreshInv, NEW r \in Reqs,
         Send(r), ~Promised(r), Promised(r)', Told' = Told \cup {Promise(r)}
  PROVE  Store!Next
<1> USE DEF IInv, TypeOK
<1>1. /\ pc[r] = "send" /\ urls' = urls /\ job' = job /\ answer[r].status \in {201, 204}
  BY DEF Send, Promised, shared
<1>2. CASE answer[r].status = 201
  <2>1. Created(r)
    BY <1>1, <1>2 DEF AckInv, Truthful
  <2>2. row[r].code \in Codes
    BY <2>1 DEF Created, Row
  <2>3. Store!Tell(r, 201, row[r].code)
    BY <1>1, <1>2, <2>1 DEF Store!Tell, Created, Stored, Promise
  <2> QED
    BY <2>2, <2>3 DEF Store!Next
<1>3. CASE answer[r].status = 204
  <2>1. Deleted(r)
    BY <1>1, <1>3 DEF AckInv, Truthful
  <2>2. job[r].code \in Codes
    BY <2>1 DEF Deleted, Job
  <2>3. Store!Tell(r, 204, job[r].code)
    BY <1>1, <1>3, <2>1 DEF Store!Tell, Store!OwnerWantsItGone, Deleted, Promise
  <2> QED
    BY <2>2, <2>3 DEF Store!Next
<1> QED
  BY <1>1, <1>2, <1>3

(* Every step of the service is a step of the store or leaves it alone. *)
LEMMA StoreStep ==
  ASSUME CommitsFirst, IInv, AckInv, FreshInv, [Next]_vars
  PROVE  [Store!Next]_<<job, urls, Told>>
<1>1. Told = {Promise(q) : q \in {p \in Reqs : Promised(p)}}
  BY ToldIsPromises DEF IInv, TypeOK
<1>2. Told' = {Promise(q)' : q \in {p \in Reqs : Promised(p)'}}
  <2>1. sent' \subseteq Reqs
    BY TypeStep DEF TypeOK
  <2>2. \A q \in Reqs : answer'[q].status = 201 => Promise(q)' = <<q, 201, row'[q].code>>
    BY DEF Promise
  <2>3. \A q \in Reqs : answer'[q].status = 204 => Promise(q)' = <<q, 204, job'[q].code>>
    BY DEF Promise
  <2> QED
    BY <2>1, <2>2, <2>3 DEF Told, Promised
<1>3. ASSUME NEW r \in Reqs, Send(r), Promised(r)', ~Promised(r)
      PROVE  Store!Next
  <2>1. ASSUME NEW q \in Reqs, q # r PROVE ~Send(q)
    BY <1>3, <2>1, Local DEF Send, AfterSend, AfterResponse, Handle, Leave, IInv, TypeOK
  <2>2. \A q \in Reqs \ {r} : Promised(q)' <=> Promised(q)
    BY <2>1, PromiseKept, NoOtherPromise
  <2>3. Promise(r)' = Promise(r)
    BY <1>3 DEF Send, Promise, IInv, TypeOK
  <2>4. Told' = Told \cup {Promise(r)}
    BY <1>1, <1>2, <1>3, <2>2, <2>3, PromiseKept
  <2> QED
    BY <1>3, <2>4, SendIsTell
<1>4. CASE \A r \in Reqs : Promised(r)' => Promised(r)
  <2>1. Told' = Told
    BY <1>1, <1>2, <1>4, PromiseKept
  <2>2. CASE \E r \in Reqs : Arrive(r)
    BY <2>1, <2>2, ArriveIsAsk
  <2>3. CASE \A r \in Reqs : ~Arrive(r)
    <3>1. job' = job
      BY <2>3, OnlyArrivalsAsk
    <3>2. ASSUME NEW r \in Reqs, pc[r] = "commit", urls' = Applied(r)
          PROVE  Store!Next \/ urls' = urls
      BY <2>1, <3>1, <3>2, CommitIsStoreStep
    <3> QED
      BY <2>1, <3>1, <3>2, UrlsStep
  <2> QED
    BY <2>2, <2>3
<1> QED
  BY <1>3, <1>4, NoOtherPromise

(* The empty table is an empty store that has promised nothing. *)
LEMMA StoreInit == Init => Store!Init
<1> SUFFICES ASSUME Init PROVE Store!Init
  OBVIOUS
<1>1. Told = {}
  BY DEF Init, Told
<1> QED
  BY <1>1 DEF Init, Store!Init

(* The handlers implement LinkStore when the commit precedes the response: over *)
(* every interleaving, fault and crash, a link is what its request asked for, it *)
(* goes only at its owner's request, a client is told of either only once it is  *)
(* in the table, and a code never changes its link.                              *)
THEOREM ImplementsLinkStore ==
  ASSUME CommitsFirst
  PROVE  Spec => StoreSpec
<1>1. Init => Store!Init
  BY StoreInit
<1>2. IInv /\ AckInv /\ RedirectInv /\ [Next]_vars => [Store!Next]_<<job, urls, Told>>
  BY StoreStep DEF RedirectInv
<1> QED
  BY <1>1, <1>2, Inductive, AckInvariant, RedirectInvariant, PTL DEF Spec, StoreSpec, Store!Spec
===============================================================================
