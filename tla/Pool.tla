--------------------------------- MODULE Pool ---------------------------------
(***************************************************************************)
(* The engine's connection pool: who holds which connection from its first *)
(* query to the end of its session, across the Redis calls and row locks   *)
(* it awaits meanwhile, while PostgreSQL goes away and comes back.         *)
(*                                                                         *)
(* What a handler computes is UrlService's matter: here a request is the   *)
(* sequence of awaits it has before it, todo[r].                           *)
(***************************************************************************)
EXTENDS Integers, Sequences, FiniteSets

CONSTANTS
  Reqs,             \* the HTTP requests of a behaviour
  Kinds,            \* which kinds of requests may come
  PoolSize,         \* pool_size: idle connections the pool keeps
  MaxOverflow,      \* max_overflow: connections it opens beyond them
  MaxOutages,       \* how often PostgreSQL may go away
  CommitBeforeSend, \* FastAPI < 0.118 leaves get_db before it sends the response
  Idle, Closed, None

ASSUME PoolAssumption ==
  /\ Kinds \subseteq {"write", "stats", "hit", "miss", "orphan", "health"} /\ None \notin Kinds
  /\ PoolSize \in Nat \ {0} /\ MaxOverflow \in Nat /\ MaxOutages \in Nat
  /\ CommitBeforeSend \in BOOLEAN
  /\ Reqs \cap {Idle, Closed, None} = {} /\ Idle # Closed

Conns == 1 .. PoolSize + MaxOverflow

VARIABLES
  app,      \* lifespan: "starting", then "serving" or "failed", then "stopped"
  up,       \* PostgreSQL accepts connections
  outages,  \* how often it has gone away
  holder,   \* of each connection: a request, Idle (in the pool) or Closed
  alive,    \* the connections whose server side has not gone away
  kind,     \* what each request is
  todo,     \* the awaits it has before it
  locked,   \* the requests whose session has written the contended row
  failed,   \* the requests one of whose database steps raised
  shaken    \* history: PostgreSQL was away, or the pool full too long, during them

vars == <<app, up, outages, holder, alive, kind, todo, locked, failed, shaken>>

-------------------------------------------------------------------------------
(* What a request awaits *)

(* What follows a handler, by FastAPI's version; a redirect brings a click. *)
RespondsFirst == FALSE
CommitsFirst == CommitBeforeSend
Leaving(click) == IF CommitsFirst THEN <<"commit", "send">> \o click
                                  ELSE <<"send">> \o click \o <<"commit">>

(* The awaits of each kind of request. The API key comes first, and all of it *)
(* shares one session, which FastAPI's dependency cache gives to each Depends. *)
WriteAwaits == <<"query", "redis", "query", "write", "redis">> \o Leaving(<<>>)
StatsAwaits == <<"query", "query", "query", "query">> \o Leaving(<<>>)
MissAwaits == <<"redis", "query", "redis", "query">> \o Leaving(<<"click">>)

(* A hit; one of a code that is cached and in no row has no click. *)
HitAwaits == <<"redis", "query">> \o Leaving(<<"click">>)
OrphanAwaits == <<"redis", "query">> \o Leaving(<<>>)

(* health_check ends its own session before it asks Redis. *)
ProbeHolds == <<"query", "redis", "close", "send">>
Probe == <<"query", "close", "redis", "send">>

Awaits(k) ==
  CASE k = "write" -> WriteAwaits
    [] k = "stats" -> StatsAwaits
    [] k = "miss" -> MissAwaits
    [] k = "hit" -> HitAwaits
    [] k = "orphan" -> OrphanAwaits
    [] k = "health" -> Probe

Active(r) == todo[r] # <<>>
Over(r) == kind[r] # None /\ ~Active(r)
Await(r) == IF Active(r) THEN Head(todo[r]) ELSE "none"
Leaves(r) == {i \in DOMAIN todo[r] : todo[r][i] \in {"commit", "send"}}
InHandler(r) == kind[r] \notin {None, "health"} /\ Cardinality(Leaves(r)) = 2

Held(r) == {c \in Conns : holder[c] = r}
InPool == {c \in Conns : holder[c] = Idle}

(* The types; the pool keeps PoolSize connections and one session the row's lock. *)
TypeOK ==
  /\ app \in {"starting", "serving", "failed", "stopped"}
  /\ up \in BOOLEAN /\ outages \in 0 .. MaxOutages
  /\ holder \in [Conns -> Reqs \cup {Idle, Closed}]
  /\ alive \subseteq Conns
  /\ kind \in [Reqs -> Kinds \cup {None}]
  /\ \A r \in Reqs : todo[r] \in Seq({"query", "write", "click", "redis", "close", "commit", "send"})
  /\ locked \subseteq Reqs /\ failed \subseteq Reqs /\ shaken \subseteq Reqs
  /\ Cardinality(InPool) <= PoolSize /\ Cardinality(locked) <= 1

Init ==
  /\ app = "starting"
  /\ up \in BOOLEAN
  /\ outages = 0
  /\ holder = [c \in Conns |-> Closed]
  /\ alive = {}
  /\ kind = [r \in Reqs |-> None]
  /\ todo = [r \in Reqs |-> <<>>]
  /\ locked = {}
  /\ failed = {}
  /\ shaken = {}

-------------------------------------------------------------------------------
(* Taking and giving back a connection *)

(* A session takes a connection at its first query and keeps it. *)
DbAwaits == {"query", "write", "click"}
OwnSession(r) ==
  Await(r) \in DbAwaits
  /\ Cardinality(Held(r)) < (IF kind[r] = "write" /\ todo[r] # WriteAwaits THEN 2 ELSE 1)
NeedsConnection(r) == Await(r) \in DbAwaits /\ Held(r) = {}

(* pool_pre_ping: a connection is tried when it leaves the pool, and replaced *)
(* by a new one if its server side is gone.                                   *)
Unchecked(c) == up /\ (holder[c] = Closed \/ c \in alive)
PrePing(c) == up

(* session.close(): the pool keeps up to PoolSize idle connections. *)
Leaked(r) == holder
AllKept(r) == [c \in Conns |-> IF holder[c] = r THEN Idle ELSE holder[c]]
Returned(r) ==
  LET back == IF Cardinality(InPool) < PoolSize THEN Idle ELSE Closed IN
  [c \in Conns |-> IF holder[c] = r THEN back ELSE holder[c]]

Release(r) == holder' = Returned(r) /\ locked' = locked \ {r}
Advance(r) == todo' = [todo EXCEPT ![r] = Tail(@)]
End(r) == todo' = [todo EXCEPT ![r] = <<>>]

(* An exception of the database reaches get_db, which rolls back and closes; *)
(* health_check and record_click catch it and go on.                         *)
Fail(r) ==
  /\ failed' = failed \cup {r}
  /\ Release(r)
  /\ IF kind[r] = "health" \/ Await(r) = "click" THEN Advance(r) ELSE End(r)

(* The pool hands out an idle connection, or opens one when it has none. *)
Checkout(r) ==
  /\ NeedsConnection(r)
  /\ \E c \in Conns :
       /\ \/ holder[c] = Idle
          \/ /\ InPool = {} /\ holder[c] = Closed
             /\ \A d \in 1 .. c - 1 : holder[d] # Closed
       /\ \/ /\ PrePing(c)
             /\ holder' = [holder EXCEPT ![c] = r]
             /\ alive' = alive \cup {c}
             /\ UNCHANGED <<todo, locked, failed>>
          \/ /\ ~PrePing(c)
             /\ Fail(r)
             /\ UNCHANGED alive
  /\ UNCHANGED <<app, up, outages, kind, shaken>>

(* pool_timeout, 30 seconds: TimeoutError. *)
TimesOut(r) ==
  /\ NeedsConnection(r)
  /\ \A c \in Conns : holder[c] \notin {Idle, Closed}
  /\ Fail(r)
  /\ shaken' = shaken \cup {r}
  /\ UNCHANGED <<app, up, outages, alive, kind>>

-------------------------------------------------------------------------------
(* Requests *)

Arrive(r) ==
  /\ app = "serving" /\ kind[r] = None
  /\ \E k \in Kinds : /\ kind' = [kind EXCEPT ![r] = k]
                     /\ todo' = [todo EXCEPT ![r] = Awaits(k)]
  /\ shaken' = IF up THEN shaken ELSE shaken \cup {r}
  /\ UNCHANGED <<app, up, outages, holder, alive, locked, failed>>

(* A statement on the session's connection; a write takes the row's lock. *)
Query(r) ==
  /\ Await(r) \in {"query", "write"} /\ ~NeedsConnection(r)
  /\ \/ ~(Held(r) \subseteq alive) /\ Fail(r)
     \/ /\ Held(r) \subseteq alive
        /\ \/ Await(r) = "query" /\ UNCHANGED locked
           \/ Await(r) = "write" /\ locked = {} /\ locked' = {r}
        /\ Advance(r)
        /\ UNCHANGED <<holder, failed>>
  /\ UNCHANGED <<app, up, outages, alive, kind, shaken>>

(* get_db's commit and close; with nothing begun there is nothing to commit. *)
(* record_click commits its INSERT on the same, reopened session.            *)
Commit(r) ==
  /\ Await(r) \in {"commit", "click"} /\ ~NeedsConnection(r)
  /\ \/ ~(Held(r) \subseteq alive) /\ Fail(r)
     \/ Held(r) \subseteq alive /\ Release(r) /\ Advance(r) /\ UNCHANGED failed
  /\ UNCHANGED <<app, up, outages, alive, kind, shaken>>

(* health_check leaves its session, whatever SELECT 1 did. *)
Close(r) ==
  /\ Await(r) = "close"
  /\ Release(r) /\ Advance(r)
  /\ UNCHANGED <<app, up, outages, alive, kind, failed, shaken>>

(* A Redis call, answered or failed, and the response on its way to the client. *)
Elsewhere(r) ==
  /\ Await(r) \in {"redis", "send"}
  /\ Advance(r)
  /\ UNCHANGED <<app, up, outages, holder, alive, kind, locked, failed, shaken>>

(* An HTTPException (401, 403, 404, 409, 410, 422, 429), or Redis failing under *)
(* the rate limit: get_db rolls back and closes.                                *)
Refuse(r) ==
  /\ InHandler(r)
  /\ Release(r) /\ End(r)
  /\ UNCHANGED <<app, up, outages, alive, kind, failed, shaken>>

-------------------------------------------------------------------------------
(* The application and its surroundings *)

(* Before it serves, the application creates the tables on a first connection, *)
(* which raises without a database; get_redis connects to nothing yet.         *)
StartUp ==
  /\ app = "starting"
  /\ \/ ~up /\ app' = "failed" /\ UNCHANGED <<holder, alive>>
     \/ /\ up
        /\ app' = "serving"
        /\ holder' = [holder EXCEPT ![1] = Idle]
        /\ alive' = {1}
  /\ UNCHANGED <<up, outages, kind, todo, locked, failed, shaken>>

(* The server drains its requests before lifespan's second half. *)
ShutDown ==
  /\ app = "serving" /\ \A r \in Reqs : ~Active(r)
  /\ app' = "stopped"
  /\ UNCHANGED <<up, outages, holder, alive, kind, todo, locked, failed, shaken>>

(* PostgreSQL goes away: connections are cut, transactions and locks with them. *)
DbStops ==
  /\ up /\ outages < MaxOutages
  /\ up' = FALSE /\ outages' = outages + 1
  /\ alive' = {} /\ locked' = {}
  /\ shaken' = shaken \cup {r \in Reqs : Active(r)}
  /\ UNCHANGED <<app, holder, kind, todo, failed>>

DbStarts ==
  /\ ~up /\ up' = TRUE
  /\ UNCHANGED <<app, outages, holder, alive, kind, todo, locked, failed, shaken>>

AllOver ==
  /\ app \in {"failed", "stopped"}
  /\ UNCHANGED vars

Handle(r) == Checkout(r) \/ Query(r) \/ Commit(r) \/ Close(r) \/ Elsewhere(r)

Next ==
  \/ \E r \in Reqs : Arrive(r) \/ Handle(r) \/ TimesOut(r) \/ Refuse(r)
  \/ StartUp \/ ShutDown \/ DbStops \/ DbStarts \/ AllOver

(* The loop resumes whoever can go on. No time-out, refusal, outage or arrival *)
(* is needed for that; a request that waits for the pool waits for the others. *)
Spec == Init /\ [][Next]_vars
FairSpec == Spec /\ \A r \in Reqs : WF_vars(Handle(r))

-------------------------------------------------------------------------------
(* Properties *)

(* Whatever way a request ends (refused, timed out, cut off by an outage, with *)
(* a click written or lost), its connections are back and its lock is gone.    *)
EndedHoldsNothing ==
  \A r \in Reqs : Over(r) => Held(r) = {} /\ r \notin locked

(* database.py:5, "Pool pre-ping detects stale connections before query": once *)
(* PostgreSQL is back, the connections it cut fail nobody. A request loses a   *)
(* query, a commit or its click only if the database was away in its time, or  *)
(* if it waited out the pool's time-out.                                       *)
FailureExplained == failed \subseteq shaken

(* A slow client or a hanging Redis never keeps a connection from the others:  *)
(* nothing is held while a response leaves or a probe waits for Redis. The     *)
(* handlers' own Redis calls do hold one. (CommitBeforeSend)                   *)
WaitsWithoutConnection ==
  \A r \in Reqs :
    Await(r) = "send" \/ (Await(r) = "redis" /\ kind[r] = "health") => Held(r) = {}

(* However few connections there are, the requests under way never all wait: *)
(* whoever holds the row's lock has its connection, whoever waits for one of *)
(* the pool holds no lock, and so one of them can go on by itself.           *)
MayGoOn(r) ==
  /\ Active(r)
  /\ NeedsConnection(r) => \E c \in Conns : holder[c] \in {Idle, Closed}
  /\ Await(r) = "write" /\ ~NeedsConnection(r) /\ Held(r) \subseteq alive => locked = {}
SomebodyGoesOn == (\E r \in Reqs : Active(r)) => \E r \in Reqs : MayGoOn(r)

(* However few connections there are for the requests, all of them finish, by *)
(* the progress of the others and not by their time-out: no request waits for *)
(* the pool while it holds what another one waits for.                        *)
AllFinish == <>[](\A r \in Reqs : ~Active(r))
===============================================================================
