------------------------------ MODULE RateLimiter ------------------------------
(***************************************************************************)
(* The dependencies in front of the handlers of /api/v1/urls: the API key  *)
(* (require_api_key) and the rate limit (rate_limit over cache_incr).  A   *)
(* call r is one HTTP request; the clock counts the seconds of time.time(),*)
(* and goes on while a call awaits PostgreSQL or Redis.                    *)
(***************************************************************************)
EXTENDS Integers, FiniteSets

CONSTANTS
  Calls,     \* the HTTP requests of a behaviour
  Users,     \* the users whose API key a call may carry
  Active,    \* the users require_api_key accepts
  Override,  \* users.rate_limit_override
  Default,   \* settings.rate_limit_max_requests
  Window,    \* settings.rate_limit_window_seconds
  Latency,   \* most seconds between rate_limit's look at the clock and the INCR
  Faults,    \* which of {"redis", "db"} may happen
  MaxClock,  \* bound of the clock
  None

ASSUME LimiterAssumption ==
  /\ IsFiniteSet(Calls)
  /\ Active \subseteq Users
  /\ Override \in [Users -> Nat \cup {None}]
  /\ {Default, Window} \subseteq Nat \ {0}
  /\ Latency \in 0 .. Window - 1
  /\ Faults \subseteq {"redis", "db"}
  /\ MaxClock \in Nat
  /\ None \notin Users \cup Nat

VARIABLES
  now,       \* the clock
  counters,  \* Redis: the counter rl:<user>:<window_start>, 0 when there is no such key
  until,     \* the instant at which each counter's EXPIRE runs out
  lost,      \* the counters Redis has evicted or lost in a restart
  pc,        \* where each call is
  who,       \* the user of each call
  issued,    \* the clock when the call computed window_start
  count,     \* what cache_incr returned
  applied,   \* the clock when Redis ran the INCR
  retry,     \* the Retry-After header of a 429
  judged     \* the clock when the call was admitted or refused

vars == <<now, counters, until, lost, pc, who, issued, count, applied, retry, judged>>

Windows == {k * Window : k \in 0 .. (MaxClock \div Window)}
Keys == Users \X Windows
Done == {"admitted", "refused", "unauthorized", "aborted", "failed"}

(* No counter exceeds the calls there are, and a 429 has a Retry-After of one second *)
(* at least and a window at most (cache_incr, 429).                                  *)
TypeOK ==
  /\ now \in 0 .. MaxClock
  /\ counters \in [Keys -> 0 .. Cardinality(Calls)]
  /\ until \in [Keys -> 0 .. MaxClock + Window]
  /\ lost \subseteq Keys
  /\ pc \in [Calls -> {"idle", "auth", "count", "judge"} \cup Done]
  /\ who \in [Calls -> Users \cup {None}]
  /\ issued \in [Calls -> 0 .. MaxClock]
  /\ applied \in [Calls -> 0 .. MaxClock]
  /\ judged \in [Calls -> 0 .. MaxClock]
  /\ count \in [Calls -> 0 .. Cardinality(Calls)]
  /\ retry \in [Calls -> 0 .. Window]
  /\ \A r \in Calls : pc[r] = "refused" => retry[r] >= 1

-------------------------------------------------------------------------------

Init ==
  /\ now = 0
  /\ counters = [k \in Keys |-> 0]
  /\ until = [k \in Keys |-> 0]
  /\ lost = {}
  /\ pc = [r \in Calls |-> "idle"]
  /\ who = [r \in Calls |-> None]
  /\ issued = [r \in Calls |-> 0]
  /\ count = [r \in Calls |-> 0]
  /\ applied = [r \in Calls |-> 0]
  /\ retry = [r \in Calls |-> 0]
  /\ judged = [r \in Calls |-> 0]

(* An override of 0 is falsy and means the default. *)
EffectiveLimit(u) == IF Override[u] \in {None, 0} THEN Default ELSE Override[u]

(* The bucket of a call: its user's, in the window in which it looked at the clock. *)
WindowStart(r) == (issued[r] \div Window) * Window
SharedBucket(r) == <<CHOOSE u \in Users : TRUE, WindowStart(r)>>
BucketKey(r) == <<who[r], WindowStart(r)>>

PreviousExceeds(n, limit) == n - 1 > limit
Exceeds(n, limit) == n > limit

(* Seconds until the window ends; at least 1 once it has ended meanwhile. *)
UntilLastSecond(r) ==
  LET left == WindowStart(r) + Window - 1 - now IN IF left > 1 THEN left ELSE 1
NoFloor(r) == WindowStart(r) + Window - now
RetryAfter(r) ==
  LET left == WindowStart(r) + Window - now IN IF left > 1 THEN left ELSE 1

(* INCR and EXPIRE in one MULTI: every call puts the expiry off. *)
Incremented(k) == [counters EXCEPT ![k] = @ + 1]
Expiring(k) == [until EXCEPT ![k] = now + Window]

-------------------------------------------------------------------------------
(* A call arrives; without an API key it is 401 at once. *)
Arrive(r) ==
  /\ pc[r] = "idle"
  /\ \E u \in Users \cup {None} :
       /\ who' = [who EXCEPT ![r] = u]
       /\ pc' = [pc EXCEPT ![r] = IF u = None THEN "unauthorized" ELSE "auth"]
  /\ UNCHANGED <<now, counters, until, lost, issued, count, applied, retry, judged>>

(* require_api_key's query; then rate_limit computes its window and awaits Redis. *)
Authenticate(r) ==
  /\ pc[r] = "auth"
  /\ \/ /\ who[r] \in Active
        /\ pc' = [pc EXCEPT ![r] = "count"]
        /\ issued' = [issued EXCEPT ![r] = now]
     \/ /\ who[r] \notin Active
        /\ pc' = [pc EXCEPT ![r] = "unauthorized"]
        /\ UNCHANGED issued
  /\ UNCHANGED <<now, counters, until, lost, who, count, applied, retry, judged>>

(* The query raises: the global handler's 500. *)
QueryFails(r) ==
  /\ pc[r] = "auth"
  /\ "db" \in Faults
  /\ pc' = [pc EXCEPT ![r] = "aborted"]
  /\ UNCHANGED <<now, counters, until, lost, who, issued, count, applied, retry, judged>>

(* cache_incr: Redis runs the pipeline. *)
Count(r) ==
  /\ pc[r] = "count"
  /\ counters' = Incremented(BucketKey(r))
  /\ until' = Expiring(BucketKey(r))
  /\ count' = [count EXCEPT ![r] = counters'[BucketKey(r)]]
  /\ applied' = [applied EXCEPT ![r] = now]
  /\ pc' = [pc EXCEPT ![r] = "judge"]
  /\ UNCHANGED <<now, lost, who, issued, retry, judged>>

(* cache_incr lets a Redis error through, whether Redis ran the pipeline or not. *)
CountFails(r) ==
  /\ pc[r] = "count"
  /\ "redis" \in Faults
  /\ \/ UNCHANGED <<counters, until>>
     \/ counters' = Incremented(BucketKey(r)) /\ until' = Expiring(BucketKey(r))
  /\ pc' = [pc EXCEPT ![r] = "failed"]
  /\ UNCHANGED <<now, lost, who, issued, count, applied, retry, judged>>

(* Back from Redis, which may have taken a while: admit, or 429 with Retry-After. *)
Judge(r) ==
  /\ pc[r] = "judge"
  /\ judged' = [judged EXCEPT ![r] = now]
  /\ \/ /\ Exceeds(count[r], EffectiveLimit(who[r]))
        /\ pc' = [pc EXCEPT ![r] = "refused"]
        /\ retry' = [retry EXCEPT ![r] = RetryAfter(r)]
     \/ /\ ~Exceeds(count[r], EffectiveLimit(who[r]))
        /\ pc' = [pc EXCEPT ![r] = "admitted"]
        /\ UNCHANGED retry
  /\ UNCHANGED <<now, counters, until, lost, who, issued, count, applied>>

(* A second passes, unless a call has waited Latency for its INCR; keys expire. *)
Tick ==
  /\ now < MaxClock
  /\ \A r \in Calls : pc[r] = "count" => now < issued[r] + Latency
  /\ now' = now + 1
  /\ counters' = [k \in Keys |-> IF until[k] <= now + 1 THEN 0 ELSE counters[k]]
  /\ UNCHANGED <<until, lost, pc, who, issued, count, applied, retry, judged>>

(* Redis evicts a counter or restarts without it. *)
RedisForgets(k) ==
  /\ "redis" \in Faults
  /\ counters[k] > 0
  /\ counters' = [counters EXCEPT ![k] = 0]
  /\ lost' = lost \cup {k}
  /\ UNCHANGED <<now, until, pc, who, issued, count, applied, retry, judged>>

AllDone ==
  /\ \A r \in Calls : pc[r] \in Done
  /\ UNCHANGED vars

Handle(r) == Authenticate(r) \/ QueryFails(r) \/ Count(r) \/ CountFails(r) \/ Judge(r)

Next ==
  \/ \E r \in Calls : Arrive(r) \/ Handle(r)
  \/ \E k \in Keys : RedisForgets(k)
  \/ Tick
  \/ AllDone

Spec == Init /\ [][Next]_vars

-------------------------------------------------------------------------------
(* Calls whose INCR ran in key k's window, and those that were late for it. *)
Admitted(k) == {r \in Calls : pc[r] = "admitted" /\ <<who[r], WindowStart(r)>> = k}
InTime(k) == {r \in Admitted(k) : applied[r] < k[2] + Window}
Late(k) == Admitted(k) \ InTime(k)

(* A user gets at most its limit of admissions into one window, as long as Redis *)
(* keeps the counter.  Calls that looked at the clock in the window and reach    *)
(* Redis after it may find the counter expired: they get at most the limit again.*)
WindowQuota ==
  \A k \in Keys \ lost :
    /\ Cardinality(InTime(k)) <= EffectiveLimit(k[1])
    /\ Cardinality(Late(k)) <= EffectiveLimit(k[1])

(* A 429 is a user's own doing (FIND-004): the limit and one more of its own calls *)
(* have asked Redis for an INCR in the window, also when it lost or expired the    *)
(* counter. An INCR that failed may have run.                                      *)
RefusedOnlyOverQuota ==
  \A r \in Calls : pc[r] = "refused" =>
    Cardinality({q \in Calls :
      /\ who[q] = who[r] /\ WindowStart(q) = WindowStart(r)
      /\ pc[q] \in {"judge", "admitted", "refused", "failed"}}) > EffectiveLimit(who[r])

(* A client that honours Retry-After is not counted in the window that refused it, *)
(* however long Redis took to answer, and never waits longer than a window.        *)
RetryAfterReachesNextWindow ==
  \A q, r \in Calls :
    pc[r] = "refused" =>
      /\ retry[r] \in 1 .. Window
      /\ who[q] = who[r] /\ pc[q] \in {"count", "judge", "admitted", "refused"}
           /\ issued[q] >= judged[r] + retry[r]
         => WindowStart(q) # WindowStart(r)

(* README.md:64, "100 req/min per-user sliding window (Redis)": in no Window      *)
(* seconds are more than the limit of a user's calls admitted.                    *)
SlidingQuota ==
  \A u \in Users : \A t \in 0 .. MaxClock :
    Cardinality({r \in Calls : /\ pc[r] = "admitted" /\ who[r] = u
                               /\ applied[r] \in t .. t + Window - 1}) <= EffectiveLimit(u)
===============================================================================
