--------------------------- MODULE RateLimiterProofs ---------------------------
(***************************************************************************)
(* The quota and the Retry-After of the rate limit, proved for every       *)
(* number of calls and users, every limit and every window.                *)
(***************************************************************************)
EXTENDS RateLimiter, FiniteSetTheorems, TLAPS

(* A call that got its count from Redis, and the calls that reached a bucket. *)
Answered(r) == pc[r] \in {"judge", "admitted", "refused"}
Reached(u, w) ==
  {q \in Calls : /\ who[q] = u /\ WindowStart(q) = w
                 /\ pc[q] \in {"judge", "admitted", "refused", "failed"}}

(* The clock readings of a call follow one another, and decide its answer. *)
CallInv(r) ==
  /\ issued[r] <= now
  /\ pc[r] = "count" => now <= issued[r] + Latency /\ who[r] \in Users
  /\ Answered(r) => /\ who[r] \in Users /\ count[r] >= 1
                    /\ issued[r] <= applied[r] /\ applied[r] <= issued[r] + Latency
  /\ pc[r] = "admitted" => count[r] <= EffectiveLimit(who[r])
  /\ pc[r] = "refused" => /\ count[r] > EffectiveLimit(who[r])
                          /\ retry[r] >= 1
                          /\ judged[r] + retry[r] >= WindowStart(r) + Window
TimingInv ==
  /\ \A r \in Calls : CallInv(r)
  /\ \A k \in Keys : until[k] <= now + Window

(* A counter never runs ahead of the calls that reached its bucket. *)
CountedInv ==
  /\ \A k \in Keys : counters[k] <= Cardinality(Reached(k[1], k[2]))
  /\ \A r \in Calls : Answered(r) => count[r] <= Cardinality(Reached(who[r], WindowStart(r)))

(* The counter a call was counted in lasts until the last call that shares it: *)
(* to the end of the window, or of the next one for calls late for theirs.     *)
Deadline(r) ==
  IF applied[r] < WindowStart(r) + Window THEN WindowStart(r) + Window
                                          ELSE WindowStart(r) + Window + Window
Lasting(r) ==
  Answered(r) /\ BucketKey(r) \notin lost =>
    /\ until[BucketKey(r)] >= Deadline(r)
    /\ now < Deadline(r) => counters[BucketKey(r)] >= count[r]
LastingInv == \A r \in Calls : Lasting(r)

(* Hence no two calls of one deadline get the same count. *)
Apart(q, r) ==
  /\ q # r /\ Answered(q) /\ Answered(r)
  /\ BucketKey(q) = BucketKey(r) /\ BucketKey(r) \notin lost /\ Deadline(q) = Deadline(r)
  => count[q] # count[r]
ApartInv == \A q, r \in Calls : Apart(q, r)

LInv == TypeOK /\ TimingInv /\ CountedInv /\ LastingInv /\ ApartInv
-------------------------------------------------------------------------------
(* Arithmetic of windows *)

(* A window holds the instants that are rounded down to its start. *)
LEMMA Rounding ==
  ASSUME NEW t \in Nat, NEW w \in Nat \ {0}
  PROVE  /\ t \div w \in Nat /\ (t \div w) * w \in Nat
         /\ (t \div w) * w <= t /\ t < (t \div w) * w + w
OBVIOUS

(* Rounding down respects the order. *)
LEMMA RoundingOrder ==
  ASSUME NEW t \in Nat, NEW u \in Nat, t <= u, NEW w \in Nat \ {0}
  PROVE  t \div w <= u \div w
OBVIOUS

(* A call's bucket is one of the keys and holds the instant it looked at the clock. *)
LEMMA BucketType ==
  ASSUME TypeOK, NEW r \in Calls
  PROVE  /\ WindowStart(r) \in Windows /\ WindowStart(r) \in Nat
         /\ WindowStart(r) <= issued[r] /\ issued[r] < WindowStart(r) + Window
         /\ who[r] \in Users => BucketKey(r) \in Keys
<1>1. issued[r] \in Nat /\ issued[r] <= MaxClock /\ MaxClock \in Nat /\ Window \in Nat \ {0}
  BY LimiterAssumption DEF TypeOK
<1>2. issued[r] \div Window \in 0 .. (MaxClock \div Window)
  BY <1>1, Rounding, RoundingOrder
<1>3. WindowStart(r) \in Windows
  BY <1>2 DEF WindowStart, Windows
<1>4. /\ WindowStart(r) \in Nat
      /\ WindowStart(r) <= issued[r] /\ issued[r] < WindowStart(r) + Window
  BY <1>1, Rounding DEF WindowStart
<1> QED
  BY <1>3, <1>4 DEF Keys, BucketKey

(* The limit is a positive number: an override of 0 is none. *)
LEMMA LimitType ==
  ASSUME NEW u \in Users
  PROVE  EffectiveLimit(u) \in Nat \ {0}
BY LimiterAssumption DEF EffectiveLimit

-------------------------------------------------------------------------------
(* Steps *)

(* A call's own step is nobody else's, and takes no time. *)
LEMMA OthersKept ==
  ASSUME TypeOK, NEW r \in Calls, Arrive(r) \/ Handle(r), NEW q \in Calls, q # r
  PROVE  /\ pc'[q] = pc[q] /\ who'[q] = who[q] /\ issued'[q] = issued[q]
         /\ count'[q] = count[q] /\ applied'[q] = applied[q]
         /\ retry'[q] = retry[q] /\ judged'[q] = judged[q] /\ now' = now
BY DEF TypeOK, Arrive, Handle, Authenticate, QueryFails, Count, CountFails, Judge

(* The clock and Redis move no call. *)
LEMMA CallsKept ==
  ASSUME [Next]_vars, \A r \in Calls : ~Arrive(r) /\ ~Handle(r)
  PROVE  UNCHANGED <<pc, who, issued, count, applied, retry, judged>>
BY DEF Next, Tick, RedisForgets, AllDone, vars

(* Once Redis has answered a call or failed it, its bucket and its count stay. *)
LEMMA ReachedKept ==
  ASSUME TypeOK, [Next]_vars, NEW q \in Calls,
         pc[q] \in {"judge", "admitted", "refused", "failed"}
  PROVE  /\ pc'[q] \in {"judge", "admitted", "refused", "failed"}
         /\ who'[q] = who[q] /\ WindowStart(q)' = WindowStart(q)
         /\ Answered(q) => /\ Answered(q)' /\ BucketKey(q)' = BucketKey(q)
                           /\ Deadline(q)' = Deadline(q)
                           /\ applied'[q] = applied[q] /\ count'[q] = count[q]
<1>1. /\ pc'[q] \in {"judge", "admitted", "refused", "failed"}
      /\ pc[q] # "failed" => pc'[q] # "failed"
      /\ who'[q] = who[q] /\ issued'[q] = issued[q]
      /\ applied'[q] = applied[q] /\ count'[q] = count[q]
  <2>1. CASE Arrive(q) \/ Handle(q)
    BY <2>1 DEF TypeOK, Arrive, Handle, Authenticate, QueryFails, Count, CountFails, Judge
  <2>2. ASSUME NEW r \in Calls, r # q, Arrive(r) \/ Handle(r) PROVE <1>1!:
    BY <2>2, OthersKept
  <2> QED
    BY <2>1, <2>2, CallsKept
<1>2. WindowStart(q)' = WindowStart(q)
  BY <1>1 DEF WindowStart
<1> QED
  BY <1>1, <1>2 DEF Answered, BucketKey, Deadline

(* A bucket gains a call with every INCR, and never loses one. *)
LEMMA ReachedGrows ==
  ASSUME TypeOK, [Next]_vars, NEW u, NEW w
  PROVE  /\ IsFiniteSet(Reached(u, w)') /\ Cardinality(Reached(u, w)') \in Nat
         /\ Cardinality(Reached(u, w)) \in Nat
         /\ Cardinality(Reached(u, w)) <= Cardinality(Reached(u, w)')
<1>1. Reached(u, w) \subseteq Reached(u, w)'
  BY ReachedKept DEF Reached
<1>2. IsFiniteSet(Reached(u, w)') /\ IsFiniteSet(Reached(u, w))
  BY LimiterAssumption, FS_Subset DEF Reached
<1> QED
  BY <1>1, <1>2, FS_Subset, FS_CardinalityType

(* The call that reaches Redis is one more than its bucket had. *)
LEMMA ReachedGains ==
  ASSUME TypeOK, [Next]_vars, NEW r \in Calls, pc[r] = "count", Count(r) \/ CountFails(r)
  PROVE  Cardinality(Reached(who[r], WindowStart(r)))
           < Cardinality(Reached(who[r], WindowStart(r))')
<1> DEFINE R == Reached(who[r], WindowStart(r))
<1> DEFINE S == Reached(who[r], WindowStart(r))'
<1>1. /\ pc'[r] \in {"judge", "failed"} /\ who' = who /\ issued' = issued
  BY DEF TypeOK, Count, CountFails
<1>2. WindowStart(r)' = WindowStart(r)
  BY <1>1 DEF WindowStart
<1>3. r \notin R
  BY DEF Reached
<1>4. r \in S
  BY <1>1, <1>2 DEF Reached
<1>5. R \subseteq S
  BY <1>1, ReachedKept DEF Reached, WindowStart
<1>6. IsFiniteSet(S)
  BY LimiterAssumption, FS_Subset DEF Reached
<1> QED
  BY <1>3, <1>4, <1>5, <1>6, FS_Subset, FS_CardinalityType

(* A counter changes by one INCR, or by running out or being lost. *)
LEMMA CountersStep ==
  ASSUME TypeOK, [Next]_vars, NEW k \in Keys
  PROVE  /\ counters[k] \in Nat /\ counters'[k] \in Nat
         /\ \/ counters'[k] <= counters[k]
            \/ \E r \in Calls : /\ pc[r] = "count" /\ BucketKey(r) = k
                                /\ Count(r) \/ CountFails(r)
                                /\ counters'[k] = counters[k] + 1
<1>1. counters[k] \in Nat
  BY LimiterAssumption, FS_CardinalityType DEF TypeOK
<1>2. ASSUME NEW r \in Calls, Count(r) \/ CountFails(r)
      PROVE  \/ counters'[k] = counters[k]
             \/ /\ pc[r] = "count" /\ BucketKey(r) = k
                /\ counters'[k] = counters[k] + 1
  BY <1>2 DEF TypeOK, Count, CountFails, Incremented
<1>3. ASSUME NEW r \in Calls, Arrive(r) \/ Authenticate(r) \/ QueryFails(r) \/ Judge(r)
      PROVE  counters' = counters
  BY <1>3 DEF Arrive, Authenticate, QueryFails, Judge
<1>4. ASSUME Tick \/ AllDone \/ UNCHANGED vars \/ \E d \in Keys : RedisForgets(d)
      PROVE  counters'[k] \in {0, counters[k]}
  BY <1>1, <1>4 DEF TypeOK, Tick, AllDone, RedisForgets, vars
<1> QED
  BY <1>1, <1>2, <1>3, <1>4 DEF Next, Handle

(* Redis keeps a counter until its expiry, which every INCR puts off. *)
LEMMA CountersLast ==
  ASSUME TypeOK, TimingInv, [Next]_vars, NEW k \in Keys, k \notin lost'
  PROVE  /\ k \notin lost /\ now <= now' /\ until'[k] >= until[k]
         /\ counters'[k] < counters[k] => until[k] <= now'
<1>1. /\ counters[k] \in Nat /\ until[k] \in Nat /\ now \in Nat /\ Window \in Nat
      /\ until[k] <= now + Window
  BY LimiterAssumption, FS_CardinalityType DEF TypeOK, TimingInv
<1>2. ASSUME NEW r \in Calls, Arrive(r) \/ Handle(r)
      PROVE  /\ lost' = lost /\ now' = now
             /\ counters'[k] >= counters[k] /\ until'[k] >= until[k]
  <2>1. CASE Count(r) \/ CountFails(r)
    BY <1>1, <2>1 DEF TypeOK, Count, CountFails, Incremented, Expiring
  <2>2. CASE Arrive(r) \/ Authenticate(r) \/ QueryFails(r) \/ Judge(r)
    BY <1>1, <2>2 DEF Arrive, Authenticate, QueryFails, Judge
  <2> QED
    BY <1>2, <2>1, <2>2 DEF Handle
<1>3. CASE Tick
  BY <1>1, <1>3 DEF TypeOK, Tick
<1>4. ASSUME NEW d \in Keys, RedisForgets(d)
      PROVE  k # d /\ now' = now /\ until' = until /\ counters'[k] = counters[k] /\ k \notin lost
  BY <1>4 DEF TypeOK, RedisForgets
<1>5. CASE AllDone \/ UNCHANGED vars
  BY <1>1, <1>5 DEF AllDone, vars
<1> QED
  BY <1>1, <1>2, <1>3, <1>4, <1>5, CountersStep DEF Next

-------------------------------------------------------------------------------
(* The invariant *)

(* Counters and buckets: what CountedInv says is kept by every INCR. *)
LEMMA CountedStep ==
  ASSUME LInv, [Next]_vars
  PROVE  CountedInv'
<1> USE DEF LInv
<1>1. ASSUME NEW k \in Keys PROVE counters'[k] <= Cardinality(Reached(k[1], k[2])')
  <2>1. counters[k] <= Cardinality(Reached(k[1], k[2]))
    BY DEF CountedInv
  <2>2. CASE counters'[k] <= counters[k]
    BY <2>1, <2>2, CountersStep, ReachedGrows
  <2>3. CASE ~(counters'[k] <= counters[k])
    <3>1. PICK r \in Calls : /\ pc[r] = "count" /\ BucketKey(r) = k
                             /\ Count(r) \/ CountFails(r)
                             /\ counters'[k] = counters[k] + 1
      BY <2>3, CountersStep
    <3>2. k[1] = who[r] /\ k[2] = WindowStart(r)
      BY <3>1 DEF BucketKey
    <3>3. WindowStart(r)' = WindowStart(r) /\ who' = who
      BY <3>1 DEF Count, CountFails, WindowStart
    <3>4. Cardinality(Reached(k[1], k[2])) < Cardinality(Reached(k[1], k[2])')
      BY <3>1, <3>2, <3>3, ReachedGains
    <3> QED
      BY <2>1, <3>1, <3>4, CountersStep, ReachedGrows
  <2> QED
    BY <2>2, <2>3
<1>2. ASSUME NEW r \in Calls, Answered(r)'
      PROVE  count'[r] <= Cardinality(Reached(who[r], WindowStart(r))')
  <2>1. CASE Answered(r)
    <3>1. /\ count'[r] = count[r] /\ who'[r] = who[r]
          /\ WindowStart(r)' = WindowStart(r)
      BY <2>1, ReachedKept DEF Answered
    <3>2. count[r] <= Cardinality(Reached(who[r], WindowStart(r)))
      BY <2>1 DEF CountedInv
    <3>3. count[r] \in Nat
      BY LimiterAssumption, FS_CardinalityType DEF TypeOK
    <3>4. PICK u, w : u = who[r] /\ w = WindowStart(r)
      OBVIOUS
    <3>5. Reached(who[r], WindowStart(r))' = Reached(u, w)'
      BY <3>1, <3>4
    <3> QED
      BY <3>1, <3>2, <3>3, <3>4, <3>5, ReachedGrows
  <2>2. CASE ~Answered(r)
    <3>1. Count(r)
      <4>1. pc'[r] # pc[r]
        BY <1>2, <2>2 DEF Answered
      <4>2. Arrive(r) \/ Handle(r)
        BY <4>1, OthersKept, CallsKept
      <4> QED
        BY <1>2, <2>2, <4>2
        DEF TypeOK, Answered, Arrive, Handle, Authenticate, QueryFails, CountFails, Judge, Done
    <3>2. /\ pc[r] = "count" /\ who' = who /\ WindowStart(r)' = WindowStart(r)
          /\ count'[r] = counters'[BucketKey(r)]
      BY <3>1 DEF TypeOK, Count, WindowStart
    <3>3. BucketKey(r) \in Keys
      BY <3>2, BucketType DEF TimingInv, CallInv
    <3>4. BucketKey(r)[1] = who[r] /\ BucketKey(r)[2] = WindowStart(r)
      BY DEF BucketKey
    <3> QED
      BY <1>1, <3>2, <3>3, <3>4
  <2> QED
    BY <2>1, <2>2
<1> QED
  BY <1>1, <1>2 DEF CountedInv

(* The types: a counter is bounded by the calls, a Retry-After by the window. *)
LEMMA LimiterTypeStep ==
  ASSUME LInv, [Next]_vars
  PROVE  TypeOK'
<1> USE DEF LInv, Done
<1>1. Cardinality(Calls) \in Nat /\ Window \in Nat \ {0} /\ MaxClock \in Nat
  BY LimiterAssumption, FS_CardinalityType
<1>2. \A k \in Keys : counters'[k] \in 0 .. Cardinality(Calls)
  <2>1. ASSUME NEW k \in Keys PROVE counters'[k] <= Cardinality(Calls)
    <3>1. counters'[k] <= Cardinality(Reached(k[1], k[2])')
      BY CountedStep DEF CountedInv
    <3>2. Reached(k[1], k[2])' \subseteq Calls
      BY DEF Reached
    <3>3. Cardinality(Reached(k[1], k[2])') <= Cardinality(Calls)
      BY <3>2, LimiterAssumption, FS_Subset
    <3> QED
      BY <1>1, <3>1, <3>3, CountersStep, ReachedGrows
  <2> QED
    BY <1>1, <2>1, CountersStep
<1>3. CASE Tick \/ AllDone \/ UNCHANGED vars \/ \E d \in Keys : RedisForgets(d)
  BY <1>1, <1>2, <1>3 DEF TypeOK, Tick, AllDone, RedisForgets, vars
<1>4. ASSUME NEW r \in Calls, Count(r) \/ CountFails(r) PROVE TypeOK'
  <2>1. BucketKey(r) \in Keys
    BY <1>4, BucketType DEF TimingInv, CallInv, Count, CountFails
  <2>2. counters' \in [Keys -> 0 .. Cardinality(Calls)]
    BY <1>2, <1>4 DEF TypeOK, Count, CountFails, Incremented
  <2>3. now + Window \in 0 .. MaxClock + Window
    BY <1>1 DEF TypeOK
  <2> QED
    BY <1>2, <1>4, <2>1, <2>2, <2>3 DEF TypeOK, Count, CountFails, Expiring
<1>5. ASSUME NEW r \in Calls, Arrive(r) \/ Authenticate(r) \/ QueryFails(r) PROVE TypeOK'
  BY <1>5 DEF TypeOK, Arrive, Authenticate, QueryFails
<1>6. ASSUME NEW r \in Calls, Judge(r) PROVE TypeOK'
  <2>1. RetryAfter(r) \in 1 .. Window
    <3>1. WindowStart(r) \in Nat /\ WindowStart(r) <= now /\ now \in Nat
      BY BucketType DEF TypeOK, TimingInv, CallInv
    <3> QED
      BY <1>1, <3>1 DEF RetryAfter
  <2> QED
    BY <1>6, <2>1 DEF TypeOK, Judge, Done
<1> QED
  BY <1>3, <1>4, <1>5, <1>6 DEF Next, Handle

(* The clock readings of every call stay in order, whatever Redis takes. *)
LEMMA TimingStep ==
  ASSUME LInv, [Next]_vars
  PROVE  TimingInv'
<1> USE DEF LInv
<1>1. /\ Window \in Nat \ {0} /\ Latency \in Nat /\ Active \subseteq Users
      /\ now \in Nat /\ now' \in Nat
  BY LimiterAssumption, LimiterTypeStep DEF TypeOK
<1>2. ASSUME NEW k \in Keys PROVE until'[k] <= now' + Window
  <2>1. until[k] <= now + Window /\ until[k] \in Nat
    BY <1>1 DEF TimingInv, TypeOK
  <2> QED
    BY <1>1, <2>1 DEF TypeOK, Next, Handle, Arrive, Authenticate, QueryFails, Count,
      CountFails, Judge, Expiring, Tick, AllDone, RedisForgets, vars
<1>3. ASSUME NEW q \in Calls PROVE CallInv(q)'
  <2>1. CallInv(q) /\ issued[q] \in Nat /\ applied[q] \in Nat
    BY DEF TimingInv, TypeOK
  <2>2. ASSUME UNCHANGED <<pc, who, issued, count, applied, retry, judged>>,
               now' = now \/ Tick
        PROVE  CallInv(q)'
    <3>1. now <= now' /\ (pc[q] = "count" => now' <= issued[q] + Latency)
      BY <1>1, <2>1, <2>2 DEF Tick, CallInv
    <3>2. WindowStart(q)' = WindowStart(q)
      BY <2>2 DEF WindowStart
    <3> QED
      BY <1>1, <2>1, <2>2, <3>1, <3>2 DEF CallInv, Answered
  <2>3. ASSUME NEW r \in Calls, r # q, Arrive(r) \/ Handle(r) PROVE CallInv(q)'
    <3>1. /\ pc'[q] = pc[q] /\ who'[q] = who[q] /\ issued'[q] = issued[q]
          /\ count'[q] = count[q] /\ applied'[q] = applied[q]
          /\ retry'[q] = retry[q] /\ judged'[q] = judged[q] /\ now' = now
      BY <2>3, OthersKept
    <3>2. WindowStart(q)' = WindowStart(q)
      BY <3>1 DEF WindowStart
    <3> QED
      BY <2>1, <3>1, <3>2 DEF CallInv, Answered
  <2>4. CASE Arrive(q) \/ QueryFails(q) \/ CountFails(q)
    BY <2>1, <2>4 DEF TypeOK, Arrive, QueryFails, CountFails, CallInv, Answered
  <2>5. CASE Authenticate(q)
    BY <1>1, <2>1, <2>5 DEF TypeOK, Authenticate, CallInv, Answered
  <2>6. CASE Count(q)
    <3>1. /\ pc[q] = "count" /\ who[q] \in Users /\ now' = now
          /\ pc'[q] = "judge" /\ who' = who /\ issued' = issued /\ applied'[q] = now
          /\ count'[q] = counters'[BucketKey(q)]
          /\ counters'[BucketKey(q)] = counters[BucketKey(q)] + 1
      BY <2>1, <2>6, BucketType DEF TypeOK, Count, Incremented, CallInv
    <3>2. count'[q] >= 1
      BY <3>1, BucketType, CountersStep
    <3> QED
      BY <1>1, <2>1, <3>1, <3>2 DEF CallInv, Answered
  <2>7. CASE Judge(q)
    <3>1. /\ pc[q] = "judge" /\ judged'[q] = now /\ now' = now
          /\ who' = who /\ issued' = issued /\ count' = count /\ applied' = applied
          /\ \/ /\ count[q] > EffectiveLimit(who[q]) /\ pc'[q] = "refused"
                /\ retry'[q] = RetryAfter(q)
             \/ /\ ~(count[q] > EffectiveLimit(who[q])) /\ pc'[q] = "admitted"
      BY <2>7 DEF TypeOK, Judge, Exceeds
    <3>2. WindowStart(q)' = WindowStart(q) /\ WindowStart(q) \in Nat
      BY <3>1, BucketType DEF WindowStart
    <3>3. RetryAfter(q) >= 1 /\ now + RetryAfter(q) >= WindowStart(q) + Window
      BY <1>1, <3>2 DEF RetryAfter
    <3>4. count[q] \in Nat /\ EffectiveLimit(who[q]) \in Nat
      BY <2>1, <3>1, LimitType, LimiterAssumption, FS_CardinalityType
      DEF TypeOK, CallInv, Answered
    <3> QED
      BY <2>1, <3>1, <3>2, <3>3, <3>4 DEF CallInv, Answered
  <2>8. CASE \A r \in Calls : ~Arrive(r) /\ ~Handle(r)
    <3>1. now' = now \/ Tick
      BY <2>8 DEF Next, RedisForgets, AllDone, vars
    <3> QED
      BY <2>2, <2>8, <3>1, CallsKept
  <2> QED
    BY <2>3, <2>4, <2>5, <2>6, <2>7, <2>8 DEF Handle
<1> QED
  BY <1>2, <1>3 DEF TimingInv

(* A call that has just been counted, as the invariant needs it. *)
LEMMA Counting ==
  ASSUME LInv, [Next]_vars, NEW r \in Calls, ~Answered(r), Answered(r)'
  PROVE  /\ BucketKey(r)' = BucketKey(r) /\ BucketKey(r) \in Keys
         /\ now' = now /\ lost' = lost /\ now < Deadline(r)'
         /\ until'[BucketKey(r)] >= Deadline(r)'
         /\ count'[r] = counters[BucketKey(r)] + 1
         /\ counters'[BucketKey(r)] = count'[r]
<1> USE DEF LInv
<1>1. Count(r)
  <2>1. pc'[r] # pc[r]
    BY DEF Answered
  <2>2. Arrive(r) \/ Handle(r)
    BY <2>1, OthersKept, CallsKept
  <2> QED
    BY <2>2
    DEF TypeOK, Answered, Arrive, Handle, Authenticate, QueryFails, CountFails, Judge, Done
<1>2. /\ pc[r] = "count" /\ now' = now /\ lost' = lost /\ who' = who /\ issued' = issued
      /\ applied'[r] = now /\ count'[r] = counters'[BucketKey(r)]
  BY <1>1 DEF TypeOK, Count
<1>3. CallInv(r)
  BY DEF TimingInv
<1>4. BucketKey(r) \in Keys /\ WindowStart(r)' = WindowStart(r)
  BY <1>2, <1>3, BucketType DEF CallInv, WindowStart
<1>5. /\ counters'[BucketKey(r)] = counters[BucketKey(r)] + 1
      /\ until'[BucketKey(r)] = now + Window
  BY <1>1, <1>4 DEF TypeOK, Count, Incremented, Expiring
<1>6. /\ issued[r] <= now /\ now <= issued[r] + Latency
      /\ WindowStart(r) <= issued[r] /\ issued[r] < WindowStart(r) + Window
      /\ {WindowStart(r), issued[r], now} \subseteq Nat
  BY <1>2, <1>3, BucketType DEF CallInv, TypeOK
<1>7. Window \in Nat \ {0} /\ Latency \in 0 .. Window - 1
  BY LimiterAssumption
<1>8. Deadline(r)' = IF now < WindowStart(r) + Window THEN WindowStart(r) + Window
                                                     ELSE WindowStart(r) + Window + Window
  BY <1>2, <1>4 DEF Deadline
<1>9. now < Deadline(r)' /\ now + Window >= Deadline(r)'
  BY <1>6, <1>7, <1>8
<1> QED
  BY <1>2, <1>4, <1>5, <1>9 DEF BucketKey

(* A counter outlives every call that it tells apart. *)
LEMMA LastingStep ==
  ASSUME LInv, [Next]_vars
  PROVE  LastingInv'
<1> USE DEF LInv
<1> SUFFICES ASSUME NEW r \in Calls, Answered(r)', BucketKey(r)' \notin lost'
             PROVE  /\ until'[BucketKey(r)'] >= Deadline(r)'
                    /\ now' < Deadline(r)' => counters'[BucketKey(r)'] >= count'[r]
  BY DEF LastingInv, Lasting
<1>1. CASE Answered(r)
  <2>1. /\ BucketKey(r)' = BucketKey(r) /\ Deadline(r)' = Deadline(r)
        /\ count'[r] = count[r]
    BY <1>1, ReachedKept DEF Answered
  <2>2. BucketKey(r) \in Keys
    BY <1>1, BucketType DEF TimingInv, CallInv
  <2>3. PICK k \in Keys : k = BucketKey(r)
    BY <2>2
  <2>4. /\ k \notin lost /\ now <= now' /\ until'[k] >= until[k]
        /\ counters'[k] < counters[k] => until[k] <= now'
    BY <2>1, <2>3, CountersLast
  <2>5. until[k] >= Deadline(r) /\ (now < Deadline(r) => counters[k] >= count[r])
    BY <1>1, <2>3, <2>4 DEF LastingInv, Lasting
  <2>6. Deadline(r) \in Nat
    BY LimiterAssumption, BucketType DEF Deadline
  <2>7. /\ {now, now', counters[k], counters'[k], until[k], until'[k], count[r]} \subseteq Nat
    <3>1. TypeOK /\ TypeOK'
      BY LimiterTypeStep
    <3> QED
      BY <3>1, LimiterAssumption, FS_CardinalityType DEF TypeOK
  <2> QED
    BY <2>1, <2>3, <2>4, <2>5, <2>6, <2>7
<1>2. CASE ~Answered(r)
  <2>1. /\ BucketKey(r)' = BucketKey(r) /\ BucketKey(r) \in Keys
        /\ until'[BucketKey(r)] >= Deadline(r)'
        /\ counters'[BucketKey(r)] = count'[r]
    BY <1>2, Counting
  <2>2. counters'[BucketKey(r)] \in Nat
    BY <2>1, CountersStep
  <2> QED
    BY <2>1, <2>2
<1> QED
  BY <1>1, <1>2

(* The next call of a deadline gets a count that nobody has. *)
LEMMA ApartStep ==
  ASSUME LInv, [Next]_vars
  PROVE  ApartInv'
<1> USE DEF LInv
<1>1. ASSUME NEW q \in Calls, NEW r \in Calls, q # r, Answered(q)', Answered(r)',
             BucketKey(q)' = BucketKey(r)', BucketKey(r)' \notin lost',
             Deadline(q)' = Deadline(r)', ~Answered(r), Answered(q)
      PROVE  count'[q] < count'[r]
  <2>1. /\ BucketKey(q)' = BucketKey(q) /\ Deadline(q)' = Deadline(q)
        /\ count'[q] = count[q]
    BY <1>1, ReachedKept DEF Answered
  <2>2. /\ BucketKey(r)' = BucketKey(r) /\ BucketKey(r) \in Keys
        /\ now' = now /\ lost' = lost /\ now < Deadline(r)'
        /\ count'[r] = counters[BucketKey(r)] + 1
    BY <1>1, Counting
  <2>3. counters[BucketKey(r)] >= count[q]
    BY <1>1, <2>1, <2>2 DEF LastingInv, Lasting
  <2>4. counters[BucketKey(r)] \in Nat /\ count[q] \in Nat
    BY <2>2, LimiterAssumption, FS_CardinalityType DEF TypeOK
  <2> QED
    BY <2>1, <2>2, <2>3, <2>4
<1> SUFFICES ASSUME NEW q \in Calls, NEW r \in Calls, q # r, Answered(q)', Answered(r)',
                    BucketKey(q)' = BucketKey(r)', BucketKey(r)' \notin lost',
                    Deadline(q)' = Deadline(r)'
             PROVE  count'[q] # count'[r]
  BY DEF ApartInv, Apart
<1>2. count'[q] \in Nat /\ count'[r] \in Nat
  <2>1. TypeOK'
    BY LimiterTypeStep
  <2> QED
    BY <2>1, LimiterAssumption, FS_CardinalityType DEF TypeOK
<1>3. CASE Answered(q) /\ Answered(r)
  <2>1. /\ BucketKey(q)' = BucketKey(q) /\ Deadline(q)' = Deadline(q) /\ count'[q] = count[q]
        /\ BucketKey(r)' = BucketKey(r) /\ Deadline(r)' = Deadline(r) /\ count'[r] = count[r]
    BY <1>3, ReachedKept DEF Answered
  <2>2. BucketKey(r) \in Keys
    BY <1>3, BucketType DEF TimingInv, CallInv
  <2>3. BucketKey(r) \notin lost
    <3>1. PICK k \in Keys : k = BucketKey(r)
      BY <2>2
    <3> QED
      BY <2>1, <3>1, CountersLast
  <2> QED
    BY <1>3, <2>1, <2>3 DEF ApartInv, Apart
<1>4. CASE Answered(q) /\ ~Answered(r)
  BY <1>1, <1>2, <1>4
<1>5. CASE ~Answered(q) /\ Answered(r)
  BY <1>1, <1>2, <1>5
<1>6. CASE ~Answered(q) /\ ~Answered(r)
  BY <1>6, OthersKept, CallsKept DEF Answered
<1> QED
  BY <1>3, <1>4, <1>5, <1>6

(* Nothing has been counted at the start. *)
LEMMA LimiterInit == Init => LInv
<1> SUFFICES ASSUME Init PROVE LInv
  OBVIOUS
<1>1. Window \in Nat \ {0} /\ MaxClock \in Nat /\ Cardinality(Calls) \in Nat
  BY LimiterAssumption, FS_CardinalityType
<1>2. TypeOK
  BY <1>1 DEF Init, TypeOK
<1>3. TimingInv
  BY <1>1 DEF Init, TimingInv, CallInv, Answered
<1>4. CountedInv
  <2>1. \A u, w : Cardinality(Reached(u, w)) \in Nat
    BY LimiterAssumption, FS_Subset, FS_CardinalityType DEF Reached
  <2> QED
    BY <2>1 DEF Init, CountedInv, Answered
<1>5. LastingInv /\ ApartInv
  BY DEF Init, LastingInv, Lasting, ApartInv, Apart, Answered
<1> QED
  BY <1>2, <1>3, <1>4, <1>5 DEF LInv

(* LInv is inductive. *)
THEOREM LimiterInductive == Spec => []LInv
<1>1. LInv /\ [Next]_vars => LInv'
  BY LimiterTypeStep, TimingStep, CountedStep, LastingStep, ApartStep DEF LInv
<1> QED
  BY <1>1, LimiterInit, PTL DEF Spec

(* Every variable keeps its type: no counter exceeds the calls there are, and the *)
(* Retry-After of a 429 is one second at least and a window at most.              *)
THEOREM LimiterTypeCorrect == Spec => []TypeOK
<1>1. LInv => TypeOK
  BY DEF LInv
<1> QED
  BY <1>1, LimiterInductive, PTL

(* Admitted calls that share a counter have different counts within the limit. *)
LEMMA AtMostLimit ==
  ASSUME LInv, NEW k \in Keys, k \notin lost, NEW S \in SUBSET Admitted(k),
         \A q, r \in S : Deadline(q) = Deadline(r)
  PROVE  Cardinality(S) <= EffectiveLimit(k[1])
<1> DEFINE L == EffectiveLimit(k[1])
<1> DEFINE f == [r \in S |-> count[r]]
<1>1. L \in Nat
  BY LimitType DEF Keys
<1>2. ASSUME NEW r \in S
      PROVE  r \in Calls /\ pc[r] = "admitted" /\ BucketKey(r) = k /\ who[r] = k[1]
  BY DEF Admitted, BucketKey
<1>3. ASSUME NEW r \in S PROVE count[r] \in 1 .. L
  <2>1. CallInv(r) /\ count[r] \in Nat
    BY <1>2, LimiterAssumption, FS_CardinalityType DEF LInv, TimingInv, TypeOK
  <2> QED
    BY <1>1, <1>2, <2>1 DEF CallInv, Answered
<1>4. ASSUME NEW q \in S, NEW r \in S, count[q] = count[r] PROVE q = r
  BY <1>2, <1>4 DEF LInv, ApartInv, Apart, Answered
<1>5. f \in Injection(S, 1 .. L)
  <2>1. f \in [S -> 1 .. L]
    BY <1>3
  <2>2. \A a, b \in S : f[a] = f[b] => a = b
    BY <1>4
  <2> HIDE DEF f
  <2> QED
    BY <2>1, <2>2 DEF Injection, IsInjective
<1>6. IsFiniteSet(1 .. L) /\ Cardinality(1 .. L) = L
  BY <1>1, FS_Interval
<1> QED
  BY <1>5, <1>6, FS_Injection

(* No user is admitted more often than its limit into one window, nor, for the    *)
(* calls whose INCR came after it, a second time more: as long as Redis keeps the *)
(* counter, whatever calls fail, wait or race.                                    *)
THEOREM QuotaHolds == Spec => []WindowQuota
<1>1. ASSUME LInv, NEW k \in Keys, k \notin lost
      PROVE  /\ Cardinality(InTime(k)) <= EffectiveLimit(k[1])
             /\ Cardinality(Late(k)) <= EffectiveLimit(k[1])
  <2>1. \A r \in Admitted(k) : k[2] = WindowStart(r)
    BY DEF Admitted
  <2>2. InTime(k) \subseteq Admitted(k) /\ \A q, r \in InTime(k) : Deadline(q) = Deadline(r)
    BY <2>1 DEF InTime, Deadline
  <2>3. Late(k) \subseteq Admitted(k) /\ \A q, r \in Late(k) : Deadline(q) = Deadline(r)
    BY <2>1 DEF Late, InTime, Deadline
  <2> QED
    BY <1>1, <2>2, <2>3, AtMostLimit
<1>2. LInv => WindowQuota
  BY <1>1 DEF WindowQuota
<1> QED
  BY <1>2, LimiterInductive, PTL

(* A user is only ever refused after more than its limit of its own calls reached *)
(* its window's counter, also when Redis lost, expired or recreated it.           *)
THEOREM RefusedIsOwnDoing == Spec => []RefusedOnlyOverQuota
<1>1. ASSUME LInv, NEW r \in Calls, pc[r] = "refused"
      PROVE  Cardinality(Reached(who[r], WindowStart(r))) > EffectiveLimit(who[r])
  <2>1. Answered(r) /\ CallInv(r)
    BY <1>1 DEF LInv, TimingInv, Answered
  <2>2. /\ count[r] <= Cardinality(Reached(who[r], WindowStart(r)))
        /\ count[r] > EffectiveLimit(who[r])
    BY <1>1, <2>1 DEF LInv, CountedInv, CallInv
  <2>3. /\ count[r] \in Nat /\ EffectiveLimit(who[r]) \in Nat
        /\ Cardinality(Reached(who[r], WindowStart(r))) \in Nat
    BY <1>1, <2>1, LimitType, LimiterAssumption, FS_Subset, FS_CardinalityType
    DEF LInv, TypeOK, CallInv, Reached
  <2> QED
    BY <2>2, <2>3
<1>2. LInv => RefusedOnlyOverQuota
  BY <1>1 DEF RefusedOnlyOverQuota, Reached
<1> QED
  BY <1>2, LimiterInductive, PTL

(* A client that waits for its Retry-After comes back into another window, however *)
(* long Redis took to count the call that was refused.                             *)
THEOREM RetryAfterIsEnough == Spec => []RetryAfterReachesNextWindow
<1>1. ASSUME LInv, NEW q \in Calls, NEW r \in Calls, pc[r] = "refused"
      PROVE  /\ retry[r] \in 1 .. Window
             /\ issued[q] >= judged[r] + retry[r] => WindowStart(q) # WindowStart(r)
  <2>1. CallInv(r) /\ TypeOK
    BY <1>1 DEF LInv, TimingInv
  <2>2. /\ retry[r] \in 0 .. Window /\ judged[r] \in Nat /\ issued[q] \in Nat
        /\ Window \in Nat
    BY <2>1, LimiterAssumption DEF TypeOK
  <2>3. retry[r] >= 1 /\ judged[r] + retry[r] >= WindowStart(r) + Window
    BY <1>1, <2>1 DEF CallInv
  <2>4. /\ issued[q] < WindowStart(q) + Window
        /\ WindowStart(q) \in Nat /\ WindowStart(r) \in Nat
    BY <2>1, BucketType
  <2> QED
    BY <2>2, <2>3, <2>4
<1>2. LInv => RetryAfterReachesNextWindow
  BY <1>1 DEF RetryAfterReachesNextWindow
<1> QED
  BY <1>2, LimiterInductive, PTL
===============================================================================
