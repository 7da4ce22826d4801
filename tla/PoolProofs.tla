------------------------------ MODULE PoolProofs ------------------------------
(***************************************************************************)
(* The connection pool, proved for every number of requests, pool size,    *)
(* overflow and outages: what is held is given back, and what fails had    *)
(* its reason.                                                             *)
(***************************************************************************)
EXTENDS Pool, FiniteSetTheorems, TLAPS

Step == {"query", "write", "click", "redis", "close", "commit", "send"}

(* The awaits that give the connection back. After a query one is still to come, *)
(* and none of the awaits X before it: those that are not to hold a connection.  *)
Releasing == {"commit", "close", "click"}
WillRelease(s, X) ==
  \E j \in 1 .. Len(s) : s[j] \in Releasing /\ \A m \in 1 .. j : s[m] \notin X
Fit(s, X) ==
  \A i \in 1 .. Len(s) : s[i] \in {"query", "write"} =>
    \E j \in i .. Len(s) : s[j] \in Releasing /\ \A m \in i .. j : s[m] \notin X

(* Which those are for each kind of request, if the commit comes first. *)
Unheld(k) ==
  IF ~CommitsFirst THEN {} ELSE IF k = "health" THEN {"send", "redis"} ELSE {"send"}

(* Whoever holds a connection has a release before it, and holds it for its lock. *)
(* Without an outage in its time it has a database and its connections live.      *)
ReqInv(r) ==
  /\ kind[r] = None => todo[r] = <<>>
  /\ Fit(todo[r], Unheld(kind[r]))
  /\ Held(r) # {} => WillRelease(todo[r], Unheld(kind[r]))
  /\ r \in locked => Held(r) # {}
  /\ Active(r) /\ r \notin shaken => up /\ Held(r) \subseteq alive

PoolTypes ==
  /\ holder \in [Conns -> Reqs \cup {Idle, Closed}]
  /\ kind \in [Reqs -> Kinds \cup {None}]
  /\ todo \in [Reqs -> Seq(Step)]

PInv ==
  /\ PoolTypes
  /\ app = "starting" => \A r \in Reqs : kind[r] = None
  /\ failed \subseteq shaken
  /\ \A r \in Reqs : ReqInv(r)
-------------------------------------------------------------------------------
(* Sequences of awaits *)

(* A sequence that releases last keeps its promise behind any other one. *)
LEMMA FitConcat ==
  ASSUME NEW s \in Seq(Step), NEW t \in Seq(Step), NEW X, WillRelease(t, X),
         \A i \in 1 .. Len(s) : s[i] \notin X,
         \A i \in 1 .. Len(t) : t[i] \notin {"query", "write"}
  PROVE  s \o t \in Seq(Step) /\ Fit(s \o t, X)
<1>1. /\ s \o t \in Seq(Step) /\ Len(s \o t) = Len(s) + Len(t)
      /\ \A i \in 1 .. Len(s) + Len(t) :
           (s \o t)[i] = IF i <= Len(s) THEN s[i] ELSE t[i - Len(s)]
  OBVIOUS
<1>2. Len(s) \in Nat /\ Len(t) \in Nat
  OBVIOUS
<1>3. PICK j \in 1 .. Len(t) : t[j] \in Releasing /\ \A m \in 1 .. j : t[m] \notin X
  BY DEF WillRelease
<1>4. Len(s) + j \in 1 .. Len(s) + Len(t) /\ (s \o t)[Len(s) + j] = t[j]
  BY <1>1, <1>2
<1> DEFINE u == s \o t
<1>5. ASSUME NEW m \in 1 .. Len(s) + j PROVE u[m] \notin X
  <2>1. CASE m <= Len(s)
    BY <1>1, <1>2, <2>1
  <2>2. CASE m > Len(s)
    <3>1. m - Len(s) \in 1 .. j /\ u[m] = t[m - Len(s)]
      BY <1>1, <1>2, <2>2
    <3> QED
      BY <1>3, <3>1
  <2> QED
    BY <1>2, <2>1, <2>2
<1>6. ASSUME NEW i \in 1 .. Len(u), u[i] \in {"query", "write"}
      PROVE  \E n \in i .. Len(u) : u[n] \in Releasing /\ \A m \in i .. n : u[m] \notin X
  <2>1. i <= Len(s)
    <3> SUFFICES ASSUME i > Len(s) PROVE FALSE
      BY <1>2
    <3>1. i - Len(s) \in 1 .. Len(t) /\ u[i] = t[i - Len(s)]
      BY <1>1, <1>2
    <3> QED
      BY <1>6, <3>1
  <2>2. Len(s) + j \in i .. Len(u)
    BY <1>1, <1>2, <1>4, <2>1
  <2>3. \A m \in i .. Len(s) + j : u[m] \notin X
    BY <1>2, <1>5
  <2> HIDE DEF u
  <2> QED
    BY <1>3, <1>4, <2>2, <2>3 DEF u
<1> QED
  BY <1>1, <1>6 DEF Fit

(* get_db's commit comes before or after the response, and no query with it. *)
LEMMA LeavingReleases ==
  ASSUME NEW click \in {<<>>, <<"click">>}
  PROVE  /\ Leaving(click) \in Seq(Step)
         /\ CommitsFirst => WillRelease(Leaving(click), {"send"})
         /\ WillRelease(Leaving(click), {})
         /\ \A i \in 1 .. Len(Leaving(click)) : Leaving(click)[i] \notin {"query", "write"}
<1>1. /\ click \in Seq(Step) /\ <<"commit", "send">> \in Seq(Step)
      /\ <<"send">> \in Seq(Step) /\ <<"commit">> \in Seq(Step)
  <2>1. <<>> \in Seq(Step) /\ <<"click">> \in Seq(Step)
    BY DEF Step
  <2>2. <<"commit", "send">> \in Seq(Step) /\ <<"send">> \in Seq(Step) /\ <<"commit">> \in Seq(Step)
    BY DEF Step
  <2>3. click = <<>> \/ click = <<"click">>
    OBVIOUS
  <2> QED
    BY <2>1, <2>2, <2>3
<1>2. \A i \in 1 .. Len(click) : click[i] = "click"
  OBVIOUS
<1>3. CASE CommitsFirst
  <2> DEFINE l == <<"commit", "send">> \o click
  <2>1. /\ l \in Seq(Step) /\ Len(l) = 2 + Len(click)
        /\ \A i \in 1 .. Len(l) : l[i] = IF i <= 2 THEN <<"commit", "send">>[i] ELSE click[i - 2]
    BY <1>1
  <2>2. Len(click) \in Nat /\ \A i \in 1 .. Len(l) : i > 2 => i - 2 \in 1 .. Len(click)
    BY <1>1, <2>1
  <2>3. l[1] = "commit" /\ 1 \in 1 .. Len(l)
    BY <2>1, <2>2
  <2>4. \A i \in 1 .. Len(l) : l[i] \notin {"query", "write"}
    BY <1>2, <2>1, <2>2
  <2> QED
    BY <1>3, <2>1, <2>3, <2>4 DEF Leaving, WillRelease, Releasing
<1>4. CASE ~CommitsFirst
  <2> DEFINE h == <<"send">> \o click
  <2> DEFINE l == h \o <<"commit">>
  <2>1. /\ h \in Seq(Step) /\ Len(h) = 1 + Len(click)
        /\ \A i \in 1 .. Len(h) : h[i] = IF i <= 1 THEN <<"send">>[i] ELSE click[i - 1]
    BY <1>1
  <2>2. Len(click) \in Nat /\ \A i \in 1 .. Len(h) : i > 1 => i - 1 \in 1 .. Len(click)
    BY <1>1, <2>1
  <2>3. \A i \in 1 .. Len(h) : h[i] \notin {"query", "write"}
    BY <1>2, <2>1, <2>2
  <2> HIDE DEF h
  <2>4. /\ l \in Seq(Step) /\ Len(l) = Len(h) + 1
        /\ \A i \in 1 .. Len(l) : l[i] = IF i <= Len(h) THEN h[i] ELSE <<"commit">>[i - Len(h)]
    BY <1>1, <2>1
  <2>5. Len(h) \in Nat /\ l[Len(h) + 1] = "commit" /\ Len(h) + 1 \in 1 .. Len(l)
    BY <2>1, <2>4
  <2>6. \A i \in 1 .. Len(l) : l[i] \notin {"query", "write"}
    <3> SUFFICES ASSUME NEW i \in 1 .. Len(l) PROVE l[i] \notin {"query", "write"}
      OBVIOUS
    <3>1. CASE i <= Len(h)
      BY <2>3, <2>4, <2>5, <3>1
    <3>2. CASE i > Len(h)
      <4>1. i = Len(h) + 1
        BY <2>4, <2>5, <3>2
      <4> QED
        BY <2>5, <4>1
    <3> QED
      BY <2>5, <3>1, <3>2
  <2> QED
    BY <1>4, <2>4, <2>5, <2>6 DEF Leaving, WillRelease, Releasing, h
<1> QED
  BY <1>3, <1>4

(* What is before a request when it arrives releases after its last query. *)
LEMMA AwaitsFit ==
  ASSUME NEW k \in Kinds
  PROVE  Awaits(k) \in Seq(Step) /\ Fit(Awaits(k), Unheld(k))
<1>1. /\ <<"query", "redis", "query", "write", "redis">> \in Seq(Step)
      /\ <<"query", "query", "query", "query">> \in Seq(Step)
      /\ <<"redis", "query", "redis", "query">> \in Seq(Step)
      /\ <<"redis", "query">> \in Seq(Step)
  BY DEF Step
<1>2. ASSUME NEW X \in {{}, {"send"}}, X = {} \/ CommitsFirst
      PROVE  /\ WriteAwaits \in Seq(Step) /\ Fit(WriteAwaits, X)
             /\ StatsAwaits \in Seq(Step) /\ Fit(StatsAwaits, X)
             /\ MissAwaits \in Seq(Step) /\ Fit(MissAwaits, X)
             /\ HitAwaits \in Seq(Step) /\ Fit(HitAwaits, X)
             /\ OrphanAwaits \in Seq(Step) /\ Fit(OrphanAwaits, X)
  <2>1. ASSUME NEW click \in {<<>>, <<"click">>}
        PROVE  WillRelease(Leaving(click), X)
    BY <1>2, LeavingReleases
  <2>2. ASSUME NEW q \in Seq(Step), \A i \in 1 .. Len(q) : q[i] # "send",
               NEW click \in {<<>>, <<"click">>}
        PROVE  q \o Leaving(click) \in Seq(Step) /\ Fit(q \o Leaving(click), X)
    <3>1. \A i \in 1 .. Len(q) : q[i] \notin X
      BY <2>2
    <3> QED
      BY <2>1, <3>1, LeavingReleases, FitConcat
  <2>3. /\ \A i \in 1 .. Len(<<"query", "redis", "query", "write", "redis">>) :
             <<"query", "redis", "query", "write", "redis">>[i] # "send"
        /\ \A i \in 1 .. Len(<<"query", "query", "query", "query">>) :
             <<"query", "query", "query", "query">>[i] # "send"
        /\ \A i \in 1 .. Len(<<"redis", "query", "redis", "query">>) :
             <<"redis", "query", "redis", "query">>[i] # "send"
        /\ \A i \in 1 .. Len(<<"redis", "query">>) : <<"redis", "query">>[i] # "send"
    OBVIOUS
  <2> HIDE DEF Fit
  <2> QED
    BY <1>1, <2>2, <2>3
    DEF WriteAwaits, StatsAwaits, MissAwaits, HitAwaits, OrphanAwaits
<1>3. Probe \in Seq(Step) /\ Fit(Probe, Unheld("health"))
  BY DEF Probe, Step, Fit, Releasing, Unheld
<1>4. k # "health" => Unheld(k) \in {{}, {"send"}} /\ (Unheld(k) = {} \/ CommitsFirst)
  BY DEF Unheld
<1> QED
  BY <1>2, <1>3, <1>4, PoolAssumption DEF Awaits

(* Going on to the next await keeps the promise; a query leaves its release ahead. *)
LEMMA FitTail ==
  ASSUME NEW s \in Seq(Step), s # <<>>, NEW X, Fit(s, X)
  PROVE  /\ Tail(s) \in Seq(Step) /\ Fit(Tail(s), X) /\ Fit(<<>>, X)
         /\ Head(s) \in {"query", "write"} => WillRelease(s, X)
         /\ WillRelease(s, X) /\ Head(s) \notin Releasing => WillRelease(Tail(s), X)
<1>1. /\ Len(s) \in Nat \ {0} /\ Head(s) = s[1]
      /\ Tail(s) \in Seq(Step) /\ Len(Tail(s)) = Len(s) - 1
      /\ \A i \in 1 .. Len(s) - 1 : Tail(s)[i] = s[i + 1]
  OBVIOUS
<1>2. ASSUME NEW i \in 1 .. Len(Tail(s)), NEW m \in (i + 1) .. Len(s), s[m] \in Releasing,
             \A n \in (i + 1) .. m : s[n] \notin X
      PROVE  \E j \in i .. Len(Tail(s)) :
               Tail(s)[j] \in Releasing /\ \A n \in i .. j : Tail(s)[n] \notin X
  <2>1. m - 1 \in i .. Len(Tail(s)) /\ m - 1 \in 1 .. Len(s) - 1 /\ (m - 1) + 1 = m
    BY <1>1, <1>2
  <2>2. ASSUME NEW n \in i .. m - 1 PROVE Tail(s)[n] \notin X
    <3>1. n \in 1 .. Len(s) - 1 /\ n + 1 \in (i + 1) .. m
      BY <1>1, <2>1
    <3> QED
      BY <1>1, <1>2, <3>1
  <2> QED
    BY <1>1, <1>2, <2>1, <2>2
<1>3. Fit(Tail(s), X)
  <2> SUFFICES ASSUME NEW i \in 1 .. Len(Tail(s)), Tail(s)[i] \in {"query", "write"}
               PROVE  \E j \in i .. Len(Tail(s)) :
                        Tail(s)[j] \in Releasing /\ \A n \in i .. j : Tail(s)[n] \notin X
    BY DEF Fit
  <2>1. i + 1 \in 1 .. Len(s) /\ s[i + 1] \in {"query", "write"}
    BY <1>1
  <2>2. PICK m \in (i + 1) .. Len(s) : s[m] \in Releasing /\ \A n \in (i + 1) .. m : s[n] \notin X
    BY <2>1 DEF Fit
  <2> QED
    BY <1>2, <2>2
<1>4. Fit(<<>>, X)
  BY DEF Fit
<1>5. Head(s) \in {"query", "write"} => WillRelease(s, X)
  BY <1>1 DEF Fit, WillRelease
<1>6. ASSUME WillRelease(s, X), Head(s) \notin Releasing PROVE WillRelease(Tail(s), X)
  <2>1. PICK m \in 1 .. Len(s) : s[m] \in Releasing /\ \A n \in 1 .. m : s[n] \notin X
    BY <1>6 DEF WillRelease
  <2>2. m # 1
    BY <1>1, <1>6, <2>1
  <2>3. 1 \in 1 .. Len(Tail(s)) /\ m \in (1 + 1) .. Len(s) /\ \A n \in (1 + 1) .. m : s[n] \notin X
    BY <1>1, <2>1, <2>2
  <2>4. \E j \in 1 .. Len(Tail(s)) :
          Tail(s)[j] \in Releasing /\ \A n \in 1 .. j : Tail(s)[n] \notin X
    BY <1>2, <2>1, <2>3
  <2> QED
    BY <2>4 DEF WillRelease
<1> QED
  BY <1>1, <1>3, <1>4, <1>5, <1>6

-------------------------------------------------------------------------------
(* Steps *)

(* A step of one request gives and takes no connection of another one's. *)
LEMMA OthersUntouched ==
  ASSUME PInv, NEW r \in Reqs, Arrive(r) \/ Handle(r) \/ TimesOut(r) \/ Refuse(r),
         NEW q \in Reqs, q # r
  PROVE  ReqInv(q)'
<1> USE DEF PInv, PoolTypes
<1>1. Idle \notin Reqs /\ Closed \notin Reqs
  BY PoolAssumption
<1>2. ASSUME holder' = Returned(r) PROVE Held(q)' = Held(q)
  <2>1. ASSUME NEW c \in Conns PROVE holder'[c] = q <=> holder[c] = q
    <3>1. holder[c] # r => holder'[c] = holder[c]
      BY <1>2 DEF Returned
    <3>2. holder[c] = r => holder'[c] \in {Idle, Closed}
      BY <1>2 DEF Returned
    <3> QED
      BY <1>1, <3>1, <3>2
  <2> QED
    BY <2>1 DEF Held
<1>3. ASSUME Fail(r) PROVE Held(q)' = Held(q) /\ todo'[q] = todo[q] /\ (q \in locked' => q \in locked)
  BY <1>2, <1>3 DEF Fail, Release, Advance, End
<1>4. ASSUME Release(r) PROVE Held(q)' = Held(q) /\ (q \in locked' => q \in locked)
  BY <1>2, <1>4 DEF Release
<1>5. Held(q)' = Held(q)
  <2>1. CASE Checkout(r)
    <3>1. ASSUME NEW c \in Conns, holder[c] \in {Idle, Closed}, holder' = [holder EXCEPT ![c] = r]
          PROVE  Held(q)' = Held(q)
      BY <1>1, <3>1 DEF Held
    <3> QED
      BY <1>3, <2>1, <3>1 DEF Checkout
  <2>2. CASE TimesOut(r) \/ Query(r)
    BY <1>3, <2>2 DEF TimesOut, Query, Held
  <2>3. CASE Arrive(r) \/ Elsewhere(r)
    BY <2>3 DEF Arrive, Elsewhere, Held
  <2>4. CASE Commit(r) \/ Close(r) \/ Refuse(r)
    BY <1>3, <1>4, <2>4 DEF Commit, Close, Refuse
  <2> QED
    BY <2>1, <2>2, <2>3, <2>4 DEF Handle
<1>6. /\ todo'[q] = todo[q] /\ kind'[q] = kind[q] /\ (q \in locked' => q \in locked)
      /\ up' = up /\ alive \subseteq alive' /\ shaken \subseteq shaken'
  BY <1>3, <1>4 DEF Arrive, Handle, Checkout, Query, Commit, Close, Elsewhere,
                    TimesOut, Refuse, Advance, End
<1> QED
  BY <1>5, <1>6 DEF ReqInv, Active

(* A request's own step keeps its promise, and fails only for a reason. *)
LEMMA OwnStep ==
  ASSUME PInv, NEW r \in Reqs, Arrive(r) \/ Handle(r) \/ TimesOut(r) \/ Refuse(r)
  PROVE  /\ PoolTypes' /\ ReqInv(r)' /\ failed' \subseteq shaken'
         /\ app' = app /\ app # "starting"
<1> USE DEF PInv, PoolTypes
<1> DEFINE X == Unheld(kind[r])
<1>0. ReqInv(r) /\ Idle \notin Reqs /\ Closed \notin Reqs
  BY PoolAssumption
<1>1. app' = app /\ app # "starting"
  <2>1. kind[r] = None => todo[r] = <<>>
    BY <1>0 DEF ReqInv
  <2>2. app' = app /\ (app = "serving" \/ todo[r] # <<>> \/ kind[r] # None)
    BY DEF Arrive, Handle, Checkout, Query, Commit, Close, Elsewhere, TimesOut, Refuse,
           NeedsConnection, DbAwaits, Await, Active, InHandler
  <2> QED
    BY <2>1, <2>2
<1>2. ASSUME Active(r), Release(r)
      PROVE  Held(r)' = {} /\ r \notin locked' /\ holder' \in [Conns -> Reqs \cup {Idle, Closed}]
  BY <1>0, <1>2 DEF Release, Returned, Held
<1>3. ASSUME Active(r)
      PROVE  /\ Tail(todo[r]) \in Seq(Step) /\ Fit(Tail(todo[r]), X) /\ Fit(<<>>, X)
             /\ Head(todo[r]) \in {"query", "write"} => WillRelease(todo[r], X)
             /\ WillRelease(todo[r], X) /\ Head(todo[r]) \notin Releasing
                  => WillRelease(Tail(todo[r]), X)
             /\ kind[r] # None
  BY <1>0, <1>3, FitTail DEF ReqInv, Active
<1>4. ASSUME Active(r), Release(r), Advance(r) \/ End(r), UNCHANGED <<kind, alive, up>>,
             shaken \subseteq shaken'
      PROVE  PoolTypes' /\ ReqInv(r)'
  <2>1. todo' \in [Reqs -> Seq(Step)] /\ Fit(todo'[r], X)
    <3>1. PICK t \in Seq(Step) : Fit(t, X) /\ todo' = [todo EXCEPT ![r] = t]
      <4>1. <<>> \in Seq(Step)
        OBVIOUS
      <4> QED
        BY <1>3, <1>4, <4>1 DEF Advance, End
    <3> QED
      BY <3>1
  <2> QED
    BY <1>0, <1>2, <1>3, <1>4, <2>1 DEF ReqInv
<1>5. ASSUME Active(r), Fail(r), UNCHANGED <<kind, alive, up>>, shaken \subseteq shaken', r \in shaken'
      PROVE  PoolTypes' /\ ReqInv(r)' /\ failed' \subseteq shaken'
  BY <1>4, <1>5 DEF Fail
<1>6. CASE Arrive(r)
  <2>1. PICK k \in Kinds : kind' = [kind EXCEPT ![r] = k] /\ todo' = [todo EXCEPT ![r] = Awaits(k)]
    BY <1>6 DEF Arrive
  <2>2. Held(r) = {}
    BY <1>0, <1>6 DEF Arrive, ReqInv, WillRelease
  <2>3. k # None
    BY PoolAssumption
  <2>4. /\ Held(r)' = {} /\ r \notin locked' /\ UNCHANGED <<holder, up, alive, failed>>
        /\ shaken' = IF up THEN shaken ELSE shaken \cup {r}
    BY <1>0, <1>6, <2>2 DEF Arrive, Held, ReqInv
  <2>5. Awaits(k) \in Seq(Step) /\ Fit(Awaits(k), Unheld(k))
    BY AwaitsFit
  <2>6. kind'[r] = k /\ todo'[r] = Awaits(k) /\ PoolTypes'
    BY <2>1, <2>4, <2>5
  <2> QED
    BY <1>1, <2>3, <2>4, <2>5, <2>6 DEF ReqInv
<1>7. CASE Checkout(r)
  <2>1. Active(r) /\ Held(r) = {} /\ Head(todo[r]) \in DbAwaits
    BY <1>7 DEF Checkout, NeedsConnection, Await, DbAwaits
  <2>2. UNCHANGED <<app, up, kind, shaken>>
    BY <1>7 DEF Checkout
  <2>3. CASE Fail(r) /\ ~up /\ UNCHANGED alive
    <3>1. r \in shaken
      BY <1>0, <2>1, <2>3 DEF ReqInv
    <3> QED
      BY <1>1, <1>5, <2>1, <2>2, <2>3, <3>1
  <2>4. ASSUME NEW c \in Conns, up, holder' = [holder EXCEPT ![c] = r], alive' = alive \cup {c},
               UNCHANGED <<todo, locked, failed>>
        PROVE  PoolTypes' /\ ReqInv(r)' /\ failed' \subseteq shaken'
    <3>1. Held(r)' = {c}
      BY <2>1, <2>4 DEF Held
    <3>2. r \notin locked /\ WillRelease(todo[r], X)
      <4>1. r \notin locked
        BY <1>0, <2>1 DEF ReqInv
      <4>2. CASE Head(todo[r]) \in {"query", "write"}
        BY <1>3, <2>1, <4>1, <4>2
      <4>3. CASE Head(todo[r]) = "click"
        <5>1. Len(todo[r]) >= 1 /\ todo[r][1] = "click" /\ Len(todo[r]) \in Nat
          BY <2>1, <4>3 DEF Active
        <5>2. "click" \notin X /\ 1 \in 1 .. Len(todo[r]) /\ \A m \in 1 .. 1 : m = 1
          BY <5>1 DEF Unheld
        <5>3. WillRelease(todo[r], X)
          BY <5>1, <5>2 DEF WillRelease, Releasing
        <5> QED
          BY <4>1, <5>3
      <4> QED
        BY <2>1, <4>1, <4>2, <4>3 DEF DbAwaits
    <3> QED
      BY <1>0, <1>3, <2>1, <2>2, <2>4, <3>1, <3>2 DEF ReqInv, Active
  <2> QED
    BY <1>1, <1>7, <2>3, <2>4 DEF Checkout, PrePing
<1>8. CASE TimesOut(r)
  <2>1. Active(r) /\ Fail(r) /\ UNCHANGED <<kind, alive, up>> /\ shaken' = shaken \cup {r}
    BY <1>8 DEF TimesOut, NeedsConnection, DbAwaits, Await
  <2> QED
    BY <1>1, <1>5, <2>1
<1>9. ASSUME Active(r), ~(Held(r) \subseteq alive) PROVE r \in shaken
  BY <1>0, <1>9 DEF ReqInv
<1>10. CASE Query(r)
  <2>1. /\ Active(r) /\ Head(todo[r]) \in {"query", "write"} /\ Held(r) # {}
        /\ UNCHANGED <<up, alive, kind, shaken>>
    BY <1>10 DEF Query, Await, NeedsConnection, DbAwaits
  <2>2. CASE ~(Held(r) \subseteq alive) /\ Fail(r)
    BY <1>1, <1>5, <1>9, <2>1, <2>2
  <2>3. CASE Advance(r) /\ UNCHANGED <<holder, failed>>
    <3>1. todo' \in [Reqs -> Seq(Step)] /\ todo'[r] = Tail(todo[r])
      BY <1>3, <2>1, <2>3 DEF Advance
    <3>2. Held(r)' = Held(r) /\ WillRelease(todo'[r], X) /\ Fit(todo'[r], X)
      BY <1>3, <2>1, <2>3, <3>1 DEF Held, Releasing
    <3> QED
      BY <1>0, <1>1, <1>3, <2>1, <2>3, <3>1, <3>2 DEF ReqInv
  <2> QED
    BY <1>10, <2>2, <2>3 DEF Query
<1>11. CASE Commit(r)
  <2>1. Active(r) /\ UNCHANGED <<up, alive, kind, shaken>>
    BY <1>11 DEF Commit, Await
  <2>2. CASE ~(Held(r) \subseteq alive) /\ Fail(r)
    BY <1>1, <1>5, <1>9, <2>1, <2>2
  <2>3. CASE Release(r) /\ Advance(r) /\ UNCHANGED failed
    BY <1>1, <1>4, <2>1, <2>3
  <2> QED
    BY <1>11, <2>2, <2>3 DEF Commit
<1>12. CASE Close(r)
  <2>1. /\ Active(r) /\ Release(r) /\ Advance(r)
        /\ UNCHANGED <<up, alive, kind, failed, shaken>>
    BY <1>12 DEF Close, Await
  <2> QED
    BY <1>1, <1>4, <2>1
<1>13. CASE Elsewhere(r)
  <2>1. /\ Active(r) /\ Head(todo[r]) \in {"redis", "send"} /\ Advance(r)
        /\ UNCHANGED <<up, alive, kind, shaken, holder, locked, failed>>
    BY <1>13 DEF Elsewhere, Await
  <2>2. todo' \in [Reqs -> Seq(Step)] /\ todo'[r] = Tail(todo[r])
    BY <1>3, <2>1 DEF Advance
  <2>3. Held(r)' = Held(r) /\ Fit(todo'[r], X) /\ (WillRelease(todo[r], X) => WillRelease(todo'[r], X))
    BY <1>3, <2>1, <2>2 DEF Held, Releasing
  <2> QED
    BY <1>0, <1>1, <1>3, <2>1, <2>2, <2>3 DEF ReqInv
<1>14. CASE Refuse(r)
  <2>1. /\ kind[r] # None /\ Release(r) /\ End(r)
        /\ UNCHANGED <<up, alive, kind, failed, shaken>>
    BY <1>14 DEF Refuse, InHandler
  <2>2. /\ Held(r)' = {} /\ r \notin locked' /\ holder' \in [Conns -> Reqs \cup {Idle, Closed}]
    BY <1>0, <2>1 DEF Release, Returned, Held
  <2>3. <<>> \in Seq(Step) /\ Fit(<<>>, X)
    BY DEF Fit
  <2>4. todo' \in [Reqs -> Seq(Step)] /\ todo'[r] = <<>>
    BY <2>1, <2>3 DEF End
  <2> QED
    BY <1>1, <2>1, <2>2, <2>3, <2>4 DEF ReqInv, Active
<1> QED
  BY <1>6, <1>7, <1>8, <1>10, <1>11, <1>12, <1>13, <1>14 DEF Handle

(* Starting, stopping and the database's outages leave what is promised alone. *)
LEMMA SurroundingsStep ==
  ASSUME PInv, StartUp \/ ShutDown \/ DbStops \/ DbStarts \/ UNCHANGED vars
  PROVE  PInv'
<1> USE DEF PInv, PoolTypes
<1>1. CASE StartUp
  <2>1. /\ app' # "starting" /\ UNCHANGED <<up, kind, todo, locked, failed, shaken>>
        /\ app = "starting"
        /\ holder' = holder \/ holder' = [holder EXCEPT ![1] = Idle]
    BY <1>1 DEF StartUp
  <2>2. ASSUME NEW r \in Reqs PROVE todo[r] = <<>> /\ Held(r) = {} /\ r \notin locked /\ Held(r)' = {}
    <3>1. todo[r] = <<>> /\ ReqInv(r)
      BY <2>1 DEF ReqInv
    <3>2. Held(r) = {} /\ r \notin locked
      BY <3>1 DEF ReqInv, WillRelease
    <3>3. r # Idle
      BY PoolAssumption
    <3> QED
      BY <2>1, <3>1, <3>2, <3>3 DEF Held
  <2>3. 1 \in Conns /\ holder' \in [Conns -> Reqs \cup {Idle, Closed}]
    BY <2>1, PoolAssumption DEF Conns
  <2> QED
    BY <2>1, <2>2, <2>3 DEF ReqInv, Active
<1>2. CASE ShutDown
  <2>1. app' # "starting" /\ UNCHANGED <<up, holder, alive, kind, todo, locked, failed, shaken>>
    BY <1>2 DEF ShutDown
  <2> QED
    BY <2>1 DEF ReqInv, Active, Held
<1>3. CASE DbStops
  <2>1. /\ locked' = {} /\ UNCHANGED <<app, holder, kind, todo, failed>>
        /\ shaken' = shaken \cup {r \in Reqs : Active(r)}
    BY <1>3 DEF DbStops
  <2> QED
    BY <2>1 DEF ReqInv, Active, Held
<1>4. CASE DbStarts
  <2>1. ~up /\ UNCHANGED <<app, holder, alive, kind, todo, locked, failed, shaken>>
    BY <1>4 DEF DbStarts
  <2> QED
    BY <2>1 DEF ReqInv, Active, Held
<1>5. CASE UNCHANGED vars
  BY <1>5 DEF vars, ReqInv, Active, Held
<1> QED
  BY <1>1, <1>2, <1>3, <1>4, <1>5

(* Before anybody has come, nothing is held. *)
LEMMA PoolInit ==
  ASSUME Init
  PROVE  PInv
<1>1. PoolTypes /\ failed \subseteq shaken /\ (app = "starting" => \A r \in Reqs : kind[r] = None)
  BY DEF Init, PoolTypes
<1>2. ASSUME NEW r \in Reqs PROVE ReqInv(r)
  <2>1. todo[r] = <<>> /\ locked = {} /\ kind[r] = None
    BY DEF Init
  <2>2. Closed # r
    BY PoolAssumption
  <2>3. Held(r) = {}
    BY <2>2 DEF Init, Held
  <2> QED
    BY <2>1, <2>3 DEF ReqInv, Active, Fit
<1> QED
  BY <1>1, <1>2 DEF PInv

(* Every step keeps the invariant, of whoever makes it and of the others. *)
LEMMA PoolStep ==
  ASSUME PInv, [Next]_vars
  PROVE  PInv'
<1>1. CASE \E r \in Reqs : Arrive(r) \/ Handle(r) \/ TimesOut(r) \/ Refuse(r)
  <2>1. PICK r \in Reqs : Arrive(r) \/ Handle(r) \/ TimesOut(r) \/ Refuse(r)
    BY <1>1
  <2>2. PoolTypes' /\ ReqInv(r)' /\ failed' \subseteq shaken' /\ app' # "starting"
    BY <2>1, OwnStep
  <2>3. ASSUME NEW q \in Reqs PROVE ReqInv(q)'
    BY <2>1, <2>2, OthersUntouched
  <2> QED
    BY <2>2, <2>3 DEF PInv
<1>2. CASE StartUp \/ ShutDown \/ DbStops \/ DbStarts \/ UNCHANGED vars
  BY <1>2, SurroundingsStep
<1> QED
  BY <1>1, <1>2 DEF Next, AllOver

-------------------------------------------------------------------------------
(* Theorems *)

(* The inductive invariant: at every await a request that holds a connection  *)
(* has a commit, a close or a click before it, and one that was never shaken  *)
(* has its database and live connections.                                     *)
THEOREM PoolInductive == Spec => []PInv
BY PoolInit, PoolStep, PTL DEF Spec

(* EndedHoldsNothing for any number of requests, any pool and any outages: a *)
(* request that ended gave back its connections and its row lock.            *)
THEOREM EndedReleases == Spec => []EndedHoldsNothing
<1>1. PInv => EndedHoldsNothing
  BY DEF PInv, ReqInv, EndedHoldsNothing, Over, Active, WillRelease
<1> QED
  BY <1>1, PoolInductive, PTL

(* FailureExplained likewise: with the pre-ping a request loses a database step *)
(* only to an outage in its time or to the pool's time-out.                     *)
THEOREM FailuresHaveCauses == Spec => []FailureExplained
<1>1. PInv => FailureExplained
  BY DEF PInv, FailureExplained
<1> QED
  BY <1>1, PoolInductive, PTL

(* WaitsWithoutConnection likewise, where get_db commits before the response: *)
(* no connection is held by a response on its way, nor by a probe at Redis.   *)
THEOREM WaitsHoldNothing ==
  ASSUME CommitsFirst
  PROVE  Spec => []WaitsWithoutConnection
<1>1. PInv => WaitsWithoutConnection
  <2> SUFFICES ASSUME PInv, NEW r \in Reqs, Held(r) # {},
                      Await(r) = "send" \/ (Await(r) = "redis" /\ kind[r] = "health")
               PROVE  FALSE
    BY DEF WaitsWithoutConnection
  <2>1. todo[r] \in Seq(Step) /\ WillRelease(todo[r], Unheld(kind[r]))
    BY DEF PInv, PoolTypes, ReqInv
  <2>2. PICK j \in 1 .. Len(todo[r]) : \A m \in 1 .. j : todo[r][m] \notin Unheld(kind[r])
    BY <2>1 DEF WillRelease
  <2>3. Await(r) = todo[r][1] /\ 1 \in 1 .. j
    BY <2>1, <2>2 DEF Await, Active
  <2> QED
    BY CommitsFirst, <2>2, <2>3 DEF Unheld
<1> QED
  BY <1>1, PoolInductive, PTL

-------------------------------------------------------------------------------
(* Type correctness *)

(* A session has one connection, so that what it gives back fits the pool. *)
OneEach == \A c, d \in Conns : holder[c] = holder[d] /\ holder[c] \in Reqs => c = d

(* At most one session has written the contended row. *)
OneLock == locked = {} \/ \E r \in Reqs : locked = {r}

PoolTypeInv ==
  /\ PInv /\ TypeOK /\ OneEach /\ OneLock
  /\ app = "starting" => InPool = {}

(* The pool's part of a step counts as many connections as it may keep. *)
LEMMA ConnsFinite ==
  /\ IsFiniteSet(Conns) /\ IsFiniteSet(InPool) /\ IsFiniteSet(InPool')
  /\ Cardinality(InPool) \in Nat /\ Cardinality(InPool') \in Nat
<1>1. IsFiniteSet(Conns)
  BY PoolAssumption, FS_Interval DEF Conns
<1>2. InPool \subseteq Conns /\ InPool' \subseteq Conns
  BY DEF InPool
<1> QED
  BY <1>1, <1>2, FS_Subset, FS_CardinalityType

(* Giving back adds at most one connection to the pool, and only if it has room. *)
LEMMA ReturnedFits ==
  ASSUME TypeOK, OneEach, NEW r \in Reqs, holder' = Returned(r)
  PROVE  /\ holder' \in [Conns -> Reqs \cup {Idle, Closed}]
         /\ OneEach' /\ Cardinality(InPool)' <= PoolSize
<1>1. Idle \notin Reqs /\ Closed \notin Reqs /\ Idle # Closed /\ PoolSize \in Nat
  BY PoolAssumption
<1>2. /\ holder' \in [Conns -> Reqs \cup {Idle, Closed}]
      /\ \A c \in Conns : holder[c] # r => holder'[c] = holder[c]
      /\ \A c \in Conns : holder[c] = r =>
           holder'[c] = IF Cardinality(InPool) < PoolSize THEN Idle ELSE Closed
  BY DEF TypeOK, Returned
<1>3. OneEach'
  BY <1>1, <1>2 DEF OneEach
<1>4. CASE Cardinality(InPool) < PoolSize /\ Held(r) # {}
  <2>1. PICK c \in Conns : Held(r) = {c} /\ holder[c] = r
    BY <1>4 DEF OneEach, Held
  <2>2. InPool' = InPool \cup {c}
    <3>1. ASSUME NEW d \in Conns PROVE holder'[d] = Idle <=> holder[d] = Idle \/ d = c
      BY <1>1, <1>2, <1>4, <2>1 DEF Held
    <3> QED
      BY <3>1 DEF InPool
  <2>3. c \notin InPool
    BY <1>1, <2>1 DEF InPool
  <2>4. Cardinality(InPool \cup {c}) = Cardinality(InPool) + 1
    BY <2>3, ConnsFinite, FS_AddElement
  <2> QED
    BY <1>1, <1>2, <1>3, <1>4, <2>2, <2>4, ConnsFinite
<1>5. CASE ~(Cardinality(InPool) < PoolSize /\ Held(r) # {})
  <2>1. ASSUME NEW d \in Conns PROVE holder'[d] = Idle <=> holder[d] = Idle
    BY <1>1, <1>2, <1>5 DEF Held
  <2>2. InPool' = InPool
    BY <2>1 DEF InPool
  <2> QED
    BY <1>2, <1>3, <2>2 DEF TypeOK
<1> QED
  BY <1>4, <1>5

(* A check-out takes a connection of nobody. *)
LEMMA TakenFits ==
  ASSUME TypeOK, OneEach, NEW r \in Reqs, Held(r) = {},
         NEW c \in Conns, holder' = [holder EXCEPT ![c] = r]
  PROVE  /\ holder' \in [Conns -> Reqs \cup {Idle, Closed}]
         /\ OneEach' /\ Cardinality(InPool)' <= PoolSize
<1>1. Idle \notin Reqs /\ PoolSize \in Nat
  BY PoolAssumption
<1>2. /\ holder' \in [Conns -> Reqs \cup {Idle, Closed}] /\ holder'[c] = r
      /\ \A d \in Conns : d # c => holder'[d] = holder[d]
  BY DEF TypeOK
<1>3. OneEach'
  BY <1>2 DEF OneEach, Held
<1>4. InPool' \subseteq InPool
  BY <1>1, <1>2 DEF InPool
<1>5. Cardinality(InPool') <= Cardinality(InPool)
  BY <1>4, ConnsFinite, FS_Subset
<1> QED
  BY <1>1, <1>2, <1>3, <1>5, ConnsFinite DEF TypeOK

(* Each step takes, keeps or gives back, and locks only what nobody has locked. *)
LEMMA HolderStep ==
  ASSUME PoolTypeInv, Next
  PROVE  /\ OneEach' /\ Cardinality(InPool)' <= PoolSize
         /\ app' = "starting" => InPool' = {}
<1> USE DEF PoolTypeInv
<1>1. CASE holder' = holder
  <2>1. InPool' = InPool /\ OneEach'
    BY <1>1 DEF InPool, OneEach
  <2>2. app' = "starting" => app = "starting"
    BY DEF Next, Arrive, Handle, Checkout, Query, Commit, Close, Elsewhere, TimesOut, Refuse,
           StartUp, ShutDown, DbStops, DbStarts, AllOver, vars
  <2> QED
    BY <2>1, <2>2 DEF TypeOK
<1>2. CASE StartUp
  <2>1. app' # "starting" /\ (holder' = holder \/ holder' = [holder EXCEPT ![1] = Idle])
    BY <1>2 DEF StartUp
  <2>2. CASE holder' = [holder EXCEPT ![1] = Idle]
    <3>1. InPool = {} /\ Idle \notin Reqs /\ PoolSize \in Nat \ {0}
      BY <1>2, PoolAssumption DEF StartUp
    <3>2. \A d \in Conns : holder'[d] = IF d = 1 THEN Idle ELSE holder[d]
      BY <2>2 DEF TypeOK
    <3>3. OneEach' /\ InPool' \subseteq {1}
      BY <3>1, <3>2 DEF OneEach, InPool
    <3>4. Cardinality(InPool') <= 1
      <4>1. IsFiniteSet({1}) /\ Cardinality({1}) = 1
        BY FS_Singleton
      <4> QED
        BY <3>3, <4>1, FS_Subset
    <3> QED
      BY <2>1, <3>1, <3>3, <3>4, ConnsFinite
  <2> QED
    BY <1>1, <2>1, <2>2
<1>3. ASSUME NEW r \in Reqs, Arrive(r) \/ Handle(r) \/ TimesOut(r) \/ Refuse(r)
      PROVE  /\ OneEach' /\ Cardinality(InPool)' <= PoolSize /\ app' # "starting"
  <2>1. app' # "starting"
    BY <1>3, OwnStep
  <2>2. \/ holder' = holder \/ holder' = Returned(r)
        \/ Held(r) = {} /\ \E c \in Conns : holder' = [holder EXCEPT ![c] = r]
    BY <1>3 DEF Arrive, Handle, Checkout, Query, Commit, Close, Elsewhere, TimesOut, Refuse,
                Fail, Release, NeedsConnection
  <2> QED
    BY <1>1, <2>1, <2>2, ReturnedFits, TakenFits
<1>4. CASE ShutDown \/ DbStops \/ DbStarts \/ AllOver
  BY <1>1, <1>4 DEF ShutDown, DbStops, DbStarts, AllOver, vars
<1> QED
  BY <1>2, <1>3, <1>4 DEF Next

(* The other variables keep their types. *)
LEMMA PoolTypeStep ==
  ASSUME PoolTypeInv, [Next]_vars
  PROVE  PoolTypeInv'
<1> USE DEF PoolTypeInv
<1>1. PInv'
  BY PoolStep
<1>2. CASE UNCHANGED vars
  <2>1. TypeOK'
    BY <1>2 DEF vars, TypeOK, InPool
  <2> QED
    BY <1>1, <1>2, <2>1 DEF vars, OneEach, OneLock, InPool
<1>3. CASE Next
  <2>1. OneEach' /\ Cardinality(InPool)' <= PoolSize /\ (app' = "starting" => InPool' = {})
    BY <1>3, HolderStep
  <2>2. /\ app' \in {"starting", "serving", "failed", "stopped"}
        /\ up' \in BOOLEAN /\ outages' \in 0 .. MaxOutages
        /\ alive' \subseteq Conns /\ failed' \subseteq Reqs /\ shaken' \subseteq Reqs /\ OneLock'
    <3>1. CASE StartUp
      <4>1. 1 \in Conns
        BY PoolAssumption DEF Conns
      <4> QED
        BY <3>1, <4>1 DEF StartUp, TypeOK, OneLock
    <3>2. CASE ShutDown \/ DbStarts \/ AllOver
      BY <3>2 DEF ShutDown, DbStarts, AllOver, vars, TypeOK, OneLock
    <3>3. CASE DbStops
      <4>1. outages' \in 0 .. MaxOutages
        BY <3>3, PoolAssumption DEF DbStops, TypeOK
      <4>2. up' = FALSE /\ alive' = {} /\ OneLock'
        BY <3>3 DEF DbStops, OneLock
      <4> QED
        BY <3>3, <4>1, <4>2 DEF DbStops, TypeOK
    <3>4. ASSUME NEW r \in Reqs, Arrive(r) \/ Handle(r) \/ TimesOut(r) \/ Refuse(r)
          PROVE  /\ UNCHANGED <<app, up, outages>>
                 /\ alive' \subseteq Conns /\ failed' \subseteq Reqs /\ shaken' \subseteq Reqs
                 /\ OneLock'
      <4>1. UNCHANGED <<app, up, outages>>
        BY <3>4 DEF Arrive, Handle, Checkout, Query, Commit, Close, Elsewhere, TimesOut, Refuse
      <4>2. alive' = alive \/ \E c \in Conns : alive' = alive \cup {c}
        BY <3>4 DEF Arrive, Handle, Checkout, Query, Commit, Close, Elsewhere, TimesOut, Refuse
      <4>3. /\ failed' = failed \/ failed' = failed \cup {r}
            /\ shaken' = shaken \/ shaken' = shaken \cup {r}
        BY <3>4 DEF Arrive, Handle, Checkout, Query, Commit, Close, Elsewhere, TimesOut, Refuse,
                    Fail
      <4>4. locked' = locked \/ locked' = locked \ {r} \/ locked' = {r}
        BY <3>4 DEF Arrive, Handle, Checkout, Query, Commit, Close, Elsewhere, TimesOut, Refuse,
                    Fail, Release
      <4> QED
        BY <4>1, <4>2, <4>3, <4>4 DEF TypeOK, OneLock
    <3> QED
      BY <1>3, <3>1, <3>2, <3>3, <3>4 DEF Next, TypeOK
  <2>3. locked' \subseteq Reqs /\ Cardinality(locked') <= 1
    BY <2>2, FS_EmptySet, FS_Singleton DEF OneLock
  <2>4. TypeOK'
    BY <1>1, <2>1, <2>2, <2>3 DEF TypeOK, PInv, PoolTypes, Step
  <2> QED
    BY <1>1, <2>1, <2>2, <2>4
<1> QED
  BY <1>2, <1>3

(* TypeOK for any pool: it keeps at most PoolSize idle connections, and at most *)
(* one session has the row's lock.                                              *)
THEOREM PoolTypeCorrect == Spec => []TypeOK
<1>1. Init => PoolTypeInv
  <2> SUFFICES ASSUME Init PROVE PoolTypeInv
    OBVIOUS
  <2>1. PInv
    BY PoolInit
  <2>2. Closed \notin Reqs /\ Closed # Idle
    BY PoolAssumption
  <2>3. InPool = {} /\ OneEach /\ OneLock
    BY <2>2 DEF Init, InPool, OneEach, OneLock
  <2>4. TypeOK
    BY <2>1, <2>3, FS_EmptySet, PoolAssumption DEF Init, TypeOK, PInv, PoolTypes, Step
  <2> QED
    BY <2>1, <2>3, <2>4 DEF PoolTypeInv
<1>2. PoolTypeInv => TypeOK
  BY DEF PoolTypeInv
<1> QED
  BY <1>1, <1>2, PoolTypeStep, PTL DEF Spec

-------------------------------------------------------------------------------
(* Who waits for whom *)

(* A request writes at most once. *)
OneWrite(s) == \A i, j \in 1 .. Len(s) : s[i] = "write" /\ s[j] = "write" => i = j
NoWrite(s) == \A i \in 1 .. Len(s) : s[i] # "write"

(* Whoever has the row's lock has its write behind it, and does not wait for the lock. *)
WriteInv(r) == OneWrite(todo[r]) /\ (r \in locked => NoWrite(todo[r]))
WaitInv == PInv /\ OneLock /\ \A r \in Reqs : WriteInv(r)

(* None of the requests writes twice. *)
LEMMA AwaitsWriteOnce ==
  ASSUME NEW k \in Kinds
  PROVE  OneWrite(Awaits(k))
<1> DEFINE w == <<"query", "redis", "query", "write", "redis">>
<1>1. ASSUME NEW s \in Seq(Step), OneWrite(s), NEW click \in {<<>>, <<"click">>}
      PROVE  OneWrite(s \o Leaving(click))
  <2> DEFINE t == Leaving(click)
  <2>1. t \in Seq(Step) /\ \A i \in 1 .. Len(t) : t[i] # "write"
    BY LeavingReleases
  <2> HIDE DEF t
  <2>2. /\ Len(s \o t) = Len(s) + Len(t) /\ Len(s) \in Nat /\ Len(t) \in Nat
        /\ \A i \in 1 .. Len(s) + Len(t) :
             (s \o t)[i] = IF i <= Len(s) THEN s[i] ELSE t[i - Len(s)]
    BY <2>1
  <2>3. ASSUME NEW i \in 1 .. Len(s \o t), (s \o t)[i] = "write"
        PROVE  i \in 1 .. Len(s) /\ s[i] = "write"
    <3>1. CASE i > Len(s)
      <4>1. i - Len(s) \in 1 .. Len(t) /\ (s \o t)[i] = t[i - Len(s)]
        BY <2>2, <3>1
      <4> QED
        BY <2>1, <2>3, <4>1
    <3> QED
      BY <2>2, <2>3, <3>1
  <2> QED
    BY <1>1, <2>3 DEF OneWrite, t
<1>2. /\ w \in Seq(Step)
      /\ <<"query", "query", "query", "query">> \in Seq(Step)
      /\ <<"redis", "query", "redis", "query">> \in Seq(Step)
      /\ <<"redis", "query">> \in Seq(Step)
  BY DEF Step
<1>3. /\ OneWrite(w)
      /\ OneWrite(<<"query", "query", "query", "query">>)
      /\ OneWrite(<<"redis", "query", "redis", "query">>)
      /\ OneWrite(<<"redis", "query">>)
  BY DEF OneWrite
<1>4. OneWrite(Probe)
  BY DEF OneWrite, Probe
<1>5. /\ OneWrite(WriteAwaits) /\ OneWrite(StatsAwaits) /\ OneWrite(MissAwaits)
      /\ OneWrite(HitAwaits) /\ OneWrite(OrphanAwaits)
  <2> HIDE DEF w
  <2>1. WriteAwaits = w \o Leaving(<<>>)
    BY DEF WriteAwaits, w
  <2> QED
    BY <1>1, <1>2, <1>3, <2>1 DEF StatsAwaits, MissAwaits, HitAwaits, OrphanAwaits
<1> QED
  BY <1>4, <1>5, PoolAssumption DEF Awaits

(* Behind its write, a request has none before it. *)
LEMMA WriteTail ==
  ASSUME NEW s \in Seq(Step), s # <<>>, OneWrite(s)
  PROVE  /\ OneWrite(Tail(s)) /\ (NoWrite(s) => NoWrite(Tail(s)))
         /\ Head(s) = "write" => NoWrite(Tail(s))
<1>1. /\ Len(s) \in Nat \ {0} /\ Head(s) = s[1] /\ Len(Tail(s)) = Len(s) - 1
      /\ \A i \in 1 .. Len(s) - 1 : Tail(s)[i] = s[i + 1] /\ i + 1 \in 2 .. Len(s)
  OBVIOUS
<1> QED
  BY <1>1 DEF OneWrite, NoWrite

(* A step of its own leaves a request no write behind its lock. *)
LEMMA OwnWrite ==
  ASSUME WaitInv, NEW r \in Reqs, Arrive(r) \/ Handle(r) \/ TimesOut(r) \/ Refuse(r)
  PROVE  WriteInv(r)'
<1>1. /\ todo \in [Reqs -> Seq(Step)] /\ WriteInv(r) /\ ReqInv(r)
  BY DEF WaitInv, PInv, PoolTypes
<1>2. OneWrite(<<>>) /\ NoWrite(<<>>)
  BY DEF OneWrite, NoWrite
<1>3. CASE Arrive(r)
  <2>1. PICK k \in Kinds : todo' = [todo EXCEPT ![r] = Awaits(k)]
    BY <1>3 DEF Arrive
  <2>2. kind[r] = None /\ locked' = locked
    BY <1>3 DEF Arrive
  <2>3. r \notin locked
    BY <1>1, <2>2 DEF ReqInv, WillRelease
  <2> QED
    BY <1>1, <2>1, <2>2, <2>3, AwaitsWriteOnce DEF WriteInv
<1>4. CASE Active(r) /\ (Advance(r) \/ End(r)) /\ (r \in locked' => r \in locked)
  <2>1. todo'[r] \in {Tail(todo[r]), <<>>}
    BY <1>1, <1>4 DEF Advance, End
  <2>2. OneWrite(Tail(todo[r])) /\ (NoWrite(todo[r]) => NoWrite(Tail(todo[r])))
    BY <1>1, <1>4, WriteTail DEF Active, WriteInv
  <2> QED
    BY <1>1, <1>2, <1>4, <2>1, <2>2 DEF WriteInv
<1>5. CASE Active(r) /\ Advance(r) /\ Head(todo[r]) = "write"
  <2>1. todo'[r] = Tail(todo[r])
    BY <1>1, <1>5 DEF Advance
  <2>2. OneWrite(Tail(todo[r])) /\ NoWrite(Tail(todo[r]))
    BY <1>1, <1>5, WriteTail DEF Active, WriteInv
  <2> QED
    BY <2>1, <2>2 DEF WriteInv
<1>6. CASE UNCHANGED <<todo, locked>>
  BY <1>1, <1>6 DEF WriteInv
<1>7. ASSUME Fail(r) PROVE (Advance(r) \/ End(r)) /\ (r \in locked' => r \in locked)
  BY <1>7 DEF Fail, Release
<1>8. CASE Checkout(r) \/ TimesOut(r)
  <2>1. Active(r)
    BY <1>8 DEF Checkout, TimesOut, NeedsConnection, Await, DbAwaits
  <2> QED
    BY <1>4, <1>6, <1>7, <1>8, <2>1 DEF Checkout, TimesOut
<1>9. CASE Query(r)
  <2>1. Active(r) /\ Await(r) = Head(todo[r])
    BY <1>9 DEF Query, Await
  <2>2. \/ Fail(r)
        \/ Advance(r) /\ locked' = locked
        \/ Await(r) = "write" /\ Advance(r)
    BY <1>9, Zenon DEF Query
  <2> QED
    BY <1>4, <1>5, <1>7, <2>1, <2>2
<1>10. CASE Commit(r) \/ Close(r) \/ Elsewhere(r)
  <2>1. Active(r)
    BY <1>10 DEF Commit, Close, Elsewhere, Await
  <2>2. \/ Fail(r)
        \/ Advance(r) /\ (r \in locked' => r \in locked)
    <3>1. Release(r) => (r \in locked' => r \in locked)
      BY DEF Release
    <3>2. CASE Elsewhere(r)
      BY <3>2 DEF Elsewhere
    <3>3. CASE Commit(r)
      BY <3>1, <3>3, Zenon DEF Commit
    <3>4. CASE Close(r)
      BY <3>1, <3>4, Zenon DEF Close
    <3> QED
      BY <1>10, <3>2, <3>3, <3>4
  <2> QED
    BY <1>4, <1>7, <2>1, <2>2
<1>11. CASE Refuse(r)
  <2>1. todo'[r] = <<>>
    BY <1>1, <1>11 DEF Refuse, End
  <2>2. r \notin locked'
    BY <1>11 DEF Refuse, Release
  <2> QED
    BY <1>2, <2>1, <2>2 DEF WriteInv
<1> QED
  BY <1>3, <1>8, <1>9, <1>10, <1>11 DEF Handle

(* Locks are taken one at a time, and from nobody. *)
LEMMA WaitStep ==
  ASSUME WaitInv, [Next]_vars
  PROVE  WaitInv'
<1>1. PInv'
  BY PoolStep DEF WaitInv
<1>2. ASSUME NEW r \in Reqs, Arrive(r) \/ Handle(r) \/ TimesOut(r) \/ Refuse(r)
      PROVE  WaitInv'
  <2>1. locked' = locked \/ locked' = locked \ {r} \/ locked' = {r}
    BY <1>2 DEF Arrive, Handle, Checkout, Query, Commit, Close, Elsewhere, TimesOut, Refuse,
                Fail, Release
  <2>2. OneLock'
    BY <2>1 DEF WaitInv, OneLock
  <2>3. ASSUME NEW q \in Reqs, q # r PROVE WriteInv(q)'
    <3>1. todo \in [Reqs -> Seq(Step)] /\ WriteInv(q)
      BY DEF WaitInv, PInv, PoolTypes
    <3>2. todo'[q] = todo[q]
      BY <1>2, <2>3, <3>1 DEF Arrive, Handle, Checkout, Query, Commit, Close, Elsewhere, TimesOut,
                              Refuse, Fail, Advance, End
    <3>3. q \in locked' => q \in locked
      BY <2>1, <2>3
    <3> QED
      BY <3>1, <3>2, <3>3 DEF WriteInv
  <2>4. WriteInv(r)'
    BY <1>2, OwnWrite
  <2> QED
    BY <1>1, <2>2, <2>3, <2>4 DEF WaitInv
<1>3. CASE StartUp \/ ShutDown \/ DbStops \/ DbStarts \/ UNCHANGED vars
  <2>1. todo' = todo /\ (locked' = locked \/ locked' = {})
    BY <1>3 DEF StartUp, ShutDown, DbStops, DbStarts, vars
  <2> QED
    BY <1>1, <2>1 DEF WaitInv, OneLock, WriteInv
<1> QED
  BY <1>2, <1>3 DEF Next, AllOver

(* Whoever holds a connection can go on, unless it waits for the row's lock. *)
LEMMA HoldersGoOn ==
  ASSUME WaitInv, NEW q \in Reqs, Held(q) # {}, locked = {} \/ q \in locked
  PROVE  MayGoOn(q)
<1>1. todo[q] \in Seq(Step) /\ ReqInv(q) /\ WriteInv(q)
  BY DEF WaitInv, PInv, PoolTypes
<1>2. Active(q)
  BY <1>1 DEF ReqInv, WillRelease, Active
<1>3. ~NeedsConnection(q)
  BY DEF NeedsConnection
<1>4. q \in locked => Await(q) # "write"
  <2>1. Len(todo[q]) >= 1 /\ Head(todo[q]) = todo[q][1] /\ Len(todo[q]) \in Nat
    BY <1>1, <1>2 DEF Active
  <2> QED
    BY <1>1, <1>2, <2>1 DEF WriteInv, NoWrite, Await
<1> QED
  BY <1>2, <1>3, <1>4 DEF MayGoOn

(* SomebodyGoesOn, for any number of requests, any pool and any outages: the pool *)
(* and the row's lock never have everyone wait for everyone.                      *)
THEOREM NobodyIsStuck == Spec => []SomebodyGoesOn
<1>1. Init => WaitInv
  <2> SUFFICES ASSUME Init PROVE WaitInv
    OBVIOUS
  <2>1. locked = {} /\ \A r \in Reqs : todo[r] = <<>>
    BY DEF Init
  <2> QED
    BY <2>1, PoolInit DEF WaitInv, OneLock, WriteInv, OneWrite
<1>2. WaitInv => SomebodyGoesOn
  <2> SUFFICES ASSUME WaitInv, NEW r \in Reqs, Active(r), ~MayGoOn(r)
               PROVE  \E q \in Reqs : MayGoOn(q)
    BY DEF SomebodyGoesOn
  <2>1. CASE locked # {}
    <3>1. PICK q \in Reqs : q \in locked
      BY <2>1 DEF WaitInv, OneLock
    <3>2. Held(q) # {}
      BY <3>1 DEF WaitInv, PInv, ReqInv
    <3> QED
      BY <3>1, <3>2, HoldersGoOn
  <2>2. CASE locked = {}
    <3>1. \A c \in Conns : holder[c] \notin {Idle, Closed}
      BY <2>2 DEF MayGoOn
    <3>2. 1 \in Conns
      BY PoolAssumption DEF Conns
    <3>3. holder[1] \in Reqs
      BY <3>1, <3>2 DEF WaitInv, PInv, PoolTypes
    <3>4. Held(holder[1]) # {}
      BY <3>2 DEF Held
    <3> QED
      BY <2>2, <3>3, <3>4, HoldersGoOn
  <2> QED
    BY <2>1, <2>2
<1> QED
  BY <1>1, <1>2, WaitStep, PTL DEF Spec
===============================================================================
