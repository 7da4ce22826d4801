--------------------------- MODULE StatisticsProofs ---------------------------
(***************************************************************************)
(* The owner's report, proved for every number of clicks, visitors, days   *)
(* and requests: what it counts, of whom, and when the link is gone.       *)
(***************************************************************************)
EXTENDS Statistics, FiniteSetTheorems, TLAPS

(* The types, but for the numbers of a report. *)
Types ==
  /\ now \in Instants /\ deleted \in BOOLEAN
  /\ click \in [Visits -> Click \cup {None}]
  /\ stored \subseteq Visits /\ late \subseteq Reqs
  /\ pc \in [Reqs -> {"idle", "get_url", "get_stats", "select", "end"}]
  /\ ask \in [Reqs -> Question \cup {None}]
  /\ answer \in [Reqs -> {None, 200, 403, 404, 500}]
  /\ seen \in [Reqs -> SUBSET Visits] /\ DOMAIN report = Reqs

(* A stored click has its values, and a request its question. *)
StoredInv ==
  /\ \A v \in stored : click[v] # None
  /\ \A r \in Reqs : seen[r] \subseteq stored

(* The report was made of one look at the table, no earlier than the request. *)
Selected(S, r) == Window(S, ask[r].from, ask[r].to)
Looked(r) ==
  \E S \in SUBSET stored : seen[r] \subseteq S /\ report[r] = Report(Selected(S, r))

ReportInv ==
  \A r \in Reqs :
    /\ pc[r] # "idle" => ask[r] # None
    /\ pc[r] # "end" => report[r] = None /\ answer[r] = None
    /\ report[r] # None => Looked(r)

(* Who came too late is not let past the first look. *)
LateInv ==
  \A r \in late :
    deleted /\ pc[r] \in {"get_url", "end"} /\ answer[r] \in {None, 404}

SInv == Types /\ StoredInv /\ ReportInv /\ LateInv
-------------------------------------------------------------------------------
(* Steps *)

(* The types and the clicks' values are kept: a click is stored with its values. *)
LEMMA TypesStep ==
  ASSUME SInv, [Next]_vars
  PROVE  Types' /\ StoredInv'
<1> USE DEF SInv, Types, StoredInv
<1>1. ASSUME NEW v \in Visits, Begin(v) PROVE Types' /\ StoredInv'
  <2>1. PICK h \in Hashes : click' = [click EXCEPT ![v] = [clicked_at |-> now, ip_hash |-> h]]
    BY <1>1 DEF Begin
  <2>2. [clicked_at |-> now, ip_hash |-> h] \in Click
    BY DEF Click
  <2> QED
    BY <1>1, <2>1, <2>2, NoneAssumption DEF Begin
<1>2. ASSUME NEW v \in Visits, Store(v) PROVE Types' /\ StoredInv'
  BY <1>2 DEF Store
<1>3. ASSUME NEW r \in Reqs, Arrive(r) PROVE Types' /\ StoredInv'
  BY <1>3 DEF Arrive
<1>4. ASSUME NEW r \in Reqs, GetUrl(r) \/ GetStats(r) \/ Aggregate(r) PROVE Types' /\ StoredInv'
  BY <1>4 DEF GetUrl, GetStats, Aggregate, Respond
<1>5. CASE Delete
  BY <1>5 DEF Delete
<1>6. CASE Tick
  BY <1>6, StatisticsAssumption DEF Tick, Instants
<1>7. CASE AllOver \/ UNCHANGED vars
  BY <1>7 DEF AllOver, vars
<1> QED
  BY <1>1, <1>2, <1>3, <1>4, <1>5, <1>6, <1>7 DEF Next

(* The table only grows, and a stored click keeps its values. *)
LEMMA StoredKept ==
  ASSUME SInv, [Next]_vars
  PROVE  stored \subseteq stored' /\ \A v \in stored : click'[v] = click[v]
<1> USE DEF SInv, Types, StoredInv
<1>1. ASSUME NEW v \in Visits, Begin(v)
      PROVE  stored' = stored /\ \A w \in stored : click'[w] = click[w]
  BY <1>1 DEF Begin
<1>2. ASSUME NEW v \in Visits, Store(v) PROVE stored \subseteq stored' /\ click' = click
  BY <1>2 DEF Store
<1>3. ASSUME NEW r \in Reqs, Arrive(r) \/ GetUrl(r) \/ GetStats(r) \/ Aggregate(r)
      PROVE  stored' = stored /\ click' = click
  BY <1>3 DEF Arrive, GetUrl, GetStats, Aggregate
<1>4. CASE Delete \/ Tick \/ AllOver \/ UNCHANGED vars
  BY <1>4 DEF Delete, Tick, AllOver, vars
<1> QED
  BY <1>1, <1>2, <1>3, <1>4 DEF Next

(* So the same look makes the same report in every later state. *)
LEMMA ReportKept ==
  ASSUME SInv, [Next]_vars, NEW S \in SUBSET stored, NEW from, NEW to
  PROVE  Report(Window(S, from, to))' = Report(Window(S, from, to))
<1>1. \A v \in S : click'[v] = click[v]
  BY StoredKept
<1> DEFINE W == Window(S, from, to)
<1>2. W' = W
  BY <1>1 DEF Window
<1>3. W \subseteq S
  BY DEF Window
<1>4. \A v \in W : DayOf(v)' = DayOf(v) /\ click'[v].ip_hash = click[v].ip_hash
  BY <1>1, <1>3 DEF DayOf
<1> HIDE DEF W
<1>5. \A d : {v \in W : DayOf(v)' = d} = {v \in W : DayOf(v) = d}
  BY <1>4
<1>6. {DayOf(v)' : v \in W} = {DayOf(v) : v \in W}
  BY <1>4
<1>7. {click'[v].ip_hash : v \in W} = {click[v].ip_hash : v \in W}
  BY <1>4
<1>8. Total(W)' = Total(W) /\ Unique(W)' = Unique(W)
  BY <1>2, <1>7 DEF Total, Unique
<1>9. ByDay(W)' = ByDay(W)
  BY <1>2, <1>5, <1>6 DEF ByDay, On
<1> QED
  BY <1>8, <1>9 DEF Report, W

(* Whatever is kept of a request that does not step keeps its report's look. *)
LEMMA LookedKept ==
  ASSUME SInv, [Next]_vars, NEW r \in Reqs, Looked(r),
         ask'[r] = ask[r], report'[r] = report[r], seen'[r] = seen[r]
  PROVE  Looked(r)'
<1>1. PICK S \in SUBSET stored : seen[r] \subseteq S /\ report[r] = Report(Selected(S, r))
  BY DEF Looked
<1>2. PICK from, to : from = ask[r].from /\ to = ask[r].to
  OBVIOUS
<1>3. Report(Window(S, from, to))' = Report(Window(S, from, to))
  BY ReportKept
<1>4. Report(Selected(S, r))' = Report(Selected(S, r))
  BY <1>2, <1>3 DEF Selected
<1>5. S \in SUBSET stored'
  BY StoredKept
<1> QED
  BY <1>1, <1>4, <1>5 DEF Looked

(* A report is made once, from the table as it is then. *)
LEMMA ReportStep ==
  ASSUME SInv, [Next]_vars
  PROVE  ReportInv' /\ LateInv'
<1> USE DEF SInv, Types
<1>1. ASSUME NEW q \in Reqs, report'[q] = report[q], ask'[q] = ask[q], seen'[q] = seen[q]
      PROVE  report'[q] # None => Looked(q)'
  BY <1>1, LookedKept DEF ReportInv
<1>2. ASSUME UNCHANGED <<pc, ask, answer, report, seen, late>>, deleted => deleted'
      PROVE  ReportInv' /\ LateInv'
  BY <1>1, <1>2 DEF ReportInv, LateInv
<1>3. ASSUME NEW r \in Reqs, Arrive(r) PROVE ReportInv' /\ LateInv'
  <2>1. PICK k \in Question : ask' = [ask EXCEPT ![r] = k]
    BY <1>3 DEF Arrive
  <2>2. /\ pc[r] = "idle" /\ pc' = [pc EXCEPT ![r] = "get_url"]
        /\ seen' = [seen EXCEPT ![r] = stored]
        /\ late' = (IF deleted THEN late \cup {r} ELSE late)
        /\ UNCHANGED <<deleted, answer, report>>
    BY <1>3 DEF Arrive
  <2>3. k # None
    BY NoneAssumption
  <2>4. report[r] = None /\ answer[r] = None /\ r \notin late
    BY <2>2 DEF ReportInv, LateInv
  <2>5. ASSUME NEW q \in Reqs
        PROVE  /\ pc'[q] # "idle" => ask'[q] # None
               /\ pc'[q] # "end" => report'[q] = None /\ answer'[q] = None
               /\ report'[q] # None => Looked(q)'
    <3>1. CASE q = r
      BY <2>1, <2>2, <2>3, <2>4, <3>1
    <3>2. CASE q # r
      <4>1. /\ pc'[q] = pc[q] /\ ask'[q] = ask[q] /\ seen'[q] = seen[q]
            /\ report'[q] = report[q] /\ answer'[q] = answer[q]
        BY <2>1, <2>2, <3>2
      <4> QED
        BY <1>1, <4>1 DEF ReportInv
    <3> QED
      BY <3>1, <3>2
  <2>6. LateInv'
    BY <2>2, <2>4 DEF LateInv
  <2> QED
    BY <2>5, <2>6 DEF ReportInv
<1>4. ASSUME NEW r \in Reqs, GetUrl(r) \/ GetStats(r) PROVE ReportInv' /\ LateInv'
  <2>1. UNCHANGED <<deleted, ask, report, seen, late>> /\ pc[r] \in {"get_url", "get_stats"}
    BY <1>4 DEF GetUrl, GetStats
  <2>2. /\ pc'[r] # "idle" /\ (pc'[r] # "end" => answer'[r] = answer[r])
        /\ \A q \in Reqs \ {r} : pc'[q] = pc[q] /\ answer'[q] = answer[q]
    BY <1>4 DEF GetUrl, GetStats, Respond
  <2>3. r \in late => pc'[r] = "end" /\ answer'[r] = 404
    BY <1>4 DEF GetUrl, GetStats, Respond, Visible, LateInv
  <2>4. ASSUME NEW q \in Reqs
        PROVE  /\ pc'[q] # "idle" => ask'[q] # None
               /\ pc'[q] # "end" => report'[q] = None /\ answer'[q] = None
               /\ report'[q] # None => Looked(q)'
    <3>1. report'[q] # None => Looked(q)'
      BY <1>1, <2>1
    <3> QED
      BY <2>1, <2>2, <3>1 DEF ReportInv
  <2>5. LateInv'
    BY <2>1, <2>2, <2>3 DEF LateInv
  <2> QED
    BY <2>4, <2>5 DEF ReportInv
<1>5. ASSUME NEW r \in Reqs, Aggregate(r) PROVE ReportInv' /\ LateInv'
  <2>1. /\ pc[r] = "select" /\ UNCHANGED <<deleted, click, stored, ask, seen, late>>
        /\ report' = [report EXCEPT ![r] = Report(Selected(stored, r))]
        /\ pc' = [pc EXCEPT ![r] = "end"] /\ answer' = [answer EXCEPT ![r] = 200]
    BY <1>5 DEF Aggregate, Respond, Selected
  <2>2. r \notin late /\ \A q \in Reqs \ {r} :
          pc'[q] = pc[q] /\ answer'[q] = answer[q] /\ report'[q] = report[q]
    BY <2>1 DEF LateInv
  <2>3. ASSUME report'[r] # None PROVE Looked(r)'
    <3>1. CASE r \in DOMAIN report
      <4>1. report'[r] = Report(Selected(stored, r))
        BY <2>1, <3>1
      <4>2. Report(Selected(stored, r))' = Report(Selected(stored, r)) /\ seen'[r] \subseteq stored
        BY <2>1 DEF Report, Selected, Total, Unique, ByDay, Window, On, DayOf, StoredInv
      <4> QED
        BY <2>1, <4>1, <4>2 DEF Looked
    <3> QED
      BY <3>1
  <2>4. ASSUME NEW q \in Reqs
        PROVE  /\ pc'[q] # "idle" => ask'[q] # None
               /\ pc'[q] # "end" => report'[q] = None /\ answer'[q] = None
               /\ report'[q] # None => Looked(q)'
    <3>1. CASE q = r
      BY <2>1, <2>3, <3>1 DEF ReportInv
    <3>2. CASE q # r
      <4>1. report'[q] # None => Looked(q)'
        BY <1>1, <2>1, <2>2, <3>2
      <4> QED
        BY <2>1, <2>2, <3>2, <4>1 DEF ReportInv
    <3> QED
      BY <3>1, <3>2
  <2>5. LateInv'
    BY <2>1, <2>2 DEF LateInv
  <2> QED
    BY <2>4, <2>5 DEF ReportInv
<1>6. ASSUME NEW v \in Visits, Begin(v) \/ Store(v) PROVE ReportInv' /\ LateInv'
  BY <1>2, <1>6 DEF Begin, Store
<1>7. CASE Delete \/ Tick \/ AllOver \/ UNCHANGED vars
  BY <1>2, <1>7 DEF Delete, Tick, AllOver, vars
<1> QED
  BY <1>3, <1>4, <1>5, <1>6, <1>7 DEF Next

-------------------------------------------------------------------------------
(* Days and windows *)

(* Multiples of a day's length are ordered as the days are. *)
LEMMA Midnights ==
  ASSUME NEW a \in Nat, NEW b \in Nat
  PROVE  /\ Midnight(a) \in Nat /\ Midnight(a + 1) = Midnight(a) + DayLength
         /\ a <= b => Midnight(a) <= Midnight(b)
         /\ a < b => Midnight(a) + DayLength <= Midnight(b)
<1>1. DayLength \in Nat \ {0}
  BY StatisticsAssumption
<1>2. ASSUME NEW n \in Nat \ {0} PROVE a * n \in Nat /\ b * n \in Nat /\ (a + 1) * n = a * n + n
  OBVIOUS
<1>3. ASSUME NEW n \in Nat \ {0}, a <= b PROVE a * n <= b * n
  BY <1>3
<1>4. ASSUME NEW n \in Nat \ {0}, a < b PROVE (a + 1) * n <= b * n
  BY <1>4
<1> QED
  BY <1>1, <1>2, <1>3, <1>4 DEF Midnight

(* An instant lies between its day's two midnights. *)
LEMMA DayBorders ==
  ASSUME NEW t \in Nat
  PROVE  /\ t \div DayLength \in Nat
         /\ Midnight(t \div DayLength) <= t
         /\ t < Midnight(t \div DayLength) + DayLength
<1>1. DayLength \in Nat \ {0}
  BY StatisticsAssumption
<1>2. ASSUME NEW n \in Nat \ {0}
      PROVE  t \div n \in Nat /\ (t \div n) * n <= t /\ t < (t \div n) * n + n
  OBVIOUS
<1> QED
  BY <1>1, <1>2 DEF Midnight

(* A stored click happened within the clock, on a day of the calendar. *)
LEMMA ClickDay ==
  ASSUME SInv, NEW v \in stored
  PROVE  /\ click[v].clicked_at \in Nat /\ DayOf(v) \in Days
         /\ Midnight(DayOf(v)) <= click[v].clicked_at
         /\ click[v].clicked_at < Midnight(DayOf(v)) + DayLength
<1>1. click[v] \in Click
  BY DEF SInv, Types, StoredInv
<1>2. click[v].clicked_at \in Nat /\ click[v].clicked_at <= MaxClock /\ LastDay \in Nat
      /\ MaxClock \in Nat /\ MaxClock < Midnight(LastDay + 1)
  BY <1>1, StatisticsAssumption DEF Click, Instants, Midnight
<1>3. /\ DayOf(v) \in Nat /\ Midnight(DayOf(v)) <= click[v].clicked_at
      /\ click[v].clicked_at < Midnight(DayOf(v)) + DayLength
  BY <1>2, DayBorders DEF DayOf
<1>4. DayOf(v) < LastDay + 1
  <2> SUFFICES ASSUME LastDay + 1 <= DayOf(v) PROVE FALSE
    BY <1>2, <1>3
  <2>1. Midnight(LastDay + 1) <= Midnight(DayOf(v)) /\ Midnight(LastDay + 1) \in Nat
    BY <1>2, <1>3, Midnights
  <2>2. Midnight(DayOf(v)) \in Nat
    BY <1>3, Midnights
  <2> QED
    BY <1>2, <1>3, <2>1, <2>2
<1> QED
  BY <1>2, <1>3, <1>4 DEF Days

(* A window holds the clicks of its days, and no others. *)
LEMMA WindowDays ==
  ASSUME SInv, NEW v \in stored, NEW from \in Days \cup {None}, NEW to \in Days \cup {None}
  PROVE  /\ NotBefore(from, click[v].clicked_at) <=> (from # None => DayOf(v) >= from)
         /\ Before(to, click[v].clicked_at) <=> (to # None => DayOf(v) <= to)
<1> DEFINE t == click[v].clicked_at
<1> DEFINE d == DayOf(v)
<1>1. t \in Nat /\ d \in Nat /\ Midnight(d) <= t /\ t < Midnight(d) + DayLength
  BY ClickDay DEF Days
<1>2. DayLength \in Nat /\ Midnight(d) \in Nat
  BY <1>1, Midnights, StatisticsAssumption
<1> HIDE DEF t, d
<1>3. ASSUME NEW a \in Nat
      PROVE  (t >= Midnight(a) <=> d >= a) /\ (t < Midnight(a) + DayLength <=> d <= a)
  <2>1. /\ Midnight(a) \in Nat
        /\ a <= d => Midnight(a) <= Midnight(d)
        /\ d < a => Midnight(d) + DayLength <= Midnight(a)
        /\ d <= a => Midnight(d) <= Midnight(a)
        /\ a < d => Midnight(a) + DayLength <= Midnight(d)
    BY <1>1, Midnights
  <2> QED
    BY <1>1, <1>2, <2>1
<1>4. from # None => from \in Nat
  BY DEF Days
<1>5. to # None => to \in Nat
  BY DEF Days
<1> QED
  BY <1>3, <1>4, <1>5 DEF NotBefore, Before, t, d

-------------------------------------------------------------------------------
(* The theorems *)

(* Before anybody asks, there is nothing to report. *)
LEMMA StatisticsInit == Init => SInv
<1> SUFFICES ASSUME Init PROVE SInv
  OBVIOUS
<1>1. Types
  <2>1. 0 \in Instants
    BY StatisticsAssumption DEF Instants
  <2>2. click \in [Visits -> Click \cup {None}] /\ pc \in [Reqs -> {"idle", "get_url", "get_stats", "select", "end"}]
    BY DEF Init
  <2>3. ask \in [Reqs -> Question \cup {None}] /\ answer \in [Reqs -> {None, 200, 403, 404, 500}]
    BY DEF Init
  <2>4. seen \in [Reqs -> SUBSET Visits] /\ DOMAIN report = Reqs
    BY DEF Init
  <2> QED
    BY <2>1, <2>2, <2>3, <2>4 DEF Init, Types
<1>2. StoredInv /\ ReportInv /\ LateInv
  BY DEF Init, StoredInv, ReportInv, LateInv
<1> QED
  BY <1>1, <1>2 DEF SInv

(* The inductive invariant: each report was made of one look at the table, which *)
(* no later click changes.                                                       *)
THEOREM StatisticsInductive == Spec => []SInv
<1>1. SInv /\ [Next]_vars => SInv'
  BY TypesStep, ReportStep DEF SInv
<1> QED
  BY <1>1, StatisticsInit, PTL DEF Spec

(* DeletedHasNoStatistics for any number of requests: who asks after the deletion *)
(* is answered 404 if at all.                                                     *)
THEOREM LateAreRefused == Spec => []DeletedHasNoStatistics
<1>1. SInv => DeletedHasNoStatistics
  BY DEF SInv, LateInv, DeletedHasNoStatistics
<1> QED
  BY <1>1, StatisticsInductive, PTL

(* Clicks are finitely many, and so are those of a day. *)
LEMMA ClicksFinite ==
  ASSUME NEW R \in SUBSET Visits
  PROVE  IsFiniteSet(R) /\ Cardinality(R) \in Nat
BY StatisticsAssumption, FS_Subset, FS_CardinalityType

(* WindowsPartition for every calendar: two windows that meet at a midnight count *)
(* what the window over both counts.                                              *)
THEOREM WindowsMeet == Spec => []WindowsPartition
<1>1. SInv => WindowsPartition
  <2> SUFFICES ASSUME SInv, NEW from \in Days, NEW cut \in Days, NEW to \in Days,
                      from <= cut, cut < to
               PROVE  Cardinality(Window(stored, from, cut)) + Cardinality(Window(stored, cut + 1, to))
                        = Cardinality(Window(stored, from, to))
    BY DEF WindowsPartition
  <2>1. /\ cut + 1 \in Days /\ from \in Nat /\ cut \in Nat /\ to \in Nat
        /\ from # None /\ cut # None /\ to # None /\ cut + 1 # None
    BY StatisticsAssumption, NoneAssumption DEF Days
  <2> DEFINE A == Window(stored, from, cut)
  <2> DEFINE B == Window(stored, cut + 1, to)
  <2> DEFINE C == Window(stored, from, to)
  <2>2. \A v \in stored :
          /\ v \in A <=> DayOf(v) >= from /\ DayOf(v) <= cut
          /\ v \in B <=> DayOf(v) >= cut + 1 /\ DayOf(v) <= to
          /\ v \in C <=> DayOf(v) >= from /\ DayOf(v) <= to
          /\ DayOf(v) \in Nat
    BY <2>1, WindowDays, ClickDay DEF Window, Days
  <2>3. A \in SUBSET Visits /\ B \in SUBSET Visits /\ A \subseteq stored /\ B \subseteq stored
        /\ C \subseteq stored
    BY DEF Window, SInv, Types
  <2> HIDE DEF A, B, C
  <2>4. A \cup B = C /\ A \cap B = {}
    BY <2>1, <2>2, <2>3
  <2>5. Cardinality(A \cup B) = Cardinality(A) + Cardinality(B) - Cardinality({})
    BY <2>3, <2>4, ClicksFinite, FS_Union
  <2>6. Cardinality(A) \in Nat /\ Cardinality(B) \in Nat /\ Cardinality({}) = 0
    BY <2>3, ClicksFinite, FS_EmptySet
  <2>7. Cardinality(A) + Cardinality(B) = Cardinality(C)
    BY <2>4, <2>5, <2>6
  <2> QED
    BY <2>7 DEF A, B, C
<1> QED
  BY <1>1, StatisticsInductive, PTL

(* What a report shows of a day is the number of its clicks among those selected. *)
LEMMA DayReported ==
  ASSUME NEW rows \in SUBSET Visits, NEW d
  PROVE  (IF d \in DOMAIN ByDay(rows) THEN ByDay(rows)[d] ELSE 0) = Cardinality(On(rows, d))
<1>1. CASE d \in DOMAIN ByDay(rows)
  BY <1>1 DEF ByDay
<1>2. CASE d \notin DOMAIN ByDay(rows)
  <2>1. On(rows, d) = {}
    BY <1>2 DEF ByDay, On
  <2> QED
    BY <1>2, <2>1, FS_EmptySet
<1> QED
  BY <1>1, <1>2

(* ReportCountsWindow for every window: a report has the days that were asked for, *)
(* with every click that was stored by then.                                       *)
THEOREM WindowIsCounted == Spec => []ReportCountsWindow
<1>1. SInv => ReportCountsWindow
  <2> SUFFICES ASSUME SInv, NEW r \in Reqs, report[r] # None, NEW d \in Days
               PROVE  LET inside == /\ ask[r].from # None => d >= ask[r].from
                                    /\ ask[r].to # None => d <= ask[r].to
                          reported == IF d \in DOMAIN report[r].days THEN report[r].days[d] ELSE 0
                      IN  /\ ~inside => reported = 0
                          /\ inside => reported >= Cardinality(On(seen[r], d))
                          /\ reported <= Cardinality(On(stored, d))
    BY DEF ReportCountsWindow
  <2> DEFINE inside == /\ ask[r].from # None => d >= ask[r].from
                       /\ ask[r].to # None => d <= ask[r].to
  <2>1. PICK S \in SUBSET stored : seen[r] \subseteq S /\ report[r] = Report(Selected(S, r))
    BY DEF SInv, ReportInv, Looked
  <2> DEFINE W == Selected(S, r)
  <2>2. ask[r] \in Question
    BY DEF SInv, Types, ReportInv
  <2>3. ask[r].from \in Days \cup {None} /\ ask[r].to \in Days \cup {None}
    BY <2>2 DEF Question
  <2>4. \A v \in S : v \in W <=> /\ ask[r].from # None => DayOf(v) >= ask[r].from
                                 /\ ask[r].to # None => DayOf(v) <= ask[r].to
    BY <2>3, WindowDays DEF Selected, Window
  <2>5. W \subseteq S /\ stored \subseteq Visits /\ report[r].days = ByDay(W)
    BY <2>1 DEF Selected, Window, Report, SInv, Types
  <2> HIDE DEF W
  <2>6. (IF d \in DOMAIN report[r].days THEN report[r].days[d] ELSE 0) = Cardinality(On(W, d))
    BY <2>5, DayReported
  <2>7. On(W, d) \subseteq On(stored, d) /\ On(stored, d) \in SUBSET Visits
    BY <2>5 DEF On
  <2>8. ~inside => On(W, d) = {}
    BY <2>4, <2>5 DEF On
  <2>9. inside => On(seen[r], d) \subseteq On(W, d)
    BY <2>1, <2>4 DEF On
  <2> DEFINE reported == IF d \in DOMAIN report[r].days THEN report[r].days[d] ELSE 0
  <2> HIDE DEF inside
  <2>10. /\ ~inside => reported = 0
         /\ inside => reported >= Cardinality(On(seen[r], d))
         /\ reported <= Cardinality(On(stored, d))
    <3>1. Cardinality(On(W, d)) <= Cardinality(On(stored, d))
      BY <2>7, ClicksFinite, FS_Subset
    <3>2. inside => Cardinality(On(seen[r], d)) <= Cardinality(On(W, d))
      BY <2>7, <2>9, ClicksFinite, FS_Subset
    <3>3. inside => Cardinality(On(W, d)) \in Nat /\ Cardinality(On(seen[r], d)) \in Nat
      <4> SUFFICES ASSUME inside
                   PROVE  Cardinality(On(W, d)) \in Nat /\ Cardinality(On(seen[r], d)) \in Nat
        OBVIOUS
      <4>1. On(W, d) \in SUBSET Visits /\ On(seen[r], d) \in SUBSET Visits
        BY <2>7, <2>9
      <4> QED
        BY <4>1, ClicksFinite
    <3>4. ~inside => Cardinality(On(W, d)) = 0
      BY <2>8, FS_EmptySet
    <3> QED
      BY <2>6, <3>1, <3>2, <3>3, <3>4
  <2> QED
    BY <2>10 DEF inside
<1> QED
  BY <1>1, StatisticsInductive, PTL

(* TypeOK for any calendar and any number of clicks: a report's numbers are *)
(* numbers, and only days that have clicks are listed.                      *)
THEOREM StatisticsTypeCorrect == Spec => []TypeOK
<1>1. SInv => TypeOK
  <2> SUFFICES ASSUME SInv, NEW r \in Reqs, report[r] # None
               PROVE  /\ report[r].total \in Nat /\ report[r].unique \in Nat
                      /\ \A d \in DOMAIN report[r].days :
                           d \in Days /\ report[r].days[d] \in Nat \ {0}
    BY DEF SInv, Types, TypeOK
  <2>1. PICK S \in SUBSET stored : report[r] = Report(Selected(S, r))
    BY DEF SInv, ReportInv, Looked
  <2> DEFINE W == Selected(S, r)
  <2>2. W \subseteq stored /\ W \in SUBSET Visits
    BY DEF Selected, Window, SInv, Types
  <2>3. report[r] = Report(W)
    BY <2>1
  <2> HIDE DEF W
  <2>4. report[r].total \in Nat
    BY <2>2, <2>3, ClicksFinite DEF Report, Total
  <2>5. report[r].unique \in Nat
    <3> DEFINE hash == [v \in W |-> click[v].ip_hash]
    <3> DEFINE H == {click[v].ip_hash : v \in W}
    <3>1. hash \in Surjection(W, H)
      BY DEF Surjection
    <3>2. IsFiniteSet(H)
      BY <2>2, <3>1, ClicksFinite, FS_Surjection
    <3> QED
      BY <2>3, <3>2, FS_CardinalityType DEF Report, Unique
  <2>6. ASSUME NEW d \in DOMAIN report[r].days
        PROVE  d \in Days /\ report[r].days[d] \in Nat \ {0}
    <3>1. report[r].days = ByDay(W)
      BY <2>3 DEF Report
    <3>2. PICK v \in W : DayOf(v) = d
      BY <2>6, <3>1 DEF ByDay
    <3>3. report[r].days[d] = Cardinality(On(W, d)) /\ v \in On(W, d) /\ On(W, d) \in SUBSET Visits
      BY <2>2, <2>6, <3>1, <3>2 DEF ByDay, On
    <3>4. Cardinality(On(W, d)) \in Nat /\ IsFiniteSet(On(W, d)) /\ On(W, d) # {}
      BY <3>3, ClicksFinite
    <3>5. Cardinality(On(W, d)) # 0
      BY <3>4, FS_EmptySet
    <3> QED
      BY <2>2, <3>2, <3>3, <3>4, <3>5, ClickDay
  <2> QED
    BY <2>4, <2>5, <2>6
<1> QED
  BY <1>1, StatisticsInductive, PTL
-------------------------------------------------------------------------------
(* The days of a report add up. A fold over a finite set is a recursive       *)
(* function on its subsets, and any function that satisfies its equation has  *)
(* its values: the least subset on which two of them differ cannot exist.     *)
Any(s) == CHOOSE x \in s : TRUE
IsSum(h, f) ==
  h = [s \in SUBSET DOMAIN f |-> IF s = {} THEN 0 ELSE f[Any(s)] + h[s \ {Any(s)}]]

(* Two solutions of the equation agree, by well-founded induction on subsets. *)
LEMMA SumsAgree ==
  ASSUME NEW f, IsFiniteSet(DOMAIN f), NEW g, NEW h, IsSum(g, f), IsSum(h, f)
  PROVE  g[DOMAIN f] = h[DOMAIN f]
<1> DEFINE D == DOMAIN f
           T == {s \in FiniteSubsetsOf(D) : g[s] # h[s]}
           R == StrictSubsetOrdering(D)
<1>1. SUFFICES ASSUME T # {} PROVE FALSE
  BY FS_Subset DEF FiniteSubsetsOf
<1>2. PICK s \in T : \A u \in T : <<u, s>> \notin R
  <2>1. IsWellFoundedOn(R, FiniteSubsetsOf(D))
    BY FS_StrictSubsetOrderingWellFounded
  <2>2. T \subseteq FiniteSubsetsOf(D)
    OBVIOUS
  <2> HIDE DEF T, R
  <2> QED
    BY <1>1, <2>1, <2>2, WFMin
<1>3. s \in SUBSET D /\ IsFiniteSet(s)
  BY DEF FiniteSubsetsOf
<1>4. /\ g[s] = IF s = {} THEN 0 ELSE f[Any(s)] + g[s \ {Any(s)}]
      /\ h[s] = IF s = {} THEN 0 ELSE f[Any(s)] + h[s \ {Any(s)}]
  BY <1>3 DEF IsSum
<1>5. s # {} /\ Any(s) \in s
  BY <1>2, <1>4 DEF Any
<1>6. s \ {Any(s)} \in FiniteSubsetsOf(D) /\ <<s \ {Any(s)}, s>> \in R
  BY <1>3, <1>5, FS_Subset DEF FiniteSubsetsOf, StrictSubsetOrdering
<1> QED
  BY <1>2, <1>4, <1>5, <1>6

(* Hence a fold that adds is whatever satisfies its equation. *)
LEMMA FoldIsSum ==
  ASSUME NEW f, NEW h, IsFiniteSet(DOMAIN f), IsSum(h, f)
  PROVE  FoldFunction(+, 0, f) = h[DOMAIN f]
<1>1. PICK g : /\ g = CHOOSE k : IsSum(k, f)
               /\ FoldFunction(+, 0, f) = g[DOMAIN f]
  BY DEF IsSum, Any, FoldFunction, FoldFunctionOnSet, MapThenFoldSet
<1> QED
  BY <1>1, SumsAgree

(* The number of a set's images is a number, and at most that of the set. *)
LEMMA ImageBound ==
  ASSUME NEW W \in SUBSET Visits, NEW f, DOMAIN f = W
  PROVE  /\ IsFiniteSet({f[v] : v \in W})
         /\ Cardinality({f[v] : v \in W}) \in Nat
         /\ Cardinality({f[v] : v \in W}) <= Cardinality(W)
         /\ Cardinality({f[v] : v \in W}) = 0 => Cardinality(W) = 0
<1> DEFINE H == {f[v] : v \in W}
<1>1. [v \in W |-> f[v]] \in Surjection(W, H)
  BY DEF Surjection
<1>2. IsFiniteSet(H) /\ Cardinality(H) <= Cardinality(W) /\ IsFiniteSet(W)
  BY <1>1, ClicksFinite, FS_Surjection
<1>3. Cardinality(H) = 0 => H = {}
  BY <1>2, FS_EmptySet
<1>4. H = {} => W = {}
  OBVIOUS
<1> QED
  BY <1>2, <1>3, <1>4, FS_CardinalityType, FS_EmptySet

(* Two parts of a set of clicks add up to the whole. *)
LEMMA PartsAddUp ==
  ASSUME NEW P \in SUBSET Visits, NEW Q \in SUBSET Visits, P \cap Q = {}
  PROVE  Cardinality(P \cup Q) = Cardinality(P) + Cardinality(Q)
<1>1. /\ IsFiniteSet(P) /\ IsFiniteSet(Q)
      /\ Cardinality(P) \in Nat /\ Cardinality(Q) \in Nat /\ Cardinality(P \cap Q) = 0
  BY ClicksFinite, FS_EmptySet
<1>2. Cardinality(P \cup Q) = Cardinality(P) + Cardinality(Q) - Cardinality(P \cap Q)
  BY <1>1, FS_Union
<1> QED
  BY <1>1, <1>2

(* The clicks by day add up to the clicks: those of some days are the sum over *)
(* these days, one day after the other.                                        *)
LEMMA DaysAddUp ==
  ASSUME NEW W \in SUBSET Visits, NEW days, days = ByDay(W)
  PROVE  FoldFunction(+, 0, days) = Cardinality(W)
<1> DEFINE D == {DayOf(v) : v \in W}
           In(s) == {v \in W : DayOf(v) \in s}
           h == [s \in SUBSET D |-> Cardinality(In(s))]
<1>1. DOMAIN days = D /\ \A d \in D : days[d] = Cardinality(On(W, d))
  BY DEF ByDay
<1>2. IsFiniteSet(D)
  <2> DEFINE day == [v \in W |-> DayOf(v)]
  <2>1. D = {day[v] : v \in W}
    OBVIOUS
  <2> QED
    BY <2>1, ImageBound
<1>3. ASSUME NEW s \in SUBSET D, s # {}
      PROVE  h[s] = Cardinality(On(W, Any(s))) + h[s \ {Any(s)}]
  <2>1. Any(s) \in s
    BY <1>3 DEF Any
  <2>2. In(s) = On(W, Any(s)) \cup In(s \ {Any(s)}) /\ On(W, Any(s)) \cap In(s \ {Any(s)}) = {}
    BY <2>1 DEF On
  <2>3. On(W, Any(s)) \in SUBSET Visits /\ In(s \ {Any(s)}) \in SUBSET Visits
    BY DEF On
  <2>4. h[s] = Cardinality(In(s)) /\ h[s \ {Any(s)}] = Cardinality(In(s \ {Any(s)}))
    OBVIOUS
  <2> HIDE DEF h, In
  <2>5. Cardinality(In(s)) = Cardinality(On(W, Any(s))) + Cardinality(In(s \ {Any(s)}))
    BY <2>2, <2>3, PartsAddUp
  <2> QED
    BY <2>4, <2>5
<1>4. h[{}] = 0
  BY FS_EmptySet
<1>5. IsSum(h, days)
  <2>1. \A s \in SUBSET D : s # {} => Any(s) \in D
    BY DEF Any
  <2> HIDE DEF D
  <2>2. \A s \in SUBSET D :
          h[s] = IF s = {} THEN 0 ELSE days[Any(s)] + h[s \ {Any(s)}]
    BY <1>1, <1>3, <1>4, <2>1
  <2> QED
    BY <1>1, <2>2 DEF IsSum
<1>6. h[D] = Cardinality(W)
  <2>1. In(D) = W
    OBVIOUS
  <2> QED
    BY <2>1
<1> HIDE DEF h, D
<1> QED
  BY <1>1, <1>2, <1>5, <1>6, FoldIsSum

(* ReportAddsUp for any clicks that come in meanwhile: a report's days add up to *)
(* its total, and its visitors are among those clicks.                           *)
THEOREM NumbersFitTogether == Spec => []ReportAddsUp
<1>1. SInv => ReportAddsUp
  <2> SUFFICES ASSUME SInv, NEW r \in Reqs, report[r] # None
               PROVE  /\ FoldFunction(+, 0, report[r].days) = report[r].total
                      /\ report[r].unique <= report[r].total
                      /\ report[r].unique = 0 => report[r].total = 0
    BY DEF ReportAddsUp
  <2>1. PICK S \in SUBSET stored : report[r] = Report(Selected(S, r))
    BY DEF SInv, ReportInv, Looked
  <2> DEFINE W == Selected(S, r)
  <2>2. W \in SUBSET Visits /\ report[r] = Report(W)
    BY <2>1 DEF Selected, Window, SInv, Types
  <2> HIDE DEF W
  <2>3. report[r].days = ByDay(W) /\ report[r].total = Cardinality(W)
    BY <2>2 DEF Report, Total
  <2> DEFINE hash == [v \in W |-> click[v].ip_hash]
  <2>4. report[r].unique = Cardinality({hash[v] : v \in W})
    <3>1. {hash[v] : v \in W} = {click[v].ip_hash : v \in W}
      OBVIOUS
    <3>2. report[r].unique = Unique(W)
      BY <2>2 DEF Report
    <3> QED
      BY <3>1, <3>2 DEF Unique
  <2>5. DOMAIN hash = W
    OBVIOUS
  <2>6. FoldFunction(+, 0, report[r].days) = Cardinality(W)
    BY <2>2, <2>3, DaysAddUp
  <2> HIDE DEF hash
  <2>7. /\ report[r].unique <= Cardinality(W)
        /\ report[r].unique = 0 => Cardinality(W) = 0
    BY <2>2, <2>4, <2>5, ImageBound
  <2> QED
    BY <2>3, <2>6, <2>7
<1> QED
  BY <1>1, StatisticsInductive, PTL
===============================================================================
