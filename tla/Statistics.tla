------------------------------ MODULE Statistics ------------------------------
(***************************************************************************)
(* GET /api/v1/urls/{short_code}/stats: what get_url_stats and get_stats   *)
(* report of one link, while redirects go on recording clicks and the link *)
(* may be deleted between the handler's queries.                           *)
(***************************************************************************)
EXTENDS Integers, FiniteSets, Functions

CONSTANTS
  Reqs,      \* the requests for statistics
  Visits,    \* the redirects of the link whose click is recorded
  Hashes,    \* ip_hash: visitors
  DayLength, \* clock ticks in a day
  LastDay,   \* date.max; days count from 0
  MaxClock,  \* bound of the clock
  None

ASSUME StatisticsAssumption ==
  /\ DayLength \in Nat \ {0} /\ LastDay \in Nat /\ MaxClock \in Nat
  /\ MaxClock < (LastDay + 1) * DayLength
  /\ IsFiniteSet(Visits)

Days == 0 .. LastDay
Instants == 0 .. MaxClock

(* A row of table clicks: referrer and user agent are counted in the same way, *)
(* and country_code is always null, so topCountries is always empty.           *)
Click == [clicked_at : Instants, ip_hash : Hashes]

(* The query parameters from_date and to_date, and whether the key's user owns *)
(* the link.                                                                   *)
Question == [owner : BOOLEAN, from : Days \cup {None}, to : Days \cup {None}]

ASSUME NoneAssumption == None \notin Nat /\ None \notin Click /\ None \notin Question

VARIABLES
  now,     \* the clock
  deleted, \* the link's deleted_at is set
  click,   \* the click each visit adds, from the start of its transaction
  stored,  \* the visits whose click is committed
  pc,      \* where each request is
  ask,     \* its question
  answer,  \* the status of its response
  report,  \* the body of a 200
  seen,    \* history: what was stored when it arrived
  late     \* history: the requests that arrived after the deletion

vars == <<now, deleted, click, stored, pc, ask, answer, report, seen, late>>

Init ==
  /\ now = 0
  /\ deleted = FALSE
  /\ click = [v \in Visits |-> None]
  /\ stored = {}
  /\ pc = [r \in Reqs |-> "idle"]
  /\ ask = [r \in Reqs |-> None]
  /\ answer = [r \in Reqs |-> None]
  /\ report = [r \in Reqs |-> None]
  /\ seen = [r \in Reqs |-> {}]
  /\ late = {}

-------------------------------------------------------------------------------
(* Aggregation *)

(* datetime(day) and datetime(to_date) + timedelta(days=1), in UTC. *)
Midnight(day) == day * DayLength
AfterMidnight(from, t) == from = None \/ t > Midnight(from)
NotBefore(from, t) == from = None \/ t >= Midnight(from)
UpToMidnight(to, t) == to = None \/ t <= Midnight(to) + DayLength
Before(to, t) == to = None \/ t < Midnight(to) + DayLength

(* The clicks the query selects. *)
Window(rows, from, to) ==
  {v \in rows : NotBefore(from, click[v].clicked_at) /\ Before(to, click[v].clicked_at)}

(* strftime: the day a click is counted under. *)
DayOf(v) == click[v].clicked_at \div DayLength
On(rows, day) == {v \in rows : DayOf(v) = day}

ZeroFilled(rows) == [d \in Days |-> Cardinality(On(rows, d))]
ByDay(rows) == [d \in {DayOf(v) : v \in rows} |-> Cardinality(On(rows, d))]

TotalEver(rows) == Cardinality(stored)
Total(rows) == Cardinality(rows)
Unique(rows) == Cardinality({click[v].ip_hash : v \in rows})

Report(rows) == [total |-> Total(rows), unique |-> Unique(rows), days |-> ByDay(rows)]

(* The types; a day is listed only when it has clicks. *)
TypeOK ==
  /\ now \in Instants /\ deleted \in BOOLEAN
  /\ click \in [Visits -> Click \cup {None}]
  /\ stored \subseteq Visits /\ late \subseteq Reqs
  /\ pc \in [Reqs -> {"idle", "get_url", "get_stats", "select", "end"}]
  /\ ask \in [Reqs -> Question \cup {None}]
  /\ answer \in [Reqs -> {None, 200, 403, 404, 500}]
  /\ seen \in [Reqs -> SUBSET Visits]
  /\ \A r \in Reqs : report[r] # None =>
       /\ report[r].total \in Nat /\ report[r].unique \in Nat
       /\ \A d \in DOMAIN report[r].days : d \in Days /\ report[r].days[d] \in Nat \ {0}

-------------------------------------------------------------------------------
(* Redirects and their clicks; the owner's delete *)

(* clicked_at is the database's now(): when the click's transaction began. *)
Begin(v) ==
  /\ click[v] = None
  /\ \E h \in Hashes : click' = [click EXCEPT ![v] = [clicked_at |-> now, ip_hash |-> h]]
  /\ UNCHANGED <<now, deleted, stored, pc, ask, answer, report, seen, late>>

(* record_click's commit; a click that is never stored failed there. *)
Store(v) ==
  /\ click[v] # None /\ v \notin stored
  /\ stored' = stored \cup {v}
  /\ UNCHANGED <<now, deleted, click, pc, ask, answer, report, seen, late>>

Delete ==
  /\ ~deleted /\ deleted' = TRUE
  /\ UNCHANGED <<now, click, stored, pc, ask, answer, report, seen, late>>

-------------------------------------------------------------------------------
(* The request *)

Respond(r, status) ==
  /\ pc' = [pc EXCEPT ![r] = "end"]
  /\ answer' = [answer EXCEPT ![r] = status]

Arrive(r) ==
  /\ pc[r] = "idle"
  /\ \E q \in Question : ask' = [ask EXCEPT ![r] = q]
  /\ pc' = [pc EXCEPT ![r] = "get_url"]
  /\ seen' = [seen EXCEPT ![r] = stored]
  /\ late' = IF deleted THEN late \cup {r} ELSE late
  /\ UNCHANGED <<now, deleted, click, stored, answer, report>>

(* get_url selects links that are not deleted. *)
AnyRow == TRUE
Visible == ~deleted

GetUrl(r) ==
  /\ pc[r] = "get_url"
  /\ \/ ~Visible /\ Respond(r, 404)
     \/ Visible /\ ~ask[r].owner /\ Respond(r, 403)
     \/ Visible /\ ask[r].owner /\ pc' = [pc EXCEPT ![r] = "get_stats"] /\ UNCHANGED answer
  /\ UNCHANGED <<now, deleted, click, stored, ask, report, seen, late>>

(* get_stats selects the link again, deleted or not, and builds its query: the *)
(* midnight after the last day of all is an OverflowError.                     *)
GetStats(r) ==
  /\ pc[r] = "get_stats"
  /\ \/ ask[r].to = LastDay /\ Respond(r, 500)
     \/ ask[r].to # LastDay /\ pc' = [pc EXCEPT ![r] = "select"] /\ UNCHANGED answer
  /\ UNCHANGED <<now, deleted, click, stored, ask, report, seen, late>>

(* One SELECT, and everything is counted from its rows. *)
Aggregate(r) ==
  /\ pc[r] = "select"
  /\ report' = [report EXCEPT ![r] = Report(Window(stored, ask[r].from, ask[r].to))]
  /\ Respond(r, 200)
  /\ UNCHANGED <<now, deleted, click, stored, ask, seen, late>>

Tick ==
  /\ now < MaxClock /\ now' = now + 1
  /\ UNCHANGED <<deleted, click, stored, pc, ask, answer, report, seen, late>>

AllOver ==
  /\ \A r \in Reqs : pc[r] = "end"
  /\ UNCHANGED vars

Next ==
  \/ \E v \in Visits : Begin(v) \/ Store(v)
  \/ \E r \in Reqs : Arrive(r) \/ GetUrl(r) \/ GetStats(r) \/ Aggregate(r)
  \/ Delete \/ Tick \/ AllOver

Spec == Init /\ [][Next]_vars

-------------------------------------------------------------------------------
(* Properties *)

(* The numbers of one report fit together although clicks arrive all the time: *)
(* the days add up to the total, which bounds the visitors.                    *)
ReportAddsUp ==
  \A r \in Reqs : report[r] # None =>
    /\ FoldFunction(+, 0, report[r].days) = report[r].total
    /\ report[r].unique <= report[r].total
    /\ report[r].unique = 0 => report[r].total = 0

(* "inclusive" at both ends (analytics_service.py:81): each day of the window   *)
(* is reported with every click that was stored when the request arrived, and  *)
(* no other day and no click that is not stored.                               *)
ReportCountsWindow ==
  \A r \in Reqs : report[r] # None => \A d \in Days :
    LET inside == /\ ask[r].from # None => d >= ask[r].from
                  /\ ask[r].to # None => d <= ask[r].to
        reported == IF d \in DOMAIN report[r].days THEN report[r].days[d] ELSE 0
    IN  /\ ~inside => reported = 0
        /\ inside => reported >= Cardinality(On(seen[r], d))
        /\ reported <= Cardinality(On(stored, d))

(* Reports can be put together: two windows that meet at midnight count each   *)
(* click once, so no click of a link is lost or doubled between them.          *)
WindowsPartition ==
  \A from, cut, to \in Days : from <= cut /\ cut < to =>
    Cardinality(Window(stored, from, cut)) + Cardinality(Window(stored, cut + 1, to))
      = Cardinality(Window(stored, from, to))

(* get_stats itself would report deleted links: only get_url_stats' first look *)
(* keeps them in. Who asks after the deletion gets 404.                        *)
DeletedHasNoStatistics == \A r \in late : answer[r] \in {None, 404}
===============================================================================
