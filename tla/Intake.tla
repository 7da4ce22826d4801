-------------------------------- MODULE Intake --------------------------------
(***************************************************************************)
(* What becomes of the body of POST /api/v1/urls: the schema, the URL and  *)
(* its addresses, the lifetime and the code, each check in its turn, while *)
(* the clock and the name service move on; and where requests for the code *)
(* are routed afterwards.  The table and the cache are UrlService's.       *)
(***************************************************************************)
EXTENDS Validator, Routing

CONSTANTS
  Reqs,        \* the requests, past the rate limit
  Bodies,      \* the bodies they may have
  DnsAnswers,  \* what the name service may answer, as sets of addresses
  Names,       \* aliases and codes
  CodeLength,  \* settings.short_code_length
  Minute,      \* clock ticks in a minute
  FirstInstant, \* datetime.min
  LastInstant, \* datetime.max
  MaxDelay,    \* how long the name service may take
  MaxClock,    \* bound of the clock
  None

(* A name, by what the checks of aliases and codes see of it. *)
Name == [text : STRING, length : Nat, chars : {"alphanumeric", "hyphens", "other"}]

(* A full stop is no letter of an alias. *)
Spelled(n) == n.text = "openapi.json" => n.chars = "other"

(* longUrl: what validate_url makes of it, its length, and whether it holds U+0000, *)
(* which is a character of JSON but not of PostgreSQL's text.                       *)
LongUrl == [parses : BOOLEAN, scheme : STRING, host : Host, length : Nat, nul : BOOLEAN]

(* ttl, by the pattern it fits; it may be empty, and any other text is "other": a *)
(* duration of another form, and a number of more digits than int() takes.        *)
Ttl == [form : {"PnW", "PnD", "PTnH", "PTnM", "empty", "other"}, n : Nat]

(* expiresAt, in UTC: a time zone may put it outside of what a datetime of UTC can *)
(* be. It may be given without a time zone, and may have passed.                   *)
Timestamp == [instant : Int, zone : BOOLEAN]

(* typed: an object of JSON whose fields are of the types that are declared. *)
Body ==
  [typed : BOOLEAN, url : LongUrl, alias : Names \cup {None},
   expires_at : Timestamp \cup {None}, ttl : Ttl \cup {None}]

ASSUME IntakeAssumption ==
  /\ Names \subseteq Name /\ \A n \in Names : Spelled(n)
  /\ DnsAnswers \subseteq SUBSET Address /\ None \notin DnsAnswers
  /\ Bodies \subseteq Body /\ None \notin Bodies
  /\ {Minute, CodeLength} \subseteq Nat \ {0}
  /\ {LastInstant, MaxDelay, MaxClock} \subseteq Nat
  /\ MaxClock + MaxDelay <= LastInstant
  /\ FirstInstant \in Int /\ FirstInstant <= 0

VARIABLES
  now,      \* the clock
  pc,       \* where each request is
  body,     \* what it submits
  expires,  \* create_url's expires_at
  code,     \* the short code of its link
  answer,   \* the status of its response
  checked,  \* history: the clock when validate_url returned
  resolved  \* history: the addresses its host had when it was checked

vars == <<now, pc, body, expires, code, answer, checked, resolved>>

Init ==
  /\ now = 0
  /\ pc = [r \in Reqs |-> "idle"]
  /\ body = [r \in Reqs |-> None]
  /\ expires = [r \in Reqs |-> None]
  /\ code = [r \in Reqs |-> None]
  /\ answer = [r \in Reqs |-> 0]
  /\ checked = [r \in Reqs |-> 0]
  /\ resolved = [r \in Reqs |-> None]

-------------------------------------------------------------------------------
(* The body *)

AnyName(a) == TRUE
AliasFits(a) == a.length \in 3 .. 32 /\ a.chars # "other"

(* CreateUrlRequest: an empty ttl is no ttl. *)
HasTtl(b) == b.ttl # None /\ b.ttl.form # "empty"
Conforms(b) ==
  /\ b.typed /\ b.url.length <= 2048
  /\ b.alias # None => AliasFits(b.alias)
  /\ ~(b.expires_at # None /\ HasTtl(b))

(* _parse_ttl *)
Timedelta(t) ==
  CASE t.form = "PTnM" -> t.n * Minute
    [] t.form = "PTnH" -> t.n * 60 * Minute
    [] t.form = "PnD" -> t.n * 24 * 60 * Minute
    [] OTHER -> t.n * 7 * 24 * 60 * Minute

(* generate_short_code: any alphanumeric name of the configured length. *)
Generated == {n \in Names : n.length = CodeLength /\ n.chars = "alphanumeric"}

Respond(r, status) ==
  /\ pc' = [pc EXCEPT ![r] = "end"]
  /\ answer' = [answer EXCEPT ![r] = status]

(* FastAPI reads the body into a CreateUrlRequest before it calls the handler. *)
Arrive(r) ==
  /\ pc[r] = "idle"
  /\ \E b \in Bodies :
       /\ body' = [body EXCEPT ![r] = b]
       /\ \/ ~Conforms(b) /\ Respond(r, 422)
          \/ Conforms(b) /\ pc' = [pc EXCEPT ![r] = "create_url"] /\ UNCHANGED answer
  /\ UNCHANGED <<now, expires, code, checked, resolved>>

(* Before its first await create_url checks the URL, then resolves the lifetime. *)
HasUnknownTtl(b) == HasTtl(b) /\ b.ttl.form = "other"
Refused(b, addrs) == Verdict(b.url, addrs) # "OK" \/ HasUnknownTtl(b)

(* The lifetime counts from the clock after the name service has answered. *)
ExpiresFromBefore(b, t) ==
  IF HasTtl(b) THEN now + Timedelta(b.ttl)
  ELSE IF b.expires_at # None THEN b.expires_at.instant ELSE None
ExpiresAt(b, t) ==
  CASE HasTtl(b) -> t + Timedelta(b.ttl)
    [] b.expires_at # None -> b.expires_at.instant
    [] OTHER -> None
Overflows(b, t) == HasTtl(b) /\ ExpiresAt(b, t) > LastInstant

(* getaddrinfo blocks the event loop: nothing else happens while it takes its *)
(* time. A ValueError becomes a 422, an OverflowError beyond datetime.max a 500. *)
InternalError == 500
CallerError == 422
Resolve(r) ==
  /\ pc[r] = "create_url"
  /\ LET asks == AsksForAddresses(body[r].url) IN
       /\ \E delay \in IF asks THEN 0 .. MaxDelay ELSE {0} : now' = now + delay
       /\ \E addrs \in IF asks THEN DnsAnswers ELSE {None} :
            resolved' = [resolved EXCEPT ![r] = addrs]
       /\ checked' = [checked EXCEPT ![r] = now']
  /\ LET b == body[r]
         refused == Refused(b, resolved'[r])
     IN
       \/ refused /\ Respond(r, CallerError) /\ UNCHANGED expires
       \/ ~refused /\ Overflows(b, now') /\ Respond(r, InternalError) /\ UNCHANGED expires
       \/ /\ ~refused /\ ~Overflows(b, now')
          /\ expires' = [expires EXCEPT ![r] = ExpiresAt(b, now')]
          /\ pc' = [pc EXCEPT ![r] = "persist"]
          /\ UNCHANGED answer
  /\ UNCHANGED <<body, code>>

(* The driver cannot encode a text with U+0000, nor an instant outside of datetime's. *)
Storable(b) ==
  /\ ~b.url.nul
  /\ b.expires_at # None => b.expires_at.instant \in FirstInstant .. LastInstant
Naive(b) == b.expires_at # None /\ ~b.expires_at.zone

(* The code and the row: the flush fails on what the driver cannot encode. After it *)
(* ttl_seconds subtracts the clock from expires_at: without a time zone that is a   *)
(* TypeError. Both are a 500 and undo everything. Where the table itself fails, by  *)
(* its unique index or an outage, is UrlService's.                                  *)
Persist(r) ==
  /\ pc[r] = "persist"
  /\ LET b == body[r] IN
       \/ (~Storable(b) \/ Naive(b)) /\ Respond(r, InternalError) /\ UNCHANGED code
       \/ /\ Storable(b) /\ ~Naive(b)
          /\ \E n \in IF b.alias = None THEN Generated ELSE {b.alias} :
               code' = [code EXCEPT ![r] = n]
          /\ Respond(r, 201)
  /\ UNCHANGED <<now, body, expires, checked, resolved>>

-------------------------------------------------------------------------------
(* The environment *)

Tick ==
  /\ now < MaxClock /\ now' = now + 1
  /\ UNCHANGED <<pc, body, expires, code, answer, checked, resolved>>

AllOver ==
  /\ \A r \in Reqs : pc[r] = "end"
  /\ UNCHANGED vars

Next ==
  \/ \E r \in Reqs : Arrive(r) \/ Resolve(r) \/ Persist(r)
  \/ Tick \/ AllOver

Spec == Init /\ [][Next]_vars

-------------------------------------------------------------------------------
(* Properties *)

(* The types; the code of a link fits its column, models.py:84, and its expiry is *)
(* an instant of UTC's.                                                           *)
TypeOK ==
  /\ now \in Nat
  /\ pc \in [Reqs -> {"idle", "create_url", "persist", "end"}]
  /\ body \in [Reqs -> Bodies \cup {None}]
  /\ expires \in [Reqs -> Int \cup {None}]
  /\ \A r \in Reqs : answer[r] = 201 => expires[r] \in (FirstInstant .. LastInstant) \cup {None}
  /\ code \in [Reqs -> Names \cup {None}]
  /\ \A r \in Reqs : code[r] # None => code[r].length <= 32
  /\ answer \in [Reqs -> {0, 201, 422, 500}]
  /\ checked \in [Reqs -> Nat] /\ resolved \in [Reqs -> DnsAnswers \cup {None}]

(* An IPv6 address: its first bytes, then a filler, and its last byte. *)
V6Last(first, fill, last) ==
  [i \in 1 .. 16 |-> CASE i <= Len(first) -> first[i] [] i = 16 -> last [] OTHER -> fill]

(* The reserved ranges, by their first and last addresses: the fourteen that        *)
(* validator.py:24-41 names with their purpose. NFR-003 itself lists RFC 1918's     *)
(* three, 169.254.0.0/16 and ::1; the other nine are the code's own.                *)
Reserved ==
  { <<<<10, 0, 0, 0>>, <<10, 255, 255, 255>>>>, <<<<172, 16, 0, 0>>, <<172, 31, 255, 255>>>>,
    <<<<192, 168, 0, 0>>, <<192, 168, 255, 255>>>>, <<<<127, 0, 0, 0>>, <<127, 255, 255, 255>>>>,
    <<<<169, 254, 0, 0>>, <<169, 254, 255, 255>>>>, <<<<100, 64, 0, 0>>, <<100, 127, 255, 255>>>>,
    <<<<192, 0, 2, 0>>, <<192, 0, 2, 255>>>>, <<<<198, 51, 100, 0>>, <<198, 51, 100, 255>>>>,
    <<<<203, 0, 113, 0>>, <<203, 0, 113, 255>>>>, <<<<0, 0, 0, 0>>, <<0, 255, 255, 255>>>>,
    <<V6Last(<<>>, 0, 1), V6Last(<<>>, 0, 1)>>, <<V6(<<252>>), V6Last(<<253>>, 255, 255)>>,
    <<V6(<<254, 128>>), V6Last(<<254, 191>>, 255, 255)>>,
    <<V6(Zeros(10) \o <<255, 255>>), V6Last(Zeros(10) \o <<255, 255>>, 255, 255)>> }

UpTo(a, b) ==
  Len(a) = Len(b) /\ (a = b \/ \E i \in DOMAIN a : a[i] < b[i] /\ \A j \in 1 .. i - 1 : a[j] = b[j])
IsReserved(a) == \E range \in Reserved : UpTo(range[1], a) /\ UpTo(a, range[2])

(* A link is only made of an http or https URL whose host had, when it was    *)
(* checked, some address and no reserved one, however many it has.            *)
AcceptedIsPublic ==
  \A r \in Reqs : answer[r] = 201 =>
    /\ body[r].url.scheme \in {"http", "https"}
    /\ resolved[r] \notin {None, {}} /\ \A a \in resolved[r] : ~IsReserved(a)

(* Nobody is refused without a cause of his own: a public address next to a    *)
(* reserved range, a lifetime with an empty ttl, a URL of exactly 2048          *)
(* characters, an expiry in the past are fine.                                  *)
RefusedForCause ==
  \A r \in Reqs : answer[r] = 422 =>
    LET b == body[r] IN
    \/ ~b.typed \/ b.url.length > 2048
    \/ b.alias # None /\ (b.alias.length \notin 3 .. 32 \/ b.alias.chars = "other")
    \/ HasTtl(b) /\ (b.expires_at # None \/ b.ttl.form = "other")
    \/ ~b.url.parses \/ b.url.host # "named" \/ b.url.scheme \notin {"http", "https"}
    \/ resolved[r] # None /\ (resolved[r] = {} \/ \E a \in resolved[r] : IsReserved(a))

(* A link with a ttl of n units expires n units after some instant between the end *)
(* of the URL's validation and the response: the time that the name service took,  *)
(* which is time before the link exists, is not taken from the link's lifetime.    *)
Units == [PnW |-> 10080, PnD |-> 1440, PTnH |-> 60, PTnM |-> 1]
LivesItsTtl ==
  \A r \in Reqs : answer[r] = 201 /\ HasTtl(body[r]) =>
    expires[r] - body[r].ttl.n * Units[body[r].ttl.form] * Minute \in checked[r] .. now

(* The bodies that break the handler although the schema accepts them, all of them: *)
(* an expiry without a zone, one that UTC's datetime cannot be, a ttl that ends     *)
(* beyond datetime.max, and a URL with U+0000. Everything else is answered 201      *)
(* or 422 as far as the body is concerned.                                          *)
ServerErrorsExplained ==
  \A r \in Reqs : answer[r] = 500 =>
    LET b == body[r] IN
    \/ /\ b.expires_at # None
       /\ ~b.expires_at.zone \/ b.expires_at.instant \notin FirstInstant .. LastInstant
    \/ HasTtl(b) /\ now + Timedelta(b.ttl) > LastInstant
    \/ b.url.nul

(* main.py:73, "more specific paths first to avoid shadowing": whatever aliases   *)
(* are taken, the fixed paths keep their handlers, and a link whose alias is none *)
(* of them is found by its redirect, its metadata, its deletion and statistics.   *)
FixedPaths == {"docs", "redoc", "health"}
PathsKeepTheirHandlers ==
  \A r \in Reqs : answer[r] = 201 =>
    LET c == code[r].text IN
    /\ Dispatch("GET", <<"health">>) = "health_check"
    /\ Dispatch("GET", <<"docs">>) = "docs" /\ Dispatch("GET", <<"redoc">>) = "redoc"
    /\ c \notin FixedPaths => Dispatch("GET", <<c>>) = "redirect_to_long_url"
    /\ Dispatch("GET", Api \o <<c>>) = "get_url_metadata"
    /\ Dispatch("DELETE", Api \o <<c>>) = "delete_url"
    /\ Dispatch("GET", Api \o <<c, "stats">>) = "get_url_stats"
===============================================================================
