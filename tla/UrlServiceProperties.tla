------------------------- MODULE UrlServiceProperties -------------------------
(***************************************************************************)
(* What the handlers of UrlService must guarantee.  Each property says     *)
(* under which Faults and which order of commit and response it is meant   *)
(* to hold; the runs and the theorems use it there.                        *)
(***************************************************************************)
EXTENDS UrlService

(* What of a row never changes. *)
SameLink(u, v) ==
  /\ u # None /\ v # None
  /\ u.id = v.id /\ u.code = v.code /\ u.url = v.url
  /\ u.owner = v.owner /\ u.exp = v.exp

Stored(r) == urls[row[r].code]

-------------------------------------------------------------------------------
(* The inductive invariant: what each stage of a handler may rely on.      *)

(* A handler that runs has a job of the kind its stage serves. *)
StageInv ==
  \A r \in Reqs :
    /\ pc[r] # "idle" => job[r] # None
    /\ pc[r] \in {"check_alias", "pick_code", "insert", "warm"} =>
         job[r].op = "create" /\ job[r].url \in ValidUrls
    /\ pc[r] \in {"cache_get", "select", "rewarm", "get_url"} => job[r].op = "redirect"
    /\ pc[r] = "fetch" => job[r].op = "metadata"
    /\ pc[r] \in {"find", "mark", "evict"} => job[r].op = "delete"
    /\ pc[r] = "check_alias" => job[r].code # None /\ job[r].code \notin Counters
    /\ pc[r] = "pick_code" => job[r].code = None
    /\ job[r] # None /\ job[r].op # "create" => job[r].code # None

(* row[r] is the row r adds, or one it read and may delete. *)
Adds(r) ==
  /\ job[r].op = "create" /\ job[r].url \in ValidUrls
  /\ row[r] # None /\ row[r] = NewRow(r, row[r].code)
  /\ row[r].code \notin Counters
  /\ job[r].code # None => row[r].code = job[r].code

Reads(r) ==
  /\ row[r] # None /\ SameLink(row[r], Stored(r))
  /\ row[r].code = job[r].code

MayDelete(r) ==
  /\ job[r].op = "delete"
  /\ Reads(r) /\ Stored(r).owner = job[r].user

RowInv ==
  \A r \in Reqs :
    /\ pc[r] \in {"insert", "warm"} => Adds(r)
    /\ pc[r] = "rewarm" => Reads(r)
    /\ pc[r] \in {"mark", "evict"} => MayDelete(r)

(* A session holds the lock on what it flushed, alone, until it ends. *)
OneWriter ==
  \A q, r \in Reqs :
    q # r /\ pending[q] # "none" /\ pending[r] # "none" => row[q].code # row[r].code

Locking ==
  {"warm", "evict", "commit"} \cup (IF CommitsFirst THEN {} ELSE {"send", "background"})

LockInv ==
  \A r \in Reqs :
    /\ pc[r] \notin Locking => pending[r] = "none"
    /\ pc[r] = "warm" => pending[r] = "insert"
    /\ pc[r] = "evict" => pending[r] = "update"
    /\ pending[r] = "insert" => Adds(r) /\ Stored(r) = None
    /\ pending[r] = "update" => MayDelete(r)

(* Where the request that made a committed row is. *)
Committed == IF CommitsFirst THEN {"send", "background", "end", "lost"} ELSE {"end", "lost"}

(* A row is stored under its own code, and is what its request wanted. *)
TableInv ==
  \A c \in Codes : urls[c] # None => \E r \in Reqs :
    /\ urls[c].id = r /\ urls[c].code = c
    /\ Adds(r) /\ SameLink(row[r], urls[c])
    /\ pc[r] \in Committed /\ pending[r] = "none"

(* The stages are entered with the row, the job and the locks their code relies *)
(* on; every handler of url_service.py depends on it between its awaits.        *)
IInv == TypeOK /\ StageInv /\ RowInv /\ OneWriter /\ LockInv /\ TableInv

-------------------------------------------------------------------------------
(* The table: create_url, delete_url, the unique index and get_db          *)

(* Once a transaction has bound a short code, every later state binds it to *)
(* the same link, and a deleted link never comes back: concurrent creates,  *)
(* aliases of deleted links and failed commits included.                    *)
BindingPermanent ==
  [][\A c \in Codes : urls[c] # None =>
       /\ SameLink(urls[c], urls'[c])
       /\ urls[c].deleted => urls'[c].deleted]_vars

(* delete_url's ownership check is made in one step and its UPDATE commits in *)
(* a much later one: a link still only ever goes by its owner's own request.  *)
OnlyOwnersDelete ==
  [][\A c \in Codes :
       urls[c] # None /\ ~urls[c].deleted /\ urls'[c] # None /\ urls'[c].deleted
         => \E r \in Reqs : /\ pc[r] = "commit"
                            /\ job[r].op = "delete" /\ job[r].code = c
                            /\ job[r].user = urls[c].owner]_vars

(* A client that has its 201 has its link: the row is committed, under the *)
(* alias it asked for, whatever fails before or after (CommitBeforeSend).  *)
AckedCreateDurable ==
  \A r \in sent : answer[r].status = 201 =>
    /\ Stored(r) # None
    /\ Stored(r).id = r /\ Stored(r).url = job[r].url /\ Stored(r).url \in ValidUrls
    /\ Stored(r).owner = job[r].user /\ Stored(r).exp = job[r].exp
    /\ job[r].code # None => Stored(r).code = job[r].code

(* A client that has its 204 has deleted its own link, for good, although *)
(* the eviction and the response follow different awaits (CommitBeforeSend). *)
AckedDeleteDurable ==
  \A r \in sent : answer[r].status = 204 =>
    LET u == urls[job[r].code] IN
    u # None /\ u.deleted /\ u.owner = job[r].user

(* The strengthening of both: what a handler's answer promises is pending before *)
(* its commit and in the table after it.                                          *)
Created(r) == row[r] # None /\ Stored(r) # None /\ Stored(r).id = r
Deleted(r) ==
  LET u == urls[job[r].code] IN
  /\ job[r] # None /\ job[r].op = "delete" /\ job[r].code # None
  /\ u # None /\ u.deleted /\ u.owner = job[r].user

Truthful(r) ==
  /\ r \in sent => pc[r] \in {"background", "end", "lost"}
  /\ answer[r].status = 201 =>
       \/ pc[r] = "commit" /\ pending[r] = "insert"
       \/ pc[r] \in {"send", "background", "end", "lost"} /\ Created(r)
       \/ pc[r] = "lost" /\ r \notin sent
  /\ answer[r].status = 204 =>
       \/ pc[r] = "commit" /\ pending[r] = "update"
       \/ pc[r] \in {"send", "background", "end", "lost"} /\ Deleted(r)
       \/ pc[r] = "lost" /\ r \notin sent

AckInv == CommitsFirst => \A r \in Reqs : Truthful(r)

-------------------------------------------------------------------------------
(* The cache: cache_set before the commit, the re-warm and cache_delete    *)

(* A cached destination is the one in the table.  The cache is written     *)
(* before the commit, so a rolled-back create leaves its URL behind under a *)
(* code that is free again; the next create of that code must cover it.    *)
CacheFaithful ==
  \A c \in Codes : cache[c] # None /\ urls[c] # None => cache[c].url = urls[c].url

(* CacheFaithful needs the covering write, or no rollback to cover: it survives *)
(* a failing Redis, or failing commits and crashes, but not both together.      *)
SingleFault == "redis" \notin Faults \/ Faults \cap {"db", "crash"} = {}

(* What the cache holds for the code of an insert that is about to commit. *)
Covered(r) == cache[row[r].code] = None \/ cache[row[r].code].url = row[r].url

(* The strengthening of CacheFaithful: a flushed insert has written over what an *)
(* earlier one left, or nobody left anything that is not about to be committed.  *)
CacheInv ==
  /\ CacheFaithful
  /\ \A r \in Reqs :
       pending[r] = "insert" /\ (pc[r] # "warm" \/ "redis" \in Faults) => Covered(r)
  /\ Faults \cap {"db", "crash"} = {} =>
       \A c \in Codes \ Counters : cache[c] # None /\ urls[c] = None =>
         \E r \in Reqs : pending[r] = "insert" /\ row[r].code = c

Dead(c) == urls[c] # None /\ (urls[c].deleted \/ (urls[c].exp # None /\ now > urls[c].exp))
Filling(c) == \E r \in Reqs : pc[r] = "rewarm" /\ row[r].code = c
ColdDead(c) == Dead(c) /\ cache[c] = None /\ ~Filling(c)

(* Once a link is deleted or expired, out of the cache, and no redirect is  *)
(* between its SELECT and its re-warm, nothing ever caches it again: the    *)
(* stale redirects of a dead link end there, whatever requests follow.      *)
DeadStaysCold == [][\A c \in Codes : ColdDead(c) => ColdDead(c)']_vars

(* Some create asked for this code to lead to this URL. *)
Asked(q, c, url) ==
  /\ job[q] # None /\ job[q].op = "create" /\ job[q].url = url
  /\ row[q] # None /\ row[q].id = q /\ row[q].code = c
HasOrigin(c, url) ==
  \/ c \in Counters /\ url = Tally
  \/ c \notin Counters /\ url \in ValidUrls /\ \E q \in Reqs : Asked(q, c, url)

(* Whatever a redirect answers was once asked for that very code by a create *)
(* that passed validate_url, even when the link it leads to never committed; *)
(* save that the key of a rate-limit counter leads to its count.             *)
RedirectHasOrigin ==
  \A r \in sent : answer[r].status = 302 => HasOrigin(job[r].code, answer[r].url)

(* A click row belongs to a committed link, whose code a client was redirected *)
(* from: record_click never meets a url_id that its foreign key refuses, even  *)
(* on a hit of a code that is cached and not committed.                        *)
ClicksReferToLinks ==
  \A r \in clicks : r \in sent /\ answer[r].status = 302 /\ urls[job[r].code] # None

-------------------------------------------------------------------------------
(* Progress                                                                *)

(* An INSERT and an UPDATE wait for another session's row, whose commit may be  *)
(* several awaits away: whoever is waited for runs and waits for no row itself, *)
(* so that waits are never chained, let alone closed to a circle.               *)
WaitsForRow(r) == pc[r] \in {"insert", "mark"} /\ Contended(r)
RowWaitsAreShort ==
  \A r \in Reqs : WaitsForRow(r) =>
    \A q \in Reqs \ {r} : pending[q] # "none" /\ row[q].code = row[r].code =>
      pc[q] \notin Over /\ ~WaitsForRow(q)

(* Every request is answered and gives its connection back, unless the process *)
(* died under it: no handler waits for ever for a row lock or a free code.     *)
EveryRequestEnds ==
  \A r \in Reqs : pc[r] # "idle" ~> (pc[r] = "end" /\ r \in sent) \/ pc[r] = "lost"

(* A redirect that carries record_click is counted, although the click is *)
(* written after the response left, when the database accepts it.         *)
TrackedIsCounted ==
  \A r \in Reqs : answer[r].track ~> r \in clicks \/ pc[r] = "lost"

-------------------------------------------------------------------------------
(* What the documents say and the code does not do                         *)

(* urls.py:51, "optional alias; 409 if already taken": while the database    *)
(* works, a create that names an alias is never answered 500.  The check     *)
(* skips deleted rows and does not see another request's uncommitted one;    *)
(* the unique index refuses both, and IntegrityError is not a ValueError.    *)
AliasTakenIs409 ==
  \A r \in sent : job[r].op = "create" /\ job[r].code # None => answer[r].status # 500

(* redirect.py:54, "Redis hit avoids DB read": a redirect whose cache_get hit *)
(* is answered 302, whatever the database does after it.                      *)
HitNeedsNoDatabase ==
  \A r \in Reqs : pc[r] = "get_url" /\ row[r] = None
                   ~> r \in sent /\ answer[r].status = 302

-------------------------------------------------------------------------------
(* UrlService implements LinkStore when it commits before it responds: what *)
(* the store is asked for are the requests' jobs, its links the committed   *)
(* rows, and its promises the 201s and 204s that left.                      *)
Told ==
  {<<r, 201, row[r].code>> : r \in {q \in sent : answer[q].status = 201}} \cup
  {<<r, 204, job[r].code>> : r \in {q \in sent : answer[q].status = 204}}

Store == INSTANCE LinkStore WITH
           asks <- job, Link <- Row, links <- urls, told <- Told

StoreSpec == Store!Spec
===============================================================================
