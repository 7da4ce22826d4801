--------------------------- MODULE UrlServiceHistory ---------------------------
(***************************************************************************)
(* UrlService with two history variables, for what a client may conclude   *)
(* from the answers it already had when it sent its next request.          *)
(***************************************************************************)
EXTENDS UrlServiceProperties

VARIABLES
  before,   \* before[r]: the creates and deletes confirmed when r arrived
  arrived   \* arrived[r]: the clock when redirect r arrived

hvars == <<vars, before, arrived>>

HInit ==
  /\ Init
  /\ before = [r \in Reqs |-> {}]
  /\ arrived = [r \in Reqs |-> 0]

Arrives(r) == pc[r] = "idle" /\ pc'[r] # "idle"
Confirmed == {q \in sent : answer[q].status \in {201, 204}}

HNext ==
  /\ Next
  /\ before' = [r \in Reqs |-> IF Arrives(r) THEN Confirmed ELSE before[r]]
  /\ arrived' = [r \in Reqs |-> IF Arrives(r) /\ job'[r].op = "redirect" THEN now ELSE arrived[r]]

HSpec == HInit /\ [][HNext]_hvars

(* r, already answered with this status, asked for what q asks for later. *)
Follows(q, r, status) ==
  q \in sent /\ r \in before[q] /\ answer[r].status = status

-------------------------------------------------------------------------------
(* specs/url-shortener.yaml:199, "a subsequent GET /api/v1/urls/{shortCode}   *)
(* returns the same longUrl": a client that has its 201 and asks for the code *)
(* gets no 404, unless the link was deleted.  The code promises it as long as *)
(* the commit comes before the response (CommitBeforeSend).                   *)
FreshCreateFound ==
  \A q, r \in Reqs :
    Follows(q, r, 201) /\ job[q].op \in {"redirect", "metadata"}
      /\ job[q].code = row[r].code /\ answer[q].status = 404
    => urls[row[r].code] # None /\ urls[row[r].code].deleted

(* A client that has its 204 never sees the link's metadata again, and no *)
(* later create takes the code over: whoever asks for it again, gets no    *)
(* 200, 201 or second 204.                                                 *)
DeletedStaysDeleted ==
  \A q, r \in Reqs :
    /\ Follows(q, r, 204)
    /\ job[q].code = job[r].code \/ (row[q] # None /\ row[q].code = job[r].code)
    => answer[q].status \notin {200, 201, 204}

(* cache.py:76, "after soft-delete, redirect must return 404 immediately". *)
GoneAfterDelete ==
  \A q, r \in Reqs :
    Follows(q, r, 204) /\ job[q].op = "redirect" /\ job[q].code = job[r].code
    => answer[q].status # 302

(* redirect.py:5, "410 Gone for expired URLs": a redirect that arrives after *)
(* the link expired does not lead to it.                                     *)
ExpiredIsGone ==
  \A q \in sent : job[q].op = "redirect" /\ answer[q].status = 302 =>
    LET u == urls[job[q].code] IN
    u # None /\ u.exp # None => arrived[q] <= u.exp
===============================================================================
