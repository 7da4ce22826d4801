------------------------------- MODULE LinkStore -------------------------------
(***************************************************************************)
(* What the URL shortener promises its clients, whatever its caches,       *)
(* sessions and faults do: a short code is bound to one link for good, to  *)
(* the link that a request asked for; a link is retired at most once and   *)
(* only because its owner asked for it; and a client is told of a creation *)
(* or a deletion that it asked for only once it has happened.              *)
(***************************************************************************)

CONSTANTS
  Reqs,   \* the requests; a link has the id of the request that created it
  Codes,  \* short codes
  Job,    \* what a request may ask for
  Link,   \* the links that may be bound
  None

VARIABLES
  asks,   \* what each request has asked for
  links,  \* the link each short code is bound to
  told    \* the promises made: <<request, status, code>>

(* Request r makes its one demand. *)
Ask(r) ==
  /\ asks[r] = None
  /\ asks' = [asks EXCEPT ![r] = asks'[r]]
  /\ asks'[r] \in Job
  /\ UNCHANGED <<links, told>>

(* The link l under code c is the one that r asked for. *)
WantsLink(r, c, l) ==
  /\ asks[r] # None /\ asks[r].op = "create"
  /\ asks[r].code # None => c = asks[r].code
  /\ l.id = r /\ l.code = c
  /\ l.url = asks[r].url /\ l.owner = asks[r].user /\ l.exp = asks[r].exp

(* The owner of the link under code c asked for its deletion with request r. *)
OwnerWantsItGone(r, c) ==
  /\ asks[r] # None /\ asks[r].op = "delete"
  /\ asks[r].code = c /\ asks[r].user = links[c].owner

(* Request r binds the free code c to its link; it creates no other. *)
Bind(r, c) ==
  /\ links[c] = None
  /\ \A d \in Codes : links[d] # None => links[d].id # r
  /\ links' = [links EXCEPT ![c] = links'[c]]
  /\ links'[c] \in Link /\ WantsLink(r, c, links'[c]) /\ ~links'[c].deleted
  /\ UNCHANGED <<asks, told>>

(* A bound link is retired for its owner's request r, and its code stays taken. *)
Retire(r, c) ==
  /\ links[c] # None
  /\ ~links[c].deleted
  /\ OwnerWantsItGone(r, c)
  /\ links' = [links EXCEPT ![c].deleted = TRUE]
  /\ UNCHANGED <<asks, told>>

(* A 201 goes to the request that made the link, a 204 to a request of its owner *)
(* that asked for its deletion, once it is retired: two deletes of one link may  *)
(* both be told so.                                                              *)
Tell(r, status, c) ==
  /\ links[c] # None
  /\ \/ status = 201 /\ links[c].id = r
     \/ status = 204 /\ links[c].deleted /\ OwnerWantsItGone(r, c)
  /\ told' = told \cup {<<r, status, c>>}
  /\ UNCHANGED <<asks, links>>

Init ==
  /\ asks = [r \in Reqs |-> None]
  /\ links = [c \in Codes |-> None]
  /\ told = {}

Next ==
  \E r \in Reqs :
    \/ Ask(r)
    \/ \E c \in Codes : Bind(r, c) \/ Retire(r, c) \/ \E s \in {201, 204} : Tell(r, s, c)

Spec == Init /\ [][Next]_<<asks, links, told>>
================================================================================
