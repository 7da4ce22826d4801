----------------------------- MODULE MCUrlService -----------------------------
(* Constants for the runs of UrlServiceProperties: jobs are a menu from which *)
(* every request picks, so that each run meets the contention it is about.    *)
EXTENDS UrlServiceProperties, TLC

CONSTANTS c1, c2, k, u1, u2, bad, n, ann, bob

ReqSymmetry == Permutations(Reqs)

Post(user, code, url, exp, life) ==
  [op |-> "create", user |-> user, code |-> code, url |-> url, exp |-> exp, ttl |-> life]
Get(op, code) ==
  [op |-> op, user |-> ann, code |-> code, url |-> u1, exp |-> None, ttl |-> None]
Del(user, code) == [Get("delete", code) EXCEPT !.user = user]

(* One code, contended by everybody; links with and without an expiry, also one *)
(* that has passed already, a URL that is refused, and two expiries at once.    *)
OneCodeJobs ==
  {Post(ann, c1, u1, None, None), Post(bob, None, u2, 1, None),
   Post(bob, c1, u2, None, 1), Post(ann, c1, bad, None, None),
   Post(ann, c1, u1, 1, 1),
   Get("redirect", c1), Get("metadata", c1), Del(ann, c1), Del(bob, c1)}

(* The least that meets every lock, eviction and re-warm of one code. *)
FewJobs ==
  {Post(ann, c1, u1, None, None), Post(bob, None, u2, None, None),
   Get("redirect", c1), Del(ann, c1)}

(* Two codes: aliases against generated codes, retries that find a free one, an  *)
(* expiry that has passed with the first tick, a URL that is refused, and readers, *)
(* one of them of a counter's key, which a path may name like a code.              *)
TwoCodeJobs ==
  {Post(ann, c1, u1, None, None), Post(bob, None, u2, None, None),
   Get("redirect", c1), Get("metadata", c1), Get("redirect", c2), Get("redirect", k),
   Del(ann, c1), Del(bob, c2),
   Post(ann, c1, u2, 0, None), Post(ann, c1, bad, None, None)}
===============================================================================
