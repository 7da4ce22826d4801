------------------------------- MODULE MCIntake -------------------------------
(* Bodies that meet each check, and addresses on both sides of each border. *)
EXTENDS Intake

First == -3

Short == [text |-> "ab", length |-> 2, chars |-> "alphanumeric"]
Long == [text |-> "l33", length |-> 33, chars |-> "hyphens"]
Odd == [text |-> "a_b", length |-> 3, chars |-> "other"]
Fine == [text |-> "my-link", length |-> 7, chars |-> "hyphens"]
Health == [text |-> "health", length |-> 6, chars |-> "alphanumeric"]
Drawn == [text |-> "k3Xp9aQ7", length |-> 8, chars |-> "alphanumeric"]
SomeNames == {Short, Long, Odd, Fine, Health, Drawn}

Url(parses, scheme, host) ==
  [parses |-> parses, scheme |-> scheme, host |-> host, length |-> 30, nul |-> FALSE]
Web == Url(TRUE, "https", "named")
Lives(form, n) == [form |-> form, n |-> n]
Until(instant, zone) == [instant |-> instant, zone |-> zone]
Plain == [typed |-> TRUE, url |-> Web, alias |-> None, expires_at |-> None, ttl |-> None]

(* One body departs from Plain in its types, its URL, its alias or its lifetime. *)
SomeBodies ==
  {[Plain EXCEPT !.typed = FALSE]} \cup
  {[Plain EXCEPT !.url = u] : u \in {Url(FALSE, "https", "named"), Url(TRUE, "ftp", "named"),
     Url(TRUE, "ftp", "none"), Url(TRUE, "http", "none"), Url(TRUE, "http", "unfit"),
     Url(TRUE, "http", "named"), [Web EXCEPT !.length = 2048], [Web EXCEPT !.length = 2049],
     [Web EXCEPT !.nul = TRUE]}} \cup
  {[Plain EXCEPT !.alias = a] : a \in SomeNames \cup {None}} \cup
  {[Plain EXCEPT !.ttl = t] : t \in {Lives("empty", 0), Lives("PnW", 2), Lives("PnD", 1), Lives("PTnH", 0),
     Lives("PTnH", 3), Lives("PTnM", 2), Lives("PnD", 99), Lives("other", 0)}} \cup
  {[Plain EXCEPT !.expires_at = Until(e, z), !.ttl = t] : e \in {0, 5}, z \in BOOLEAN,
     t \in {None, Lives("empty", 0), Lives("PnD", 1)}} \cup
  {[Plain EXCEPT !.expires_at = Until(e, TRUE)] :
     e \in {FirstInstant - 1, FirstInstant, LastInstant, LastInstant + 1}}

(* The addresses next to a border, on both sides of it. *)
Borders ==
  { <<9, 255, 255, 255>>, <<10, 0, 0, 0>>, <<10, 255, 255, 255>>, <<11, 0, 0, 0>>,
    <<172, 15, 255, 255>>, <<172, 16, 0, 0>>, <<172, 31, 255, 255>>, <<172, 32, 0, 0>>,
    <<192, 167, 255, 255>>, <<192, 168, 0, 0>>, <<192, 168, 255, 255>>, <<192, 169, 0, 0>>,
    <<126, 255, 255, 255>>, <<127, 0, 0, 1>>, <<128, 0, 0, 0>>,
    <<169, 253, 255, 255>>, <<169, 254, 0, 0>>, <<169, 255, 0, 0>>,
    <<100, 63, 255, 255>>, <<100, 64, 0, 0>>, <<100, 127, 255, 255>>, <<100, 128, 0, 0>>,
    <<192, 0, 1, 255>>, <<192, 0, 2, 0>>, <<192, 0, 3, 0>>,
    <<198, 51, 99, 255>>, <<198, 51, 100, 255>>, <<198, 51, 101, 0>>,
    <<203, 0, 112, 255>>, <<203, 0, 113, 0>>, <<203, 0, 114, 0>>,
    <<0, 255, 255, 255>>, <<1, 0, 0, 0>>,
    V6(<<>>), V6Last(<<>>, 0, 1), V6Last(<<>>, 0, 2),
    V6Last(<<251>>, 255, 255), V6(<<252>>), V6Last(<<253>>, 255, 255), V6(<<254>>),
    V6Last(<<254, 127>>, 255, 255), V6(<<254, 128>>), V6Last(<<254, 191>>, 255, 255), V6(<<254, 192>>),
    V6Last(Zeros(10) \o <<255, 254>>, 255, 255), V6(Zeros(10) \o <<255, 255>>),
    V6Last(Zeros(10) \o <<255, 255>>, 255, 255), V6(Zeros(9) \o <<1>>) }

(* No address, one, and a public one together with another. *)
SomeAnswers ==
  {{}} \cup {{a} : a \in Borders} \cup {{<<1, 0, 0, 0>>, a} : a \in Borders}
===============================================================================
