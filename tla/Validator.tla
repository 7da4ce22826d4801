------------------------------- MODULE Validator -------------------------------
(***************************************************************************)
(* services/validator.py: what validate_url makes of a URL and of the      *)
(* addresses its host resolves to. An address is the sequence of its       *)
(* bytes, four of them or sixteen.                                         *)
(***************************************************************************)
EXTENDS Integers, Sequences

Zeros(n) == [i \in 1 .. n |-> 0]
V6(first) == first \o Zeros(16 - Len(first))

(* IPv4 and IPv6 addresses, and a network as its first address and prefix length. *)
Byte == 0 .. 255
Address == [1 .. 4 -> Byte] \cup [1 .. 16 -> Byte]
Network(addr, len) == [addr |-> addr, len |-> len]

(* _BLOCKED_NETWORKS *)
BlockedNetworks ==
  { Network(<<10, 0, 0, 0>>, 8), Network(<<172, 16, 0, 0>>, 12),
    Network(<<192, 168, 0, 0>>, 16), Network(<<127, 0, 0, 0>>, 8),
    Network(<<169, 254, 0, 0>>, 16), Network(<<100, 64, 0, 0>>, 10),
    Network(<<192, 0, 2, 0>>, 24), Network(<<198, 51, 100, 0>>, 24),
    Network(<<203, 0, 113, 0>>, 24), Network(<<0, 0, 0, 0>>, 8),
    Network(Zeros(15) \o <<1>>, 128), Network(V6(<<252>>), 7),
    Network(V6(<<254, 128>>), 10), Network(V6(Zeros(10) \o <<255, 255>>), 96) }

AllowedSchemes == {"http", "https"}

(* How many of byte i's bits a prefix of len bits covers. *)
WholeBytes(len, i) == IF len \div 8 >= i THEN 8 ELSE 0
Covered(len, i) ==
  CASE len >= 8 * i -> 8
    [] len <= 8 * (i - 1) -> 0
    [] OTHER -> len - 8 * (i - 1)

(* How many values of a byte share its bits that are covered. *)
Free(covered) == 2 ^ (8 - covered)

(* addr in network: the same version, and the same prefix. *)
InNetwork(addr, net) ==
  /\ Len(addr) = Len(net.addr)
  /\ \A i \in DOMAIN addr :
       LET free == Free(Covered(net.len, i))
       IN  addr[i] \div free = net.addr[i] \div free

Blocked(addr) == \E net \in BlockedNetworks : InNetwork(addr, net)

(* _is_private_ip, of what getaddrinfo returns: no address is an error of it. What *)
(* it does return are addresses, so that each parses and "continue" skips none.     *)
EveryBlocked(addrs) == \A a \in addrs : Blocked(a)
IsPrivate(addrs) == addrs = {} \/ \E a \in addrs : Blocked(a)

(* The host of a URL: none, one that getaddrinfo cannot encode, or a name it asks for. *)
Host == {"none", "unfit", "named"}

(* The name service is asked only about a URL that passes the other checks. *)
AsksForAddresses(url) == url.parses /\ url.scheme \in AllowedSchemes /\ url.host = "named"

(* validate_url: the first check that fails gives the code of the error; a host that *)
(* cannot be encoded is a UnicodeError, which is a ValueError too.                    *)
Verdict(url, addrs) ==
  CASE ~url.parses -> "INVALID_URL"
    [] url.parses /\ url.scheme \notin AllowedSchemes -> "INVALID_SCHEME"
    [] url.parses /\ url.scheme \in AllowedSchemes /\ url.host = "none" -> "INVALID_URL"
    [] url.parses /\ url.scheme \in AllowedSchemes /\ url.host = "unfit" -> "UnicodeError"
    [] OTHER -> IF IsPrivate(addrs) THEN "SSRF_BLOCKED" ELSE "OK"
===============================================================================
