--------------------------- MODULE MCDnsTransmit ---------------------------
(***************************************************************************)
(* Small instances of DnsTransmit: two servers around an empty slot.       *)
(***************************************************************************)
EXTENDS DnsTransmit

CONSTANTS g1, g2, l1, l2, n1, n2, A

MCIPs       == {g1, g2, l1, l2}
MCLinkLocal == {l1, l2}

Slotted(a, b) == [i \in Slots |-> IF i = 0 THEN a ELSE IF i = 2 THEN b ELSE Null]

MCLists  == {[ip |-> Slotted(g1, g2), scope |-> Null]}
\* two LLU servers on different interfaces
LluLists == {[ip |-> Slotted(l1, l2), scope |-> [i \in Slots |-> 7 + i]]}

MCQuestions == {[name |-> n1, type |-> A], [name |-> n2, type |-> A]}
OneQuestion == {[name |-> n1, type |-> A]}
=============================================================================
