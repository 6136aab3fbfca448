---------------------------- MODULE MCDnsResolve ----------------------------
(***************************************************************************)
(* A small instance of DnsResolve: one question at a time, two servers.    *)
(***************************************************************************)
EXTENDS DnsResolve

CONSTANTS g1, g2, n1, n2, A

MCIPs       == {g1, g2}
MCLinkLocal == {}
MCLists == {[ip    |-> [i \in Slots |-> IF i = 0 THEN g1 ELSE g2],
             scope |-> [i \in Slots |-> 0]]}
MCQuestions == {[name |-> n1, type |-> A], [name |-> n2, type |-> A]}

=============================================================================
