---------------------------- MODULE MCDnsRetries ----------------------------
(***************************************************************************)
(* A small instance of DnsResolve, one server and one question, with a     *)
(* record of the UDP timeouts that a call of dns_resolve waits out, to     *)
(* compare them with the intervals its README promises.                    *)
(***************************************************************************)
EXTENDS DnsResolve, Sequences

CONSTANTS g1, n1, A

MCIPs       == {g1}
MCLinkLocal == {}
MCLists     == {[ip |-> [i \in Slots |-> g1], scope |-> [i \in Slots |-> 0]]}
MCQuestions == {[name |-> n1, type |-> A]}

-----------------------------------------------------------------------------
VARIABLES
  waited,  \* the timeouts waited out in this call, without repetitions
  quiet    \* no attempt of this call failed and nothing was received

\* timeouts[5]
Timeouts == [u \in Rounds |-> 2 ^ u]

\* the step ends at the first attempt that thisudp entered at <<u, c>> can make
NoneFails(u, c) ==
  \/ UdpAttempts(servers', u, c) = {} /\ udploop' = 5
  \/ /\ result' = "pending" /\ tcpstate' = 0
     /\ \A b \in UdpAttempts(servers', u, c) : ~Before(b, <<udploop', curserver'>>)

RetriesInit == ResolveInit /\ waited = <<>> /\ quiet = TRUE

RetriesNext ==
  /\ ResolveNext
  /\ CASE pc = "idle" /\ pc' = "stamp" -> waited' = <<>> /\ quiet' = NoneFails(1, 0)
       [] pc = "get" /\ ~Useless ->
            /\ quiet' = (quiet /\ ~ready /\ NoneFails(udploop, curserver + 1))
            /\ LET t == Timeouts[udploop]
               IN  waited' = IF ready \/ \E i \in DOMAIN waited : waited[i] = t
                             THEN waited ELSE Append(waited, t)
       [] pc = "pause" /\ pc' = "idle" -> quiet' = FALSE /\ UNCHANGED waited
       [] OTHER -> UNCHANGED <<waited, quiet>>

RetriesSpec == RetriesInit /\ [][RetriesNext]_<<allvars, waited, quiet>>

\* dnsstub/README:61-62: a query that the server does not reply to "is retried
\* again at the intervalls {1, 2, 4, 8, 16} secs".
AllIntervals ==
  pc = "idle" /\ rc = "DNS_COM" /\ quiet /\ waited # <<>> =>
    waited = <<1, 2, 4, 8, 16>>
=============================================================================
