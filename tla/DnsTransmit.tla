---------------------------- MODULE DnsTransmit ----------------------------
(***************************************************************************)
(* The query engine of the stub resolver, dnsstub/dns_transmit.c: one      *)
(* struct dns_transmit, driven by its caller through dns_transmit_start,   *)
(* dns_transmit_get and dns_transmit_free, against name servers, a kernel  *)
(* and an allocator that may answer late, wrongly or not at all.           *)
(*                                                                         *)
(* A server list is walked round by round over UDP (udploop, curserver),   *)
(* then server by server over TCP (tcpstate 1..5).  A call of thisudp or   *)
(* thistcp tries servers until one attempt is under way; the model makes   *)
(* that loop one step: it picks the attempt the loop stops at.             *)
(***************************************************************************)
EXTENDS Integers, FiniteSets

CONSTANTS
  QUERY_MAXNS,   \* slots of a server list (32 in dnsresolv.h)
  IPs,           \* addresses of name servers
  LinkLocal,     \* those that are IPv6 LLU addresses
  Null,          \* a null pointer, and whatever else is absent
  ServerLists,   \* what callers pass as servers and scopes: [ip, scope], the
                 \* scope being Null when they call dns_transmit_start
  Names, Types,  \* query names and record types
  Questions,     \* the questions callers ask
  LongNames,     \* the names whose query exceeds MSGSIZE
  Ids,           \* values of the random 16 bit query id
  Rcodes,        \* values of the rcode of a reply (0 to 15)
  QueryLen,      \* querylen: bytes of a query with its length prefix
  ByteBase,      \* values of one byte of the TCP length prefix (256)
  MinReply,      \* shortest message that holds a header and a question
  PosBound,      \* bound: pos is followed up to here when it runs past QueryLen
  Malformed,     \* a message dns_packet_copy or dns_packet_getname rejects
  Fds            \* descriptors the kernel hands out

Slots  == 0 .. QUERY_MAXNS - 1
Rounds == 0 .. 4
Lens   == 0 .. ByteBase * ByteBase - 1
\* a list names servers in some slots; Null is the all-zero address V6localnet
Lists  == [Slots -> IPs \cup {Null}]

Queries   == [name : Names, type : Types, id : Ids]
\* A message that parses: the question it echoes, its id, the TC bit, rcode.
Replies   == [name : Names, type : Types, id : Ids, tc : BOOLEAN, rcode : Rcodes]
Packets   == [size : Lens, body : Replies \cup {Malformed, Null}] \* Null: not read yet

ASSUME ConstantsAssumption ==
  /\ QUERY_MAXNS \in Nat \ {0}
  /\ LinkLocal \subseteq IPs
  /\ Null \notin IPs \cup [Slots -> Nat]
  /\ Null \notin Types \cup Questions \cup Queries \cup Packets
  /\ Malformed \notin Replies \cup {Null}
  /\ \A l \in ServerLists : /\ l.ip \in Lists
                            /\ l.scope \in [Slots -> Nat] \cup {Null}
  /\ Questions \subseteq [name : Names, type : Types]
  /\ LongNames \subseteq Names
  /\ QueryLen \in Nat \ {0}
  /\ ByteBase \in Nat \ {0, 1}
  /\ MinReply \in 1 .. ByteBase * ByteBase - 1
  /\ PosBound \in Nat
  /\ Fds \subseteq Nat
  /\ 0 \in Ids

VARIABLES
  \* struct dns_transmit
  servers, qtype, query, packet, packetlen, s1, tcpstate, udploop, curserver,
  pos, scope_id,
  scope_ids,  \* the global of the same name, written by dns_transmit_start6
  due,        \* the clock has passed d->deadline
  \* the world
  open,       \* descriptors the process holds for this struct
  blocks,     \* heap blocks allocated by these functions and not freed
  sent,       \* bytes of the query written to the current TCP connection
  asked,      \* the query of the attempt under way, as sent to the server
  \* the caller's view
  question,   \* what it last passed to dns_transmit_start
  turn,       \* parity of the number of those calls
  result      \* the last return code, by meaning

struct == <<servers, qtype, query, packet, packetlen, s1, tcpstate, udploop,
            curserver, pos, scope_id>>
world  == <<open, blocks, sent, asked>>
vars   == <<struct, scope_ids, due, world, question, turn, result>>

TypeOK ==
  /\ servers \in Lists
  /\ qtype \in Types \cup {Null}
  /\ query \in Queries \cup {Null}
  /\ packet \in Packets \cup {Null}
  /\ packetlen \in Lens
  /\ s1 \in {0} \cup {fd + 1 : fd \in Fds}
  /\ tcpstate \in 0 .. 5
  /\ udploop \in 0 .. 5
  /\ curserver \in 0 .. QUERY_MAXNS
  /\ pos \in Nat
  /\ scope_id \in Nat
  /\ scope_ids \in [Slots -> Nat]
  /\ due \in BOOLEAN
  /\ open \subseteq Fds
  /\ blocks \in Int
  /\ sent \in Nat
  /\ asked \in Queries \cup {Null}
  /\ question \in Questions \cup {Null}
  /\ turn \in {0, 1}
  /\ result \in {"idle", "pending", "done", "error"}

-----------------------------------------------------------------------------
(***************************************************************************)
(* Memory of the struct: the two pointers and the number of live blocks.   *)
(* A C function that frees or allocates maps one memory to the next, so a  *)
(* sequence of calls is a composition.                                     *)
(***************************************************************************)
Mem == [query |-> query, packet |-> packet, blocks |-> blocks]

QueryFree(m) ==
  IF m.query = Null THEN m
  ELSE [query |-> Null, packet |-> m.packet, blocks |-> m.blocks - 1]

PacketFree(m) ==
  IF m.packet = Null THEN m
  ELSE [query |-> m.query, packet |-> Null, blocks |-> m.blocks - 1]

AllocQuery(m, q)  == [query |-> q, packet |-> m.packet, blocks |-> m.blocks + 1]
AllocPacket(m, p) == [query |-> m.query, packet |-> p, blocks |-> m.blocks + 1]

SetMem(m) == query' = m.query /\ packet' = m.packet /\ blocks' = m.blocks

\* socketfree, and the socket() that follows it in a new attempt: the kernel
\* gives the lowest free descriptor
Kept == open \ {s1 - 1}
\* faulty variant: forgets to close
SocketForget == s1' = 0 /\ open' = open
SocketFree == s1' = 0 /\ open' = Kept
Socket == \E fd \in Fds \ Kept :
            /\ \A other \in Fds \ Kept : fd <= other
            /\ s1' = fd + 1 /\ open' = Kept \cup {fd}

\* dns_transmit_free on the way out of a call that returns DNS_COM
GiveUp(m) ==
  /\ SetMem(QueryFree(PacketFree(m)))
  /\ SocketFree
  /\ result' = "error"

-----------------------------------------------------------------------------
(***************************************************************************)
(* Attempts.  <<u, c>> is slot c in round u; the loops visit the present   *)
(* servers in this order.                                                  *)
(***************************************************************************)
Before(a, b) == a[1] < b[1] \/ (a[1] = b[1] /\ a[2] < b[2])

\* the slots thisudp, entered at <<u, c>> with list sv, will come to
UdpAttempts(sv, u, c) ==
  {a \in Rounds \X Slots : sv[a[2]] # Null /\ ~Before(a, <<u, c>>)}

TcpAttempts(sv, c) == {<<0, i>> : i \in {j \in Slots : sv[j] # Null /\ j >= c}}

\* getscopeid: the scope listed for the first slot that holds this address
GetScopeId(sv, ids, ip) ==
  IF ip \notin LinkLocal THEN 0
  ELSE ids[CHOOSE i \in Slots :
             sv[i] = ip /\ \A j \in Slots : sv[j] = ip => i <= j]

\* d->scope_id after the loop has gone over the attempts in "visited": it is
\* looked up for an LLU server only as long as it is 0
ScopeAfter(sv, ids, sid, visited) ==
  LET found == {a \in visited : GetScopeId(sv, ids, sv[a[2]]) # 0}
  IN  IF sid # 0 \/ found = {} THEN sid
      ELSE GetScopeId(sv, ids,
             sv[(CHOOSE a \in found : \A b \in found : ~Before(b, a))[2]])

UpTo(as, a)  == {b \in as : ~Before(a, b)}
PriorTo(as, a) == {b \in as : Before(b, a)}

(***************************************************************************)
(* thisudp(d), entered with udploop = u, curserver = c and memory m: the   *)
(* attempts before a fail to connect or send, a succeeds; or socket() or   *)
(* bind() fails at a; or every attempt fails.                              *)
(***************************************************************************)
ThisUdp(sv, ids, u, c, m) ==
  LET as == UdpAttempts(sv, u, c) IN
  \/ \E a \in as, id \in Ids :
       /\ Socket
       /\ SetMem([m EXCEPT !.query.id = id])
       /\ scope_id' = ScopeAfter(sv, ids, scope_id, UpTo(as, a))
       /\ udploop' = a[1] /\ curserver' = a[2]
       /\ asked' = [m.query EXCEPT !.id = id]
       /\ due' = FALSE
       /\ tcpstate' = 0
       /\ result' = "pending"
       /\ UNCHANGED sent
  \/ \E a \in as :
       /\ GiveUp(m)
       /\ scope_id' = ScopeAfter(sv, ids, scope_id, PriorTo(as, a))
       /\ udploop' = a[1] /\ curserver' = a[2]
       /\ UNCHANGED <<asked, due, tcpstate, sent>>
  \/ /\ GiveUp(m)
     /\ scope_id' = ScopeAfter(sv, ids, scope_id, as)
     /\ udploop' = 5 /\ curserver' = 0
     /\ UNCHANGED <<asked, due, tcpstate, sent>>

(***************************************************************************)
(* thistcp(d), entered with curserver = c: connect at attempt a succeeds   *)
(* at once (tcpstate 2, pos is left as it is) or is in progress            *)
(* (tcpstate 1), after the attempts before a were refused; or socket() or  *)
(* bind() fails at a; or every attempt is refused.                         *)
(***************************************************************************)
ThisTcp(sv, ids, c, m0) ==
  LET as == TcpAttempts(sv, c)
      m  == PacketFree(m0)
  IN
  \/ \E a \in as, id \in Ids, st \in {1, 2} :
       /\ Socket
       /\ SetMem([m EXCEPT !.query.id = id])
       /\ scope_id' = ScopeAfter(sv, ids, scope_id, UpTo(as, a))
       /\ curserver' = a[2]
       /\ asked' = [m.query EXCEPT !.id = id]
       /\ due' = FALSE
       /\ sent' = 0
       /\ tcpstate' = st
       /\ result' = "pending"
  \/ \E a \in as :
       /\ GiveUp(m)
       /\ scope_id' = ScopeAfter(sv, ids, scope_id, PriorTo(as, a))
       /\ curserver' = a[2]
       /\ UNCHANGED <<asked, due, tcpstate, sent>>
  \/ /\ GiveUp(m)
     /\ scope_id' = ScopeAfter(sv, ids, scope_id, as)
     /\ curserver' = QUERY_MAXNS
     /\ UNCHANGED <<asked, due, tcpstate, sent>>

\* faulty variant of NextTcp: starts over with the first server
RestartTcp == ThisTcp(servers, scope_ids, 0, Mem) /\ UNCHANGED udploop

FirstTcp == ThisTcp(servers, scope_ids, 0, Mem) /\ UNCHANGED udploop
NextTcp  == ThisTcp(servers, scope_ids, curserver + 1, Mem) /\ UNCHANGED udploop
NextUdp  == ThisUdp(servers, scope_ids, udploop, curserver + 1, Mem)

-----------------------------------------------------------------------------
\* what a caller's call of dns_transmit_get leaves alone
Call == <<servers, qtype, scope_ids, question, turn>>

(***************************************************************************)
(* dns_transmit_start, or dns_transmit_start6 if l has scopes, for         *)
(* question q with server list l; rec is flagrecursive.  Whatever the      *)
(* struct held is freed first; packetlen, pos and scope_id keep what an    *)
(* earlier lookup left.                                                    *)
(***************************************************************************)
Start(q, l, rec) ==
  LET freed == QueryFree(PacketFree(Mem))
      m     == AllocQuery(freed, [name |-> q.name, type |-> q.type, id |-> 0])
      loop0 == IF rec THEN 1 ELSE 0
      ids   == IF l.scope = Null THEN scope_ids ELSE l.scope
  IN
  /\ question' = q /\ turn' = 1 - turn
  /\ scope_ids' = ids
  /\ UNCHANGED <<packetlen, pos>>
  /\ \/ \* alloc(querylen) fails
        /\ SetMem(freed) /\ SocketFree /\ result' = "error"
        /\ UNCHANGED <<servers, qtype, tcpstate, udploop, curserver, scope_id,
                       due, asked, sent>>
     \/ /\ qtype' = q.type
        /\ servers' = l.ip
        /\ IF q.name \in LongNames
           THEN ThisTcp(l.ip, ids, 0, m) /\ udploop' = loop0
           ELSE ThisUdp(l.ip, ids, loop0, 0, m)

\* dns_transmit_free, called by the owner of the struct
Free ==
  /\ SetMem(QueryFree(PacketFree(Mem)))
  /\ SocketFree
  /\ result' = "idle"
  /\ UNCHANGED <<Call, packetlen, tcpstate, udploop, curserver, pos, scope_id,
                 due, asked, sent>>

-----------------------------------------------------------------------------
\* dns_transmit_get without revents, before the deadline (as the caller's
\* stamp has it, which may be older than the clock): nothing happens
GetEarly == result = "pending" /\ UNCHANGED vars

\* dns_transmit_get without revents, after the deadline
GetTimeout ==
  /\ result = "pending" /\ due
  /\ IF tcpstate = 0 THEN NextUdp ELSE NextTcp
  /\ UNCHANGED <<Call, packetlen, pos>>

(***************************************************************************)
(* dns_transmit_get on a readable UDP socket                               *)
(***************************************************************************)
\* faulty variant of Irrelevant: does not compare the ids
IrrelevantAnyId(p) == ~(p # Malformed /\ p.name = query.name /\ p.type = qtype)

\* faulty variant of Irrelevant: does not compare the names
IrrelevantAnyName(p) == ~(p # Malformed /\ p.id = query.id /\ p.type = qtype)

\* irrelevant, serverwantstcp and serverfailed
Irrelevant(p) ==
  ~(/\ p # Malformed
    /\ p.id = query.id /\ p.name = query.name
    /\ p.type = qtype)
ServerWantsTcp(p) == p.tc
ServerFailed(p)   == p.rcode \notin {0, 3}

OnUdp == result = "pending" /\ tcpstate = 0

\* recv fails: in round 2 a refused connection is waited out, else next server
UdpRecvFails(refused) ==
  /\ OnUdp
  /\ IF refused /\ udploop = 2
     THEN UNCHANGED vars
     ELSE NextUdp /\ UNCHANGED <<Call, packetlen, pos>>

\* a datagram longer than MSGSIZE, or not an answer to this query, is ignored
UdpIgnore(p) == OnUdp /\ Irrelevant(p) /\ UNCHANGED vars
UdpOversize  == OnUdp /\ UNCHANGED vars

UdpTruncated(p) ==
  /\ OnUdp /\ ~Irrelevant(p) /\ ServerWantsTcp(p)
  /\ FirstTcp
  /\ UNCHANGED <<Call, packetlen, pos>>

UdpFailed(p) ==
  /\ OnUdp /\ ~Irrelevant(p) /\ ~ServerWantsTcp(p) /\ ServerFailed(p)
  /\ IF udploop = 2
     THEN UNCHANGED vars
     ELSE NextUdp /\ UNCHANGED <<Call, packetlen, pos>>

UdpAnswer(p, len) ==
  /\ OnUdp /\ ~Irrelevant(p) /\ ~ServerWantsTcp(p) /\ ~ServerFailed(p)
  /\ packetlen' = len
  /\ \/ \* alloc(packetlen) fails
        GiveUp(Mem)
     \/ /\ SetMem(QueryFree(AllocPacket(Mem, [size |-> len, body |-> p])))
        /\ SocketFree
        /\ result' = "done"
  /\ UNCHANGED <<Call, tcpstate, udploop, curserver, pos, scope_id, due, asked, sent>>

(***************************************************************************)
(* dns_transmit_get on a ready TCP socket, by tcpstate                     *)
(***************************************************************************)
OnTcp(st) == result = "pending" /\ tcpstate = st

\* the connection, a write or a read fails (r <= 0): the next server
TcpFails ==
  /\ \E st \in 1 .. 5 : OnTcp(st)
  /\ NextTcp
  /\ UNCHANGED <<Call, packetlen, pos>>

TcpConnected ==
  /\ OnTcp(1)
  /\ pos' = 0 /\ tcpstate' = 2
  /\ UNCHANGED <<Call, query, packet, packetlen, s1, udploop, curserver,
                 scope_id, due, world, result>>

\* write takes r bytes of querylen - pos; that difference is unsigned, so a pos
\* beyond querylen asks for a huge write (followed up to PosBound)
TcpWrite(r) ==
  /\ OnTcp(2)
  /\ r \in 1 .. ((IF pos <= QueryLen THEN QueryLen ELSE PosBound) - pos)
  /\ pos' = pos + r
  /\ sent' = sent + r
  /\ IF pos' = QueryLen THEN tcpstate' = 3 /\ due' = FALSE
                        ELSE UNCHANGED <<tcpstate, due>>
  /\ UNCHANGED <<Call, query, packet, packetlen, s1, udploop, curserver,
                 scope_id, open, blocks, asked, result>>

\* faulty variant of TcpLength1: adds to the packetlen of an earlier answer
TcpLength1Adds(ch) ==
  /\ OnTcp(3)
  /\ packetlen' = packetlen + ch /\ tcpstate' = 4
  /\ UNCHANGED <<Call, query, packet, s1, udploop, curserver, pos, scope_id,
                 due, world, result>>

TcpLength1(ch) ==
  /\ OnTcp(3)
  /\ packetlen' = ch /\ tcpstate' = 4
  /\ UNCHANGED <<Call, query, packet, s1, udploop, curserver, pos, scope_id,
                 due, world, result>>

\* faulty variant of TcpLength2: goes on at the pos of the query
TcpLength2KeepsPos(ch) ==
  /\ OnTcp(4)
  /\ packetlen' = packetlen * ByteBase + ch
  /\ tcpstate' = 5 /\ UNCHANGED pos
  /\ \/ GiveUp(Mem)
     \/ /\ SetMem(AllocPacket(Mem, [size |-> packetlen', body |-> Null]))
        /\ UNCHANGED <<s1, open, result>>
  /\ UNCHANGED <<Call, udploop, curserver, scope_id, due, asked, sent>>

TcpLength2(ch) ==
  /\ OnTcp(4)
  /\ packetlen' = packetlen * ByteBase + ch
  /\ tcpstate' = 5 /\ pos' = 0
  /\ \/ GiveUp(Mem)
     \/ /\ SetMem(AllocPacket(Mem, [size |-> packetlen', body |-> Null]))
        /\ UNCHANGED <<s1, open, result>>
  /\ UNCHANGED <<Call, udploop, curserver, scope_id, due, asked, sent>>

\* a read of r bytes that leaves the packet incomplete
TcpReadSome(r) ==
  /\ OnTcp(5)
  /\ r > 0 /\ pos + r < packetlen
  /\ pos' = pos + r
  /\ UNCHANGED <<Call, query, packet, packetlen, s1, tcpstate, udploop,
                 curserver, scope_id, due, world, result>>

\* the read that completes the packet: accept p, or ask the next server
TcpReadLast(p) ==
  /\ OnTcp(5)
  /\ pos < packetlen
  /\ packetlen < MinReply => p = Malformed
  /\ pos' = packetlen
  /\ IF Irrelevant(p) \/ ServerWantsTcp(p) \/ ServerFailed(p)
     THEN NextTcp
     ELSE /\ SetMem(QueryFree([Mem EXCEPT !.packet.body = p]))
          /\ SocketFree
          /\ result' = "done"
          /\ UNCHANGED <<tcpstate, udploop, curserver, scope_id, due, asked, sent>>
  /\ UNCHANGED <<Call, packetlen>>

\* time passes d->deadline
Tick ==
  /\ result = "pending" /\ ~due
  /\ due' = TRUE
  /\ UNCHANGED <<struct, scope_ids, world, question, turn, result>>

-----------------------------------------------------------------------------
Init ==
  /\ servers = [i \in Slots |-> Null]
  /\ question = Null /\ turn = 0 /\ qtype = Null
  /\ query = Null /\ packet = Null /\ packetlen = 0
  /\ s1 = 0 /\ tcpstate = 0 /\ udploop = 0 /\ curserver = 0
  /\ pos = 0 /\ scope_id = 0 /\ scope_ids = [i \in Slots |-> 0]
  /\ due = FALSE
  /\ open = {} /\ blocks = 0 /\ sent = 0 /\ asked = Null
  /\ result = "idle"

Messages == Replies \cup {Malformed}

GetUdp ==
  \/ \E refused \in BOOLEAN : UdpRecvFails(refused)
  \/ UdpOversize
  \/ \E p \in Messages : UdpIgnore(p)
  \/ \E p \in Messages : UdpTruncated(p)
  \/ \E p \in Messages : UdpFailed(p)
  \/ \E p \in Replies, len \in Lens : len >= MinReply /\ UdpAnswer(p, len)

GetTcp ==
  \/ TcpFails
  \/ TcpConnected
  \/ \E r \in 1 .. PosBound : TcpWrite(r)
  \/ \E ch \in 0 .. ByteBase - 1 : TcpLength1(ch)
  \/ \E ch \in 0 .. ByteBase - 1 : TcpLength2(ch)
  \/ \E r \in Lens : TcpReadSome(r)
  \/ \E p \in Messages : TcpReadLast(p)

Get == GetEarly \/ GetTimeout \/ GetUdp \/ GetTcp

Next ==
  \/ \E q \in Questions, l \in ServerLists, rec \in BOOLEAN : Start(q, l, rec)
  \/ Free
  \/ Get
  \/ Tick

Spec == Init /\ [][Next]_vars

-----------------------------------------------------------------------------
(***************************************************************************)
(* Properties                                                              *)
(***************************************************************************)
Live(x) == IF x = Null THEN 0 ELSE 1

\* Every path through the engine frees what it allocates: the process holds
\* exactly the descriptor in d->s1 and the blocks in d->query and d->packet,
\* after any sequence of retries, failures and restarts (socketfree, queryfree
\* and packetfree, dns_transmit.c:85-111, and their callers).
NothingLeaks ==
  /\ open = (IF s1 = 0 THEN {} ELSE {s1 - 1})
  /\ blocks = Live(query) + Live(packet)

\* What a return code promises of the struct: 0 leaves a socket to wait on and
\* a query to repeat, 1 leaves the answer and nothing else, DNS_COM leaves
\* nothing (dns_transmit.c:143-164, 195-218, 323-330, 403-409).
ResultShape ==
  /\ result = "pending" => s1 # 0 /\ query # Null
  /\ result = "pending" /\ packet # Null => tcpstate = 5
  /\ result = "done" => s1 = 0 /\ query = Null /\ packet # Null
  /\ result \in {"idle", "error"} => s1 = 0 /\ query = Null /\ packet = Null

\* A message is accepted only if it answers the question of the last
\* dns_transmit_start under the id of the attempt under way: not a late answer
\* to an earlier attempt or lookup, not a truncated one, not a server failure
\* (irrelevant, serverwantstcp, serverfailed as used by dns_transmit_get).
AnswerIsForQuestion ==
  result = "done" =>
    /\ packet.size = packetlen
    /\ packet.body \in Replies
    /\ packet.body.id = asked.id
    /\ packet.body.name = question.name /\ packet.body.type = question.type
    /\ ~packet.body.tc /\ packet.body.rcode \in {0, 3}

\* The comments above tcpstate 4 and 5, dns_transmit.c:374-378 and 391-396: one
\* byte, then the whole length is in packetlen, packet is allocated with that
\* size and pos bytes of it are read; so packetlen neither overflows nor does a
\* read of packetlen - pos bytes at packet + pos leave the buffer.
ReadsStayInPacket ==
  /\ OnTcp(4) => packetlen < ByteBase
  /\ OnTcp(5) => packet # Null /\ packet.size = packetlen /\ pos <= packetlen

\* While an attempt is under way, d->query repeats the caller's question under
\* the id last put on the wire, and curserver and udploop name an attempt: the
\* message that a retry sends, or a reply is compared with, is never one of an
\* earlier lookup (dns_transmit.c:139-149, 191-192, 246-252).
QueryAsksQuestion ==
  result = "pending" =>
    /\ question \in Questions
    /\ query.name = question.name /\ query.type = question.type
    /\ qtype = question.type
    /\ asked = query
    /\ curserver \in Slots /\ udploop \in Rounds

\* The comment above tcpstate 2, dns_transmit.c:344-347: "have sent pos bytes
\* of query" on this connection.
PosIsSent == OnTcp(2) => pos = sent

\* dns_transmit_start6 takes one scope per server "in order to bind to the
\* remote IPv6 LLU addresses" (man/dnsstub.3:59-64): the attempt under way at
\* an LLU server uses the scope listed for it.
ScopeOfServer ==
  result = "pending" /\ servers[curserver] \in LinkLocal =>
    scope_id = GetScopeId(servers, scope_ids, servers[curserver])

-----------------------------------------------------------------------------
(***************************************************************************)
(* The contract of DnsLookup, with the struct's counters as the attempt    *)
(* and the return codes as the phase.                                      *)
(***************************************************************************)
phaseBar   == CASE result = "pending" -> "asking"
                [] result = "done"    -> "answered"
                [] result = "error"   -> "failed"
                [] OTHER              -> "idle"
attemptBar == IF result = "pending"
              THEN [proto  |-> IF tcpstate = 0 THEN 0 ELSE 1,
                    round  |-> IF tcpstate = 0 THEN udploop ELSE 0,
                    server |-> curserver]
              ELSE [proto |-> 0, round |-> 0, server |-> 0]
answerBar  == IF result = "done" THEN packet.body ELSE Null

Lookup == INSTANCE DnsLookup WITH
  phase <- phaseBar, attempt <- attemptBar, answer <- answerBar

\* The engine implements the contract: a lookup walks the attempts in one
\* direction and ends with an answer to its own question or with a failure.
LookupSpec == Lookup!Spec
=============================================================================
