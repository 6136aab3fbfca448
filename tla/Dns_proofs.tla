----------------------------- MODULE Dns_proofs -----------------------------
(***************************************************************************)
(* Proofs about DnsTransmit and DnsResolve, for every value of their       *)
(* constants: the engine is type correct, leaks nothing, returns what its  *)
(* codes promise, accepts only answers to the question asked, and          *)
(* implements DnsLookup; and all of this holds under the loop of           *)
(* dns_resolve, which drives the engine as its contract allows.            *)
(***************************************************************************)
EXTENDS DnsResolve, WellFoundedInduction, TLAPS

-----------------------------------------------------------------------------
(***************************************************************************)
(* Arithmetic, and the choices of getscopeid                               *)
(***************************************************************************)
\* a non-empty set of numbers has a least one
LEMMA Least ==
  ASSUME NEW T, T \subseteq Nat, T # {}
  PROVE  \E x \in T : \A y \in T : x <= y
<1> DEFINE R == OpToRel(<, Nat)
<1>1. \E x \in T : \A y \in T : ~(<<y, x>> \in R)
  <2>1. IsWellFoundedOn(R, Nat)
    BY NatLessThanWellFounded
  <2> HIDE DEF R
  <2>2. QED
    BY <2>1, WFMin
<1>2. \A x, y \in Nat : y < x => <<y, x>> \in R
  BY DEF OpToRel
<1> HIDE DEF R
<1>3. PICK x \in T : \A y \in T : ~(<<y, x>> \in R)
  BY <1>1
<1>4. ASSUME NEW y \in T PROVE x <= y
  <2>1. x \in Nat /\ y \in Nat
    OBVIOUS
  <2>2. ~(y < x)
    BY <1>2, <1>3, <2>1
  <2>3. QED
    BY <2>1, <2>2
<1>5. QED
  BY <1>4

\* two length bytes make a number of the range of packetlen
LEMMA TwoBytes ==
  ASSUME NEW a \in 0 .. ByteBase - 1, NEW b \in 0 .. ByteBase - 1
  PROVE  a * ByteBase + b \in Lens
<1> DEFINE B == ByteBase
<1>1. B \in Nat /\ B >= 2
  BY ConstantsAssumption
<1>2. a * B <= (B - 1) * B
  BY <1>1
<1>3. (B - 1) * B = B * B - B
  BY <1>1
<1>4. a * B \in Nat /\ B * B \in Nat
  BY <1>1
<1>5. QED
  BY <1>1, <1>2, <1>3, <1>4 DEF Lens

\* getscopeid returns one of the listed scopes, or 0
LEMMA GetScopeIdType ==
  ASSUME NEW sv \in Lists, NEW ids \in [Slots -> Nat], NEW j \in Slots
  PROVE  GetScopeId(sv, ids, sv[j]) \in Nat
<1> DEFINE ip == sv[j]
           same == {i \in Slots : sv[i] = ip}
           first(i) == sv[i] = ip /\ \A k \in Slots : sv[k] = ip => i <= k
<1>1. same \subseteq Nat /\ same # {}
  BY DEF Slots
<1>2. \E i \in same : \A k \in same : i <= k
  <2> HIDE DEF same
  <2> QED BY <1>1, Least
<1>3. \E i \in Slots : first(i)
  BY <1>2
<1>4. (CHOOSE i \in Slots : first(i)) \in Slots
  <2> HIDE DEF first
  <2> QED BY <1>3
<1>5. QED
  BY <1>4 DEF GetScopeId

\* among attempts there is a first one
LEMMA FirstAttempt ==
  ASSUME NEW T, T \subseteq Rounds \X Slots, T # {}
  PROVE  \E a \in T : \A b \in T : ~Before(b, a)
<1> DEFINE rounds == {a[1] : a \in T}
<1>1. rounds \subseteq Nat /\ rounds # {}
  BY DEF Rounds
<1>2. PICK u \in rounds : \A v \in rounds : u <= v
  <2> HIDE DEF rounds
  <2> QED BY <1>1, Least
<1> DEFINE slots == {a[2] : a \in {b \in T : b[1] = u}}
<1>3. slots \subseteq Nat /\ slots # {}
  BY DEF Slots
<1>4. PICK c \in slots : \A d \in slots : c <= d
  <2> HIDE DEF slots
  <2> QED BY <1>3, Least
<1>5. PICK a \in T : a[1] = u /\ a[2] = c
  BY <1>4
<1>6. ASSUME NEW b \in T PROVE ~Before(b, a)
  <2>1. u <= b[1] /\ (b[1] = u => c <= b[2])
    BY <1>2, <1>4
  <2>2. u \in Nat /\ c \in Nat /\ b[1] \in Nat /\ b[2] \in Nat
    BY <1>1, <1>3 DEF Rounds, Slots
  <2>3. QED
    BY <1>5, <2>1, <2>2 DEF Before
<1>7. QED
  BY <1>6

LEMMA ScopeAfterType ==
  ASSUME NEW sv \in Lists, NEW ids \in [Slots -> Nat], NEW sid \in Nat,
         NEW visited \in SUBSET (Rounds \X Slots)
  PROVE  ScopeAfter(sv, ids, sid, visited) \in Nat
<1> DEFINE found == {a \in visited : GetScopeId(sv, ids, sv[a[2]]) # 0}
           first(a) == \A b \in found : ~Before(b, a)
<1>1. CASE sid # 0 \/ found = {}
  BY <1>1 DEF ScopeAfter
<1>2. CASE ~(sid # 0 \/ found = {})
  <2>1. \E a \in found : first(a)
    <3>1. found \subseteq Rounds \X Slots /\ found # {}
      BY <1>2
    <3> HIDE DEF found
    <3> QED BY <3>1, FirstAttempt
  <2>2. (CHOOSE a \in found : first(a)) \in found
    <3> HIDE DEF found, first
    <3> QED BY <2>1
  <2>3. (CHOOSE a \in found : first(a))[2] \in Slots
    <3>1. found \subseteq Rounds \X Slots
      OBVIOUS
    <3> HIDE DEF found, first
    <3> QED BY <2>2, <3>1
  <2>4. ScopeAfter(sv, ids, sid, visited)
          = GetScopeId(sv, ids, sv[(CHOOSE a \in found : first(a))[2]])
    BY <1>2 DEF ScopeAfter
  <2>5. QED
    BY <2>3, <2>4, GetScopeIdType
<1>3. QED
  BY <1>1, <1>2

-----------------------------------------------------------------------------
(***************************************************************************)
(* Memory and descriptors                                                  *)
(***************************************************************************)
Memories == [query : Queries \cup {Null}, packet : Packets \cup {Null}, blocks : Int]

\* the block counter counts the two pointers
Counted(m) == m.blocks = Live(m.query) + Live(m.packet)

\* the part of NothingLeaks about descriptors
OneSocket == open = (IF s1 = 0 THEN {} ELSE {s1 - 1})

LEMMA Freeing ==
  ASSUME NEW m \in Memories, Counted(m)
  PROVE  /\ QueryFree(m) \in Memories /\ Counted(QueryFree(m))
         /\ QueryFree(m).query = Null /\ QueryFree(m).packet = m.packet
         /\ PacketFree(m) \in Memories /\ Counted(PacketFree(m))
         /\ PacketFree(m).query = m.query /\ PacketFree(m).packet = Null
<1>1. m.blocks \in Int
  BY DEF Memories
<1>2. /\ QueryFree(m) \in Memories /\ Counted(QueryFree(m))
      /\ QueryFree(m).query = Null /\ QueryFree(m).packet = m.packet
  <2>1. CASE m.query = Null
    BY <2>1 DEF QueryFree
  <2>2. CASE m.query # Null
    <3>1. QueryFree(m) = [query |-> Null, packet |-> m.packet, blocks |-> m.blocks - 1]
      BY <2>2 DEF QueryFree
    <3>2. /\ QueryFree(m) \in Memories
          /\ QueryFree(m).query = Null /\ QueryFree(m).packet = m.packet
          /\ QueryFree(m).blocks = m.blocks - 1
      BY <1>1, <3>1 DEF Memories
    <3>3. QED
      BY <1>1, <2>2, <3>2 DEF Counted, Live
  <2>3. QED
    BY <2>1, <2>2
<1>3. CASE m.packet = Null
  <2>1. PacketFree(m) = m
    BY <1>3 DEF PacketFree
  <2>2. QED BY <1>2, <1>3, <2>1
<1>4. CASE m.packet # Null
  <2>1. PacketFree(m) = [query |-> m.query, packet |-> Null, blocks |-> m.blocks - 1]
    BY <1>4 DEF PacketFree
  <2>2. /\ PacketFree(m) \in Memories
        /\ PacketFree(m).packet = Null /\ PacketFree(m).query = m.query
        /\ PacketFree(m).blocks = m.blocks - 1
    BY <1>1, <2>1 DEF Memories
  <2>3. Counted(PacketFree(m))
    BY <1>1, <1>4, <2>2 DEF Counted, Live
  <2>4. QED
    BY <1>2, <2>2, <2>3
<1>5. QED
  BY <1>3, <1>4

LEMMA Allocating ==
  ASSUME NEW m \in Memories, Counted(m)
  PROVE  /\ \A q \in Queries : m.query = Null =>
              /\ AllocQuery(m, q) \in Memories /\ Counted(AllocQuery(m, q))
              /\ AllocQuery(m, q).query = q /\ AllocQuery(m, q).packet = m.packet
         /\ \A p \in Packets : m.packet = Null =>
              /\ AllocPacket(m, p) \in Memories /\ Counted(AllocPacket(m, p))
              /\ AllocPacket(m, p).query = m.query /\ AllocPacket(m, p).packet = p
<1>1. Null \notin Queries /\ Null \notin Packets
  BY ConstantsAssumption
<1>2. m.blocks \in Int
  BY DEF Memories
<1>3. ASSUME NEW q \in Queries, m.query = Null
      PROVE  /\ AllocQuery(m, q) \in Memories /\ Counted(AllocQuery(m, q))
             /\ AllocQuery(m, q).query = q /\ AllocQuery(m, q).packet = m.packet
  <2>1. /\ AllocQuery(m, q) \in Memories
        /\ AllocQuery(m, q).query = q /\ AllocQuery(m, q).packet = m.packet
        /\ AllocQuery(m, q).blocks = m.blocks + 1
    BY <1>2 DEF Memories, AllocQuery
  <2>2. QED
    BY <1>1, <1>2, <1>3, <2>1 DEF Counted, Live
<1>4. ASSUME NEW p \in Packets, m.packet = Null
      PROVE  /\ AllocPacket(m, p) \in Memories /\ Counted(AllocPacket(m, p))
             /\ AllocPacket(m, p).query = m.query /\ AllocPacket(m, p).packet = p
  <2>1. /\ AllocPacket(m, p) \in Memories
        /\ AllocPacket(m, p).packet = p /\ AllocPacket(m, p).query = m.query
        /\ AllocPacket(m, p).blocks = m.blocks + 1
    BY <1>2 DEF Memories, AllocPacket
  <2>2. QED
    BY <1>1, <1>2, <1>4, <2>1 DEF Counted, Live
<1>5. QED
  BY <1>3, <1>4

\* a new query id in place
LEMMA NewId ==
  ASSUME NEW m \in Memories, Counted(m), m.query \in Queries, NEW id \in Ids
  PROVE  /\ [m EXCEPT !.query.id = id] \in Memories
         /\ Counted([m EXCEPT !.query.id = id])
         /\ [m EXCEPT !.query.id = id].query = [m.query EXCEPT !.id = id]
         /\ [m EXCEPT !.query.id = id].packet = m.packet
         /\ [m.query EXCEPT !.id = id] \in Queries
         /\ [m.query EXCEPT !.id = id].id = id
         /\ [m.query EXCEPT !.id = id].name = m.query.name
         /\ [m.query EXCEPT !.id = id].type = m.query.type
<1>1. Null \notin Queries
  BY ConstantsAssumption
<1>2. [m.query EXCEPT !.id = id] \in Queries
  BY DEF Queries
<1>3. [m EXCEPT !.query.id = id].query = [m.query EXCEPT !.id = id]
  BY DEF Memories
<1>4. /\ [m.query EXCEPT !.id = id].id = id
      /\ [m.query EXCEPT !.id = id].name = m.query.name
      /\ [m.query EXCEPT !.id = id].type = m.query.type
  BY DEF Queries
<1>5. /\ [m EXCEPT !.query.id = id] \in Memories
      /\ [m EXCEPT !.query.id = id].packet = m.packet
      /\ [m EXCEPT !.query.id = id].blocks = m.blocks
  BY <1>2 DEF Memories
<1>6. QED
  BY <1>1, <1>2, <1>3, <1>4, <1>5 DEF Counted, Live

SocketType == s1 \in {0} \cup {fd + 1 : fd \in Fds} /\ open \subseteq Fds

\* closing the socket, and opening the next one
LEMMA Sockets ==
  ASSUME SocketType, OneSocket
  PROVE  /\ SocketFree => SocketType' /\ OneSocket' /\ s1' = 0
         /\ Socket => SocketType' /\ OneSocket' /\ s1' # 0
         /\ UNCHANGED <<s1, open>> => SocketType' /\ OneSocket'
<1>1. Fds \subseteq Nat
  BY ConstantsAssumption
<1>2. Kept = {}
  BY <1>1 DEF Kept, OneSocket, SocketType
<1>3. SocketFree => SocketType' /\ OneSocket' /\ s1' = 0
  BY <1>2 DEF SocketFree, SocketType, OneSocket
<1>4. Socket => SocketType' /\ OneSocket' /\ s1' # 0
  BY <1>1, <1>2 DEF Socket, SocketType, OneSocket
<1>5. QED
  BY <1>3, <1>4 DEF SocketType, OneSocket

-----------------------------------------------------------------------------
(***************************************************************************)
(* Attempts                                                                *)
(***************************************************************************)
\* what a call of thisudp or thistcp with memory m leaves behind, whichever
\* way it ends
Outcome(m) ==
  /\ SocketType' /\ OneSocket'
  /\ query' \in Queries \cup {Null} /\ packet' \in Packets \cup {Null}
  /\ blocks' \in Int /\ blocks' = Live(query') + Live(packet')
  /\ scope_id' \in Nat
  /\ udploop' \in 0 .. 5 /\ curserver' \in 0 .. QUERY_MAXNS
  /\ tcpstate' \in 0 .. 5 /\ due' \in BOOLEAN
  /\ asked' \in Queries \cup {Null} /\ sent' \in Nat
  /\ result' \in {"pending", "error"}
  /\ result' = "pending" =>
       /\ s1' # 0 /\ query' \in Queries /\ asked' = query'
       /\ query'.name = m.query.name /\ query'.type = m.query.type
       /\ udploop' \in Rounds /\ curserver' \in Slots
  /\ result' = "error" => s1' = 0 /\ query' = Null /\ packet' = Null

\* the variables that an attempt that cannot be made leaves alone
Leftovers ==
  /\ scope_id \in Nat /\ tcpstate \in 0 .. 5 /\ due \in BOOLEAN
  /\ asked \in Queries \cup {Null} /\ sent \in Nat

LEMMA GivingUp ==
  ASSUME SocketType, OneSocket, NEW m \in Memories, Counted(m), GiveUp(m)
  PROVE  /\ SocketType' /\ OneSocket' /\ s1' = 0
         /\ query' = Null /\ packet' = Null /\ blocks' = 0
         /\ result' = "error"
<1>1. PacketFree(m) \in Memories /\ Counted(PacketFree(m)) /\ PacketFree(m).packet = Null
  BY Freeing
<1> DEFINE f == QueryFree(PacketFree(m))
<1>2. f \in Memories /\ Counted(f) /\ f.query = Null /\ f.packet = Null
  BY <1>1, Freeing
<1>3. f.blocks = 0
  BY <1>2 DEF Counted, Live
<1>4. SetMem(f) /\ SocketFree /\ result' = "error"
  BY DEF GiveUp
<1> HIDE DEF f
<1>5. QED
  BY <1>2, <1>3, <1>4, Sockets DEF SetMem

LEMMA Reaching ==
  ASSUME NEW m \in Memories, Counted(m), m.query \in Queries, NEW id \in Ids,
         SetMem([m EXCEPT !.query.id = id]),
         asked' = [m.query EXCEPT !.id = id]
  PROVE  /\ query' \in Queries /\ query' = asked'
         /\ query'.name = m.query.name /\ query'.type = m.query.type
         /\ packet' = m.packet /\ packet' \in Packets \cup {Null}
         /\ blocks' \in Int /\ blocks' = Live(query') + Live(packet')
<1> DEFINE n == [m EXCEPT !.query.id = id]
<1>1. /\ n \in Memories /\ Counted(n)
      /\ n.query = [m.query EXCEPT !.id = id] /\ n.packet = m.packet
  BY NewId, Zenon
<1>2. SetMem(n)
  OBVIOUS
<1> HIDE DEF n
<1>3. /\ n.query = asked' /\ n.query \in Queries
      /\ n.query.name = m.query.name /\ n.query.type = m.query.type
  BY <1>1, NewId
<1>4. QED
  BY <1>1, <1>2, <1>3 DEF SetMem, Counted, Memories

LEMMA ThisUdpOutcome ==
  ASSUME SocketType, OneSocket, Leftovers,
         NEW sv \in Lists, NEW ids \in [Slots -> Nat],
         NEW u \in Rounds, NEW c \in 0 .. QUERY_MAXNS,
         NEW m \in Memories, Counted(m), m.query \in Queries,
         ThisUdp(sv, ids, u, c, m)
  PROVE  /\ Outcome(m)
         /\ result' = "pending" =>
              /\ tcpstate' = 0 /\ packet' = m.packet
              /\ ~Before(<<udploop', curserver'>>, <<u, c>>)
<1> DEFINE as == UdpAttempts(sv, u, c)
<1>1. as \subseteq Rounds \X Slots /\ \A a \in as : ~Before(a, <<u, c>>)
  BY DEF UdpAttempts
<1>2. ASSUME NEW visited \in SUBSET as
      PROVE  ScopeAfter(sv, ids, scope_id, visited) \in Nat
  BY <1>1, ScopeAfterType DEF Leftovers
<1>3. \A a \in as : UpTo(as, a) \subseteq as /\ PriorTo(as, a) \subseteq as
  BY DEF UpTo, PriorTo
<1>4. QUERY_MAXNS \in Nat
  BY ConstantsAssumption
<1>5. CASE \E a \in as, id \in Ids :
             /\ Socket
             /\ SetMem([m EXCEPT !.query.id = id])
             /\ scope_id' = ScopeAfter(sv, ids, scope_id, UpTo(as, a))
             /\ udploop' = a[1] /\ curserver' = a[2]
             /\ asked' = [m.query EXCEPT !.id = id]
             /\ due' = FALSE
             /\ tcpstate' = 0
             /\ result' = "pending"
             /\ sent' = sent
  <2>1. PICK a \in as, id \in Ids :
             /\ Socket
             /\ SetMem([m EXCEPT !.query.id = id])
             /\ scope_id' = ScopeAfter(sv, ids, scope_id, UpTo(as, a))
             /\ udploop' = a[1] /\ curserver' = a[2]
             /\ asked' = [m.query EXCEPT !.id = id]
             /\ due' = FALSE
             /\ tcpstate' = 0
             /\ result' = "pending"
             /\ sent' = sent
    BY <1>5
  <2>2. SocketType' /\ OneSocket' /\ s1' # 0
    BY <2>1, Sockets
  <2>3. /\ query' \in Queries /\ query' = asked'
        /\ query'.name = m.query.name /\ query'.type = m.query.type
        /\ packet' = m.packet /\ packet' \in Packets \cup {Null}
        /\ blocks' \in Int /\ blocks' = Live(query') + Live(packet')
    BY <2>1, Reaching
  <2>4. scope_id' \in Nat
    BY <1>2, <1>3, <2>1
  <2>5. /\ udploop' \in Rounds /\ curserver' \in Slots
        /\ a = <<udploop', curserver'>>
    BY <1>1, <2>1
  <2>6. udploop' \in 0 .. 5 /\ curserver' \in 0 .. QUERY_MAXNS
    BY <1>4, <2>5 DEF Rounds, Slots
  <2>7. ~Before(<<udploop', curserver'>>, <<u, c>>)
    BY <1>1, <2>5
  <2>8. /\ due' \in BOOLEAN /\ tcpstate' = 0 /\ tcpstate' \in 0 .. 5
        /\ result' = "pending" /\ sent' \in Nat
    <3>1. due' \in BOOLEAN
      BY <2>1
    <3>2. tcpstate' = 0 /\ tcpstate' \in 0 .. 5
      BY <2>1
    <3>3. result' = "pending"
      BY <2>1
    <3>4. sent' = sent
      BY <2>1
    <3>5. QED
      BY <3>1, <3>2, <3>3, <3>4 DEF Leftovers
  <2>9. Outcome(m)
    BY <2>2, <2>3, <2>4, <2>5, <2>6, <2>8 DEF Outcome
  <2>10. QED
    BY <2>3, <2>7, <2>8, <2>9
<1>6. CASE /\ GiveUp(m)
           /\ \E a \in as : /\ scope_id' = ScopeAfter(sv, ids, scope_id, PriorTo(as, a))
                            /\ udploop' = a[1] /\ curserver' = a[2]
           /\ UNCHANGED <<asked, due, tcpstate, sent>>
  <2>1. scope_id' \in Nat /\ udploop' \in 0 .. 5 /\ curserver' \in 0 .. QUERY_MAXNS
    BY <1>1, <1>2, <1>3, <1>4, <1>6 DEF Rounds, Slots
  <2>2. QED
    BY <1>6, <2>1, GivingUp DEF Outcome, Leftovers, Live
<1>7. CASE /\ GiveUp(m)
           /\ scope_id' = ScopeAfter(sv, ids, scope_id, as)
           /\ udploop' = 5 /\ curserver' = 0
           /\ UNCHANGED <<asked, due, tcpstate, sent>>
  <2>1. scope_id' \in Nat /\ udploop' \in 0 .. 5 /\ curserver' \in 0 .. QUERY_MAXNS
    BY <1>2, <1>4, <1>7
  <2>2. QED
    BY <1>7, <2>1, GivingUp DEF Outcome, Leftovers, Live
<1>8. QED
  BY <1>5, <1>6, <1>7 DEF ThisUdp

LEMMA ThisTcpOutcome ==
  ASSUME SocketType, OneSocket, Leftovers, udploop' \in Rounds,
         NEW sv \in Lists, NEW ids \in [Slots -> Nat],
         NEW c \in 0 .. QUERY_MAXNS,
         NEW m0 \in Memories, Counted(m0), m0.query \in Queries,
         ThisTcp(sv, ids, c, m0)
  PROVE  /\ Outcome(m0)
         /\ result' = "pending" =>
              tcpstate' \in {1, 2} /\ packet' = Null /\ curserver' >= c
<1> DEFINE as == TcpAttempts(sv, c)
           m  == PacketFree(m0)
<1>1. as \subseteq Rounds \X Slots /\ \A a \in as : a[2] >= c
  BY DEF TcpAttempts, Rounds
<1>2. ASSUME NEW visited \in SUBSET as
      PROVE  ScopeAfter(sv, ids, scope_id, visited) \in Nat
  BY <1>1, ScopeAfterType DEF Leftovers
<1>3. \A a \in as : UpTo(as, a) \subseteq as /\ PriorTo(as, a) \subseteq as
  BY DEF UpTo, PriorTo
<1>4. QUERY_MAXNS \in Nat /\ udploop' \in 0 .. 5
  BY ConstantsAssumption DEF Rounds
<1>5. m \in Memories /\ Counted(m) /\ m.query = m0.query /\ m.packet = Null
  BY Freeing
<1> HIDE DEF m
<1>6. CASE \E a \in as, id \in Ids, st \in {1, 2} :
             /\ Socket
             /\ SetMem([m EXCEPT !.query.id = id])
             /\ scope_id' = ScopeAfter(sv, ids, scope_id, UpTo(as, a))
             /\ curserver' = a[2]
             /\ asked' = [m.query EXCEPT !.id = id]
             /\ due' = FALSE
             /\ sent' = 0
             /\ tcpstate' = st
             /\ result' = "pending"
  <2>1. PICK a \in as, id \in Ids, st \in {1, 2} :
             /\ Socket
             /\ SetMem([m EXCEPT !.query.id = id])
             /\ scope_id' = ScopeAfter(sv, ids, scope_id, UpTo(as, a))
             /\ curserver' = a[2]
             /\ asked' = [m.query EXCEPT !.id = id]
             /\ due' = FALSE
             /\ sent' = 0
             /\ tcpstate' = st
             /\ result' = "pending"
    BY <1>6
  <2>2. SocketType' /\ OneSocket' /\ s1' # 0
    BY <2>1, Sockets
  <2>3. /\ query' \in Queries /\ query' = asked'
        /\ query'.name = m0.query.name /\ query'.type = m0.query.type
        /\ packet' = Null
        /\ blocks' \in Int /\ blocks' = Live(query') + Live(packet')
    BY <1>5, <2>1, Reaching
  <2>4. scope_id' \in Nat
    BY <1>2, <1>3, <2>1
  <2>5. curserver' \in Slots /\ curserver' >= c
    BY <1>1, <2>1
  <2>6. curserver' \in 0 .. QUERY_MAXNS /\ tcpstate' \in 0 .. 5
    BY <1>4, <2>1, <2>5 DEF Slots
  <2>7. QED
    BY <1>4, <2>1, <2>2, <2>3, <2>4, <2>5, <2>6 DEF Outcome, Leftovers
<1>7. CASE /\ GiveUp(m)
           /\ \E a \in as : /\ scope_id' = ScopeAfter(sv, ids, scope_id, PriorTo(as, a))
                            /\ curserver' = a[2]
           /\ UNCHANGED <<asked, due, tcpstate, sent>>
  <2>1. scope_id' \in Nat /\ curserver' \in 0 .. QUERY_MAXNS
    BY <1>1, <1>2, <1>3, <1>4, <1>7 DEF Slots
  <2>2. QED
    BY <1>4, <1>5, <1>7, <2>1, GivingUp DEF Outcome, Leftovers, Live
<1>8. CASE /\ GiveUp(m)
           /\ scope_id' = ScopeAfter(sv, ids, scope_id, as)
           /\ curserver' = QUERY_MAXNS
           /\ UNCHANGED <<asked, due, tcpstate, sent>>
  <2>1. scope_id' \in Nat /\ curserver' \in 0 .. QUERY_MAXNS
    BY <1>2, <1>4, <1>8
  <2>2. QED
    BY <1>4, <1>5, <1>8, <2>1, GivingUp DEF Outcome, Leftovers, Live
<1>9. QED
  BY <1>6, <1>7, <1>8 DEF ThisTcp, m

-----------------------------------------------------------------------------
(***************************************************************************)
(* The inductive invariant: the invariants that the runs check, together.  *)
(***************************************************************************)
Inv ==
  /\ TypeOK /\ NothingLeaks /\ ResultShape
  /\ QueryAsksQuestion /\ AnswerIsForQuestion /\ ReadsStayInPacket

LEMMA Nulls ==
  /\ Null \notin Queries /\ Null \notin Packets
  /\ 0 \in Lens /\ QUERY_MAXNS \in Nat /\ QUERY_MAXNS > 0
<1>1. Null \notin Queries /\ Null \notin Packets
  BY ConstantsAssumption
<1>2. 0 \in Lens
  <2> DEFINE top == ByteBase * ByteBase - 1
  <2>1. ByteBase \in Nat /\ MinReply \in 1 .. top
    BY ConstantsAssumption
  <2>2. top \in Int
    BY <2>1
  <2> HIDE DEF top
  <2>3. 0 \in 0 .. top
    BY <2>1, <2>2
  <2>4. QED
    BY <2>3 DEF Lens, top
<1>3. QUERY_MAXNS \in Nat /\ QUERY_MAXNS > 0
  BY ConstantsAssumption
<1>4. QED
  BY <1>1, <1>2, <1>3

\* a call that ends in thisudp or thistcp restores the invariant
LEMMA OutcomeInv ==
  ASSUME NEW m \in Memories, Outcome(m),
         servers' \in Lists, qtype' \in Types, scope_ids' \in [Slots -> Nat],
         question' \in Questions, turn' \in {0, 1}, packetlen' \in Lens, pos' \in Nat,
         m.query.name = question'.name, m.query.type = question'.type,
         qtype' = question'.type,
         result' = "pending" => tcpstate' \in {0, 1, 2} /\ packet' = Null
  PROVE  Inv'
<1>1. TypeOK'
  BY DEF Outcome, TypeOK, SocketType
<1>2. NothingLeaks'
  BY DEF Outcome, NothingLeaks, OneSocket
<1>3. ResultShape'
  BY Nulls DEF Outcome, ResultShape
<1>4. QueryAsksQuestion'
  BY DEF Outcome, QueryAsksQuestion
<1>5. AnswerIsForQuestion' /\ ReadsStayInPacket'
  BY DEF Outcome, AnswerIsForQuestion, ReadsStayInPacket, OnTcp
<1>6. QED
  BY <1>1, <1>2, <1>3, <1>4, <1>5 DEF Inv

LEMMA MemFacts ==
  ASSUME Inv
  PROVE  /\ Mem \in Memories /\ Counted(Mem)
         /\ Mem.query = query /\ Mem.packet = packet
         /\ SocketType /\ OneSocket /\ Leftovers
BY DEF Inv, TypeOK, NothingLeaks, Mem, Memories, Counted, SocketType, OneSocket, Leftovers

\* a pending call of dns_transmit_get that goes on to another attempt
LEMMA NextAttempt ==
  ASSUME Inv, result = "pending", UNCHANGED Call,
         packetlen' \in Lens, pos' \in Nat,
         \/ tcpstate = 0 /\ NextUdp
         \/ NextTcp
         \/ FirstTcp
  PROVE  Inv'
<1>1. /\ Mem \in Memories /\ Counted(Mem)
      /\ Mem.query = query /\ Mem.packet = packet
      /\ SocketType /\ OneSocket /\ Leftovers
  BY MemFacts
<1>2. /\ question \in Questions /\ qtype = question.type
      /\ query.name = question.name /\ query.type = question.type
      /\ curserver \in Slots /\ udploop \in Rounds
  BY DEF Inv, QueryAsksQuestion
<1>3. query \in Queries
  BY DEF Inv, TypeOK, ResultShape
<1>4. /\ servers \in Lists /\ scope_ids \in [Slots -> Nat]
      /\ curserver + 1 \in 0 .. QUERY_MAXNS /\ 0 \in 0 .. QUERY_MAXNS
  BY <1>2, Nulls DEF Inv, TypeOK, Slots
<1>5. /\ servers' \in Lists /\ qtype' \in Types /\ scope_ids' \in [Slots -> Nat]
      /\ question' = question /\ qtype' = qtype /\ turn' \in {0, 1}
  BY <1>2, <1>4, ConstantsAssumption DEF Inv, TypeOK, Call
<1>6. CASE tcpstate = 0 /\ NextUdp
  <2>1. packet = Null
    BY <1>6 DEF Inv, ResultShape
  <2>2. Outcome(Mem) /\ (result' = "pending" => tcpstate' = 0 /\ packet' = packet)
    BY <1>1, <1>2, <1>3, <1>4, <1>6, ThisUdpOutcome DEF NextUdp
  <2>3. QED
    BY <1>1, <1>2, <1>5, <2>1, <2>2, OutcomeInv
<1>7. CASE NextTcp \/ FirstTcp
  <2>1. PICK c \in 0 .. QUERY_MAXNS : ThisTcp(servers, scope_ids, c, Mem)
    BY <1>4, <1>7 DEF NextTcp, FirstTcp
  <2>2. udploop' \in Rounds
    BY <1>2, <1>7 DEF NextTcp, FirstTcp
  <2>3. Outcome(Mem) /\ (result' = "pending" => tcpstate' \in {1, 2} /\ packet' = Null)
    BY <1>1, <1>3, <1>4, <2>1, <2>2, ThisTcpOutcome
  <2>4. QED
    BY <1>1, <1>2, <1>5, <2>3, OutcomeInv
<1>8. QED
  BY <1>6, <1>7

LEMMA InitInv == Init => Inv
<1> SUFFICES ASSUME Init PROVE Inv
  OBVIOUS
<1>1. TypeOK
  <2>1. servers \in Lists /\ scope_ids \in [Slots -> Nat]
    BY DEF Init, Lists
  <2>2. due \in BOOLEAN /\ open \subseteq Fds
    BY DEF Init
  <2>3. packetlen \in Lens /\ curserver \in 0 .. QUERY_MAXNS
    BY Nulls DEF Init
  <2>4. QED
    BY <2>1, <2>2, <2>3 DEF Init, TypeOK
<1>2. NothingLeaks /\ ResultShape /\ QueryAsksQuestion
  BY DEF Init, NothingLeaks, ResultShape, QueryAsksQuestion, Live
<1>3. AnswerIsForQuestion /\ ReadsStayInPacket
  BY DEF Init, AnswerIsForQuestion, ReadsStayInPacket, OnTcp
<1>4. QED
  BY <1>1, <1>2, <1>3 DEF Inv

LEMMA StutterInv ==
  ASSUME Inv, UNCHANGED vars
  PROVE  Inv'
BY DEF Inv, TypeOK, NothingLeaks, ResultShape, QueryAsksQuestion,
       AnswerIsForQuestion, ReadsStayInPacket, OnTcp, vars, struct, world

\* the struct after dns_transmit_free, in a step that may change what the next
\* lookup is about but not what an ended one left
LEMMA FreedInv ==
  ASSUME Inv, SetMem(QueryFree(PacketFree(Mem))), SocketFree,
         result' \in {"idle", "error"},
         question' \in Questions \cup {Null}, scope_ids' \in [Slots -> Nat],
         packetlen' \in Lens, turn' \in {0, 1},
         UNCHANGED <<servers, qtype, tcpstate, udploop, curserver, pos, scope_id,
                     due, asked, sent>>
  PROVE  Inv'
<1>1. /\ SocketType' /\ OneSocket' /\ s1' = 0
      /\ query' = Null /\ packet' = Null /\ blocks' = 0
  <2>1. PacketFree(Mem) \in Memories /\ Counted(PacketFree(Mem)) /\ PacketFree(Mem).packet = Null
    BY MemFacts, Freeing
  <2> DEFINE f == QueryFree(PacketFree(Mem))
  <2>2. f \in Memories /\ Counted(f) /\ f.query = Null /\ f.packet = Null
    BY <2>1, Freeing
  <2>3. f.blocks = 0
    BY <2>2 DEF Counted, Live
  <2>4. SetMem(f)
    OBVIOUS
  <2> HIDE DEF f
  <2>5. QED
    BY <2>2, <2>3, <2>4, MemFacts, Sockets DEF SetMem
<1>2. TypeOK'
  BY <1>1 DEF Inv, TypeOK, SocketType
<1>3. NothingLeaks' /\ ResultShape' /\ QueryAsksQuestion'
  BY <1>1 DEF NothingLeaks, OneSocket, ResultShape, QueryAsksQuestion, Live
<1>4. AnswerIsForQuestion' /\ ReadsStayInPacket'
  BY DEF AnswerIsForQuestion, ReadsStayInPacket, OnTcp
<1>5. QED
  BY <1>2, <1>3, <1>4 DEF Inv

LEMMA StartInv ==
  ASSUME Inv, NEW q \in Questions, NEW l \in ServerLists, NEW rec \in BOOLEAN,
         Start(q, l, rec)
  PROVE  Inv'
<1> DEFINE freed == QueryFree(PacketFree(Mem))
           first == [name |-> q.name, type |-> q.type, id |-> 0]
           m     == AllocQuery(freed, first)
           loop0 == IF rec THEN 1 ELSE 0
           ids   == IF l.scope = Null THEN scope_ids ELSE l.scope
<1>1. /\ l.ip \in Lists /\ ids \in [Slots -> Nat]
      /\ q.name \in Names /\ q.type \in Types
  BY ConstantsAssumption DEF Inv, TypeOK
<1>2. /\ first \in Queries /\ first.name = q.name /\ first.type = q.type
  BY <1>1, ConstantsAssumption DEF Queries
<1>3. freed \in Memories /\ Counted(freed) /\ freed.query = Null /\ freed.packet = Null
  BY MemFacts, Freeing
<1>4. question' = q /\ turn' = 1 - turn /\ scope_ids' = ids /\ packetlen' = packetlen /\ pos' = pos
  BY DEF Start
<1>5. packetlen' \in Lens /\ pos' \in Nat /\ turn' \in {0, 1}
  BY <1>4 DEF Inv, TypeOK
<1>6. CASE /\ SetMem(freed) /\ SocketFree /\ result' = "error"
           /\ UNCHANGED <<servers, qtype, tcpstate, udploop, curserver, scope_id,
                          due, asked, sent>>
  BY <1>1, <1>4, <1>5, <1>6, FreedInv
<1>7. CASE /\ qtype' = q.type
           /\ servers' = l.ip
           /\ IF q.name \in LongNames
              THEN ThisTcp(l.ip, ids, 0, m) /\ udploop' = loop0
              ELSE ThisUdp(l.ip, ids, loop0, 0, m)
  <2> HIDE DEF freed, first, ids
  <2>1. m \in Memories /\ Counted(m) /\ m.query = first /\ m.packet = Null
    BY <1>2, <1>3, Allocating
  <2> HIDE DEF m
  <2>2. 0 \in 0 .. QUERY_MAXNS /\ loop0 \in Rounds
    BY Nulls DEF Rounds
  <2>3. SocketType /\ OneSocket /\ Leftovers
    BY MemFacts
  <2>4. Outcome(m) /\ (result' = "pending" => tcpstate' \in {0, 1, 2} /\ packet' = Null)
    <3>1. CASE q.name \in LongNames
      BY <1>1, <1>2, <1>7, <2>1, <2>2, <2>3, <3>1, ThisTcpOutcome
    <3>2. CASE q.name \notin LongNames
      BY <1>1, <1>2, <1>7, <2>1, <2>2, <2>3, <3>2, ThisUdpOutcome
    <3>3. QED
      BY <3>1, <3>2
  <2>5. QED
    BY <1>1, <1>2, <1>4, <1>5, <1>7, <2>1, <2>4, OutcomeInv
<1>8. QED
  BY <1>6, <1>7 DEF Start

LEMMA FreeInv ==
  ASSUME Inv, Free
  PROVE  Inv'
<1>1. /\ question' \in Questions \cup {Null} /\ scope_ids' \in [Slots -> Nat]
      /\ packetlen' \in Lens /\ turn' \in {0, 1}
  BY DEF Inv, TypeOK, Free, Call
<1>2. QED
  BY <1>1, FreedInv DEF Free, Call

LEMMA GetTimeoutInv ==
  ASSUME Inv, GetTimeout
  PROVE  Inv'
<1>1. packetlen' \in Lens /\ pos' \in Nat
  BY DEF Inv, TypeOK, GetTimeout
<1>2. QED
  BY <1>1, NextAttempt DEF GetTimeout

LEMMA GetUdpInv ==
  ASSUME Inv, GetUdp
  PROVE  Inv'
<1>1. result = "pending" /\ tcpstate = 0
  BY DEF GetUdp, UdpRecvFails, UdpOversize, UdpIgnore, UdpTruncated, UdpFailed,
         UdpAnswer, OnUdp
<1>2. ASSUME NextUdp \/ FirstTcp, UNCHANGED <<Call, packetlen, pos>>
      PROVE  Inv'
  BY <1>1, <1>2, NextAttempt DEF Inv, TypeOK
<1>3. ASSUME NEW refused \in BOOLEAN, UdpRecvFails(refused) PROVE Inv'
  BY <1>2, <1>3, StutterInv DEF UdpRecvFails
<1>4. ASSUME UdpOversize PROVE Inv'
  BY <1>4, StutterInv DEF UdpOversize
<1>5. ASSUME NEW p \in Messages, UdpIgnore(p) \/ UdpTruncated(p) \/ UdpFailed(p)
      PROVE  Inv'
  BY <1>2, <1>5, StutterInv DEF UdpIgnore, UdpTruncated, UdpFailed
<1>6. ASSUME NEW p \in Replies, NEW len \in Lens, UdpAnswer(p, len) PROVE Inv'
  <2>1. /\ Mem \in Memories /\ Counted(Mem)
        /\ Mem.query = query /\ Mem.packet = packet
        /\ SocketType /\ OneSocket /\ Leftovers
    BY MemFacts
  <2>2. packet = Null
    BY <1>1 DEF Inv, ResultShape
  <2>3. /\ packetlen' = len /\ UNCHANGED <<servers, qtype, scope_ids, question, turn>>
        /\ UNCHANGED <<tcpstate, udploop, curserver, pos, scope_id, due, asked, sent>>
    BY <1>6 DEF UdpAnswer, Call
  <2>4. CASE GiveUp(Mem)
    BY <2>3, <2>4, FreedInv DEF GiveUp, Inv, TypeOK
  <2> DEFINE new == [size |-> len, body |-> p]
             m   == QueryFree(AllocPacket(Mem, new))
  <2>5. CASE SetMem(m) /\ SocketFree /\ result' = "done"
    <3>1. new \in Packets /\ new.size = len /\ new.body = p
      BY DEF Packets
    <3> HIDE DEF new
    <3>2. /\ AllocPacket(Mem, new) \in Memories /\ Counted(AllocPacket(Mem, new))
          /\ AllocPacket(Mem, new).packet = new
      BY <2>1, <2>2, <3>1, Allocating
    <3>3. m \in Memories /\ Counted(m) /\ m.query = Null /\ m.packet = new
      BY <3>2, Freeing
    <3> HIDE DEF m
    <3>4. /\ query' = Null /\ packet' = new
          /\ blocks' \in Int /\ blocks' = Live(query') + Live(packet')
      BY <2>5, <3>3 DEF SetMem, Counted, Memories
    <3>5. SocketType' /\ OneSocket' /\ s1' = 0
      BY <2>1, <2>5, Sockets
    <3>6. TypeOK'
      BY <2>3, <2>5, <3>1, <3>4, <3>5 DEF Inv, TypeOK, SocketType
    <3>7. NothingLeaks'
      BY <3>4, <3>5 DEF NothingLeaks, OneSocket
    <3>8. ResultShape' /\ QueryAsksQuestion' /\ ReadsStayInPacket'
      BY <2>5, <3>1, <3>4, <3>5, Nulls
      DEF ResultShape, QueryAsksQuestion, ReadsStayInPacket, OnTcp
    <3>9. AnswerIsForQuestion'
      <4>1. /\ asked = query /\ qtype = question.type /\ query.name = question.name
        BY <1>1 DEF Inv, QueryAsksQuestion
      <4>2. /\ p.id = query.id /\ p.name = query.name /\ p.type = qtype
            /\ ~p.tc /\ p.rcode \in {0, 3}
        BY <1>6 DEF UdpAnswer, Irrelevant, ServerWantsTcp, ServerFailed
      <4>3. QED
        BY <2>3, <3>1, <3>4, <4>1, <4>2 DEF AnswerIsForQuestion
    <3>10. QED
      BY <3>6, <3>7, <3>8, <3>9 DEF Inv
  <2>6. QED
    BY <1>6, <2>4, <2>5 DEF UdpAnswer
<1>7. QED
  BY <1>3, <1>4, <1>5, <1>6 DEF GetUdp

LEMMA TcpProgressInv ==
  ASSUME Inv, TcpConnected \/ (\E r \in 1 .. PosBound : TcpWrite(r))
                \/ (\E ch \in 0 .. ByteBase - 1 : TcpLength1(ch))
                \/ (\E r \in Lens : TcpReadSome(r))
  PROVE  Inv'
<1>1. CASE TcpConnected
  <2>1. TypeOK'
    BY <1>1 DEF TcpConnected, Call, world, Inv, TypeOK
  <2>2. QED
    BY <1>1, <2>1
    DEF TcpConnected, OnTcp, Call, world, Inv, NothingLeaks, ResultShape,
        QueryAsksQuestion, AnswerIsForQuestion, ReadsStayInPacket
<1>2. ASSUME NEW r \in 1 .. PosBound, TcpWrite(r) PROVE Inv'
  <2>1. pos' \in Nat /\ sent' \in Nat /\ tcpstate' \in {2, 3} /\ due' \in BOOLEAN
    <3>1. r \in Nat
      BY ConstantsAssumption
    <3>2. pos' = pos + r /\ sent' = sent + r
      BY <1>2 DEF TcpWrite
    <3>3. tcpstate' \in {2, 3} /\ (due' = FALSE \/ due' = due)
      BY <1>2 DEF TcpWrite, OnTcp
    <3>4. pos' \in Nat /\ sent' \in Nat
      BY <3>1, <3>2 DEF Inv, TypeOK
    <3>5. due' \in BOOLEAN
      BY <3>3, Zenon DEF Inv, TypeOK
    <3>6. QED
      BY <3>3, <3>4, <3>5
  <2>2. TypeOK'
    BY <1>2, <2>1 DEF TcpWrite, Call, Inv, TypeOK
  <2>3. QED
    BY <1>2, <2>1, <2>2
    DEF TcpWrite, OnTcp, Call, Inv, NothingLeaks, ResultShape,
        QueryAsksQuestion, AnswerIsForQuestion, ReadsStayInPacket
<1>3. ASSUME NEW ch \in 0 .. ByteBase - 1, TcpLength1(ch) PROVE Inv'
  <2>1. packetlen' \in Lens /\ packetlen' < ByteBase
    <3>1. ByteBase \in Nat /\ 0 \in 0 .. ByteBase - 1
      BY ConstantsAssumption
    <3>2. 0 * ByteBase + ch \in Lens
      BY <3>1, TwoBytes
    <3>3. QED
      BY <1>3, <3>1, <3>2 DEF TcpLength1
  <2>2. TypeOK'
    BY <1>3, <2>1 DEF TcpLength1, Call, world, Inv, TypeOK
  <2>3. QED
    BY <1>3, <2>1, <2>2
    DEF TcpLength1, OnTcp, Call, world, Inv, NothingLeaks, ResultShape,
        QueryAsksQuestion, AnswerIsForQuestion, ReadsStayInPacket
<1>4. ASSUME NEW r \in Lens, TcpReadSome(r) PROVE Inv'
  <2>1. pos' \in Nat /\ pos' < packetlen
    BY <1>4 DEF TcpReadSome, Inv, TypeOK, Lens
  <2>2. TypeOK'
    BY <1>4, <2>1 DEF TcpReadSome, Call, world, Inv, TypeOK
  <2>3. packetlen \in Nat
    BY DEF Inv, TypeOK, Lens
  <2>4. QED
    BY <1>4, <2>1, <2>2, <2>3
    DEF TcpReadSome, OnTcp, Call, world, Inv, NothingLeaks, ResultShape,
        QueryAsksQuestion, AnswerIsForQuestion, ReadsStayInPacket
<1>5. QED
  BY <1>1, <1>2, <1>3, <1>4

LEMMA TcpLength2Inv ==
  ASSUME Inv, NEW ch \in 0 .. ByteBase - 1, TcpLength2(ch)
  PROVE  Inv'
<1>1. /\ result = "pending" /\ tcpstate = 4
      /\ packetlen' = packetlen * ByteBase + ch /\ tcpstate' = 5 /\ pos' = 0
      /\ UNCHANGED <<servers, qtype, scope_ids, question, turn, udploop, curserver,
                     scope_id, due, asked, sent>>
  BY DEF TcpLength2, OnTcp, Call
<1>2. packetlen' \in Lens
  <2>1. packetlen \in 0 .. ByteBase - 1
    BY <1>1, ConstantsAssumption DEF Inv, TypeOK, ReadsStayInPacket, OnTcp, Lens
  <2>2. QED
    BY <1>1, <2>1, TwoBytes
<1>3. /\ Mem \in Memories /\ Counted(Mem)
      /\ Mem.query = query /\ Mem.packet = packet
      /\ SocketType /\ OneSocket /\ Leftovers
  BY MemFacts
<1>4. packet = Null /\ query # Null /\ s1 # 0
  BY <1>1 DEF Inv, ResultShape
<1>5. CASE GiveUp(Mem)
  <2>1. /\ SocketType' /\ OneSocket' /\ s1' = 0
        /\ query' = Null /\ packet' = Null /\ blocks' = 0
        /\ result' = "error"
    BY <1>3, <1>5, GivingUp
  <2>2. TypeOK'
    BY <1>1, <1>2, <2>1 DEF Inv, TypeOK, SocketType
  <2>3. QED
    BY <2>1, <2>2 DEF Inv, NothingLeaks, OneSocket, ResultShape, Live,
        QueryAsksQuestion, AnswerIsForQuestion, ReadsStayInPacket, OnTcp
<1> DEFINE new == [size |-> packetlen', body |-> Null]
<1>6. CASE SetMem(AllocPacket(Mem, new)) /\ UNCHANGED <<s1, open, result>>
  <2>1. new \in Packets /\ new.size = packetlen'
    BY <1>2 DEF Packets
  <2> DEFINE m == AllocPacket(Mem, new)
  <2>2. m \in Memories /\ Counted(m) /\ m.query = query /\ m.packet = new
    <3> HIDE DEF new
    <3> QED BY <1>3, <1>4, <2>1, Allocating
  <2>3. SetMem(m)
    BY <1>6
  <2> HIDE DEF m, new
  <2>4. /\ query' = query /\ packet' = new
        /\ blocks' \in Int /\ blocks' = Live(query') + Live(packet')
    BY <2>2, <2>3 DEF SetMem, Counted, Memories
  <2>5. SocketType' /\ OneSocket'
    BY <1>3, <1>6, Sockets
  <2>6. TypeOK'
    BY <1>1, <1>2, <1>6, <2>1, <2>4, <2>5 DEF Inv, TypeOK, SocketType
  <2>7. NothingLeaks'
    BY <2>4, <2>5 DEF NothingLeaks, OneSocket
  <2>8. ResultShape' /\ QueryAsksQuestion' /\ AnswerIsForQuestion'
    BY <1>1, <1>4, <1>6, <2>1, <2>4
    DEF Inv, ResultShape, QueryAsksQuestion, AnswerIsForQuestion
  <2>9. packetlen' \in Nat
    BY <1>2 DEF Lens
  <2>10. ReadsStayInPacket'
    BY <1>1, <2>1, <2>4, <2>9, Nulls DEF ReadsStayInPacket, OnTcp
  <2>11. QED
    BY <2>6, <2>7, <2>8, <2>10 DEF Inv
<1>7. QED
  BY <1>5, <1>6 DEF TcpLength2

LEMMA TcpReadLastInv ==
  ASSUME Inv, NEW p \in Messages, TcpReadLast(p)
  PROVE  Inv'
<1>1. /\ result = "pending" /\ tcpstate = 5
      /\ pos' = packetlen /\ packetlen' = packetlen
      /\ UNCHANGED Call /\ UNCHANGED <<servers, qtype, scope_ids, question, turn>>
  BY DEF TcpReadLast, OnTcp, Call
<1>2. packetlen' \in Lens /\ pos' \in Nat
  BY <1>1 DEF Inv, TypeOK, Lens
<1>3. CASE Irrelevant(p) \/ ServerWantsTcp(p) \/ ServerFailed(p)
  BY <1>1, <1>2, <1>3, NextAttempt DEF TcpReadLast
<1>4. CASE ~(Irrelevant(p) \/ ServerWantsTcp(p) \/ ServerFailed(p))
  <2> DEFINE n == [Mem EXCEPT !.packet.body = p]
             m == QueryFree(n)
  <2>1. /\ SetMem(m) /\ SocketFree /\ result' = "done"
        /\ UNCHANGED <<tcpstate, udploop, curserver, scope_id, due, asked, sent>>
    BY <1>4 DEF TcpReadLast
  <2>2. /\ Mem \in Memories /\ Counted(Mem)
        /\ Mem.query = query /\ Mem.packet = packet
        /\ SocketType /\ OneSocket /\ Leftovers
    BY MemFacts
  <2>3. packet \in Packets /\ packet.size = packetlen
    BY <1>1 DEF Inv, TypeOK, ReadsStayInPacket, OnTcp
  <2>4. /\ p \in Replies
        /\ p.id = query.id /\ p.name = query.name /\ p.type = qtype
        /\ ~p.tc /\ p.rcode \in {0, 3}
    BY <1>4 DEF Messages, Irrelevant, ServerWantsTcp, ServerFailed
  <2> DEFINE new == [packet EXCEPT !.body = p]
  <2>5. new \in Packets /\ new.size = packetlen /\ new.body = p
    BY <2>3, <2>4 DEF Packets
  <2>6. n.packet = new /\ n.query = query /\ n.blocks = Mem.blocks /\ n \in Memories
    BY <2>2, <2>5 DEF Memories
  <2> HIDE DEF n, new
  <2>7. Counted(n)
    BY <2>2, <2>3, <2>5, <2>6, Nulls DEF Counted, Live
  <2>8. m \in Memories /\ Counted(m) /\ m.query = Null /\ m.packet = new
    BY <2>6, <2>7, Freeing
  <2> HIDE DEF m
  <2>9. /\ query' = Null /\ packet' = new
        /\ blocks' \in Int /\ blocks' = Live(query') + Live(packet')
    BY <2>1, <2>8 DEF SetMem, Counted, Memories
  <2>10. SocketType' /\ OneSocket' /\ s1' = 0
    BY <2>1, <2>2, Sockets
  <2>11. TypeOK'
    BY <1>1, <1>2, <2>1, <2>5, <2>9, <2>10 DEF Inv, TypeOK, SocketType
  <2>12. NothingLeaks'
    BY <2>9, <2>10 DEF NothingLeaks, OneSocket
  <2>13. ResultShape' /\ QueryAsksQuestion' /\ ReadsStayInPacket'
    BY <2>1, <2>5, <2>9, <2>10, Nulls
    DEF ResultShape, QueryAsksQuestion, ReadsStayInPacket, OnTcp
  <2>14. AnswerIsForQuestion'
    <3>1. asked = query /\ qtype = question.type /\ query.name = question.name
      BY <1>1 DEF Inv, QueryAsksQuestion
    <3>2. QED
      BY <1>1, <2>1, <2>4, <2>5, <2>9, <3>1 DEF AnswerIsForQuestion
  <2>15. QED
    BY <2>11, <2>12, <2>13, <2>14 DEF Inv
<1>5. QED
  BY <1>3, <1>4

LEMMA TcpFailsInv ==
  ASSUME Inv, TcpFails
  PROVE  Inv'
<1>1. packetlen' \in Lens /\ pos' \in Nat /\ result = "pending"
  BY DEF Inv, TypeOK, TcpFails, OnTcp
<1>2. QED
  BY <1>1, NextAttempt DEF TcpFails

LEMMA TickInv ==
  ASSUME Inv, Tick
  PROVE  Inv'
<1>1. TypeOK'
  BY DEF Inv, TypeOK, Tick, struct, world
<1>2. QED
  BY <1>1 DEF Tick, struct, world, Inv, NothingLeaks, ResultShape,
      QueryAsksQuestion, AnswerIsForQuestion, ReadsStayInPacket, OnTcp

LEMMA NextInv == Inv /\ [Next]_vars => Inv'
<1> SUFFICES ASSUME Inv, [Next]_vars PROVE Inv'
  OBVIOUS
<1>1. CASE \E q \in Questions, l \in ServerLists, rec \in BOOLEAN : Start(q, l, rec)
  BY <1>1, StartInv
<1>2. CASE Free
  BY <1>2, FreeInv
<1>3. CASE Get
  <2>1. CASE GetEarly
    BY <2>1, StutterInv DEF GetEarly
  <2>2. CASE GetTimeout
    BY <2>2, GetTimeoutInv
  <2>3. CASE GetUdp
    BY <2>3, GetUdpInv
  <2>4. CASE GetTcp
    BY <2>4, TcpFailsInv, TcpProgressInv, TcpLength2Inv, TcpReadLastInv DEF GetTcp
  <2>5. QED
    BY <1>3, <2>1, <2>2, <2>3, <2>4 DEF Get
<1>4. CASE Tick
  BY <1>4, TickInv
<1>5. CASE UNCHANGED vars
  BY <1>5, StutterInv
<1>6. QED
  BY <1>1, <1>2, <1>3, <1>4, <1>5 DEF Next

\* The inductive invariant holds in every reachable state.
THEOREM Invariance == Spec => []Inv
BY InitInv, NextInv, PTL DEF Spec

-----------------------------------------------------------------------------
(***************************************************************************)
(* The invariants that the runs check, for every value of the constants    *)
(***************************************************************************)
\* The struct and the world around it keep their types.
THEOREM TypeCorrect == Spec => []TypeOK
BY Invariance, PTL DEF Inv

\* No path through the engine loses a descriptor or a heap block.
THEOREM NoLeak == Spec => []NothingLeaks
BY Invariance, PTL DEF Inv

\* A return code leaves the struct as it promises.
THEOREM ResultsKept == Spec => []ResultShape
BY Invariance, PTL DEF Inv

\* What is asked, and compared with, is the caller's question under the id sent.
THEOREM RetriesAskTheQuestion == Spec => []QueryAsksQuestion
BY Invariance, PTL DEF Inv

\* Only answers to the question asked are accepted.
THEOREM OnlyAnswersAccepted == Spec => []AnswerIsForQuestion
BY Invariance, PTL DEF Inv

\* The TCP reads stay inside the packet buffer, whatever length is announced.
THEOREM ReadsInBounds == Spec => []ReadsStayInPacket
BY Invariance, PTL DEF Inv

-----------------------------------------------------------------------------
(***************************************************************************)
(* The engine implements DnsLookup: under the refinement mapping at the    *)
(* end of DnsTransmit, initial states map to initial states and every step *)
(* maps to a step or to a stutter.                                         *)
(***************************************************************************)
\* the mapped state, by return code
LEMMA Mapping ==
  /\ result = "pending" => /\ phaseBar = "asking" /\ answerBar = Null
                           /\ attemptBar.proto  = IF tcpstate = 0 THEN 0 ELSE 1
                           /\ attemptBar.round  = IF tcpstate = 0 THEN udploop ELSE 0
                           /\ attemptBar.server = curserver
  /\ result = "done" => /\ phaseBar = "answered" /\ answerBar = packet.body
                        /\ attemptBar = Lookup!NoAttempt
  /\ result = "error" => /\ phaseBar = "failed" /\ answerBar = Null
                         /\ attemptBar = Lookup!NoAttempt
  /\ result = "idle" => /\ phaseBar = "idle" /\ answerBar = Null
                        /\ attemptBar = Lookup!NoAttempt
BY DEF phaseBar, answerBar, attemptBar, Lookup!NoAttempt

LEMMA AttemptType ==
  ASSUME Inv', result' = "pending"
  PROVE  attemptBar' \in Lookup!Attempts
<1>1. curserver' \in 0 .. QUERY_MAXNS - 1 /\ udploop' \in 0 .. 4
  BY DEF Inv, QueryAsksQuestion, Slots, Rounds
<1>2. QED
  BY <1>1 DEF attemptBar, Lookup!Attempts

\* going on to another attempt of the same lookup, or failing
LEMMA NextAttemptRefines ==
  ASSUME Inv, Inv', result = "pending", UNCHANGED Call,
         \/ tcpstate = 0 /\ NextUdp
         \/ NextTcp
         \/ tcpstate = 0 /\ FirstTcp
  PROVE  Lookup!AskAgain \/ Lookup!Failed
<1>1. /\ Mem \in Memories /\ Counted(Mem) /\ Mem.query \in Queries
      /\ SocketType /\ OneSocket /\ Leftovers
  BY MemFacts DEF Inv, TypeOK, ResultShape
<1>2. /\ curserver \in Slots /\ udploop \in Rounds /\ tcpstate \in 0 .. 5
      /\ servers \in Lists /\ scope_ids \in [Slots -> Nat] /\ question' = question /\ turn' = turn
  BY DEF Inv, TypeOK, QueryAsksQuestion, Call
<1>3. curserver + 1 \in 0 .. QUERY_MAXNS /\ 0 \in 0 .. QUERY_MAXNS
  BY <1>2, Nulls DEF Slots
<1>4. /\ result' \in {"pending", "error"}
      /\ result' = "pending" =>
           /\ tcpstate' \in 0 .. 5 /\ curserver' \in Slots /\ udploop' \in Rounds
           /\ \/ /\ tcpstate = 0 /\ tcpstate' = 0
                 /\ ~Before(<<udploop', curserver'>>, <<udploop, curserver + 1>>)
              \/ tcpstate = 0 /\ tcpstate' # 0
              \/ tcpstate # 0 /\ tcpstate' # 0 /\ curserver' >= curserver + 1
  <2>1. CASE tcpstate = 0 /\ NextUdp
    <3>1. Outcome(Mem) /\ (result' = "pending" => /\ tcpstate' = 0
             /\ ~Before(<<udploop', curserver'>>, <<udploop, curserver + 1>>))
      BY <1>1, <1>2, <1>3, <2>1, ThisUdpOutcome DEF NextUdp
    <3>2. QED
      BY <2>1, <3>1 DEF Outcome
  <2>2. CASE NextTcp
    <3>1. udploop' \in Rounds
      BY <1>2, <2>2 DEF NextTcp
    <3>2. Outcome(Mem) /\ (result' = "pending" => /\ tcpstate' \in {1, 2}
                                                /\ curserver' >= curserver + 1)
      BY <1>1, <1>2, <1>3, <2>2, <3>1, ThisTcpOutcome DEF NextTcp
    <3>3. QED
      BY <1>2, <3>2 DEF Outcome
  <2>3. CASE tcpstate = 0 /\ FirstTcp
    <3>1. udploop' \in Rounds
      BY <1>2, <2>3 DEF FirstTcp
    <3>2. Outcome(Mem) /\ (result' = "pending" => tcpstate' \in {1, 2})
      BY <1>1, <1>2, <1>3, <2>3, <3>1, ThisTcpOutcome DEF FirstTcp
    <3>3. QED
      BY <2>3, <3>2 DEF Outcome
  <2>4. QED
    BY <2>1, <2>2, <2>3
<1>5. CASE result' = "pending"
  <2>1. attemptBar' \in Lookup!Attempts
    BY <1>5, AttemptType
  <2>2. Lookup!Later(attemptBar', attemptBar)
    <3>1. /\ attemptBar.proto  = IF tcpstate = 0 THEN 0 ELSE 1
          /\ attemptBar.round  = IF tcpstate = 0 THEN udploop ELSE 0
          /\ attemptBar.server = curserver
      BY Mapping
    <3>2. /\ attemptBar'.proto  = IF tcpstate' = 0 THEN 0 ELSE 1
          /\ attemptBar'.round  = IF tcpstate' = 0 THEN udploop' ELSE 0
          /\ attemptBar'.server = curserver'
      BY <1>5 DEF attemptBar
    <3>3. /\ udploop \in Nat /\ udploop' \in Nat
          /\ curserver \in Nat /\ curserver' \in Nat
      BY <1>2, <1>4, <1>5 DEF Rounds, Slots
    <3> HIDE DEF attemptBar
    <3>4. QED
      BY <1>4, <1>5, <3>1, <3>2, <3>3 DEF Lookup!Later, Before
  <2>3. /\ phaseBar = "asking" /\ phaseBar' = "asking"
        /\ answerBar = Null /\ answerBar' = Null
    BY <1>5 DEF phaseBar, answerBar
  <2>4. QED
    BY <1>2, <2>1, <2>2, <2>3 DEF Lookup!AskAgain
<1>6. CASE result' = "error"
  <2>1. /\ phaseBar = "asking" /\ phaseBar' = "failed"
        /\ answerBar = Null /\ answerBar' = Null
        /\ attemptBar' = Lookup!NoAttempt
    BY <1>6 DEF phaseBar, answerBar, attemptBar, Lookup!NoAttempt
  <2>2. QED
    BY <1>2, <2>1 DEF Lookup!Failed
<1>7. QED
  BY <1>4, <1>5, <1>6

\* a lookup that ends answered
LEMMA AnsweredRefines ==
  ASSUME Inv, Inv', result = "pending", result' = "done", question' = question, turn' = turn
  PROVE  Lookup!Answered
<1>1. /\ packet'.body \in Replies
      /\ packet'.body.name = question'.name /\ packet'.body.type = question'.type
      /\ ~packet'.body.tc /\ packet'.body.rcode \in {0, 3}
  BY DEF Inv, AnswerIsForQuestion
<1>2. /\ phaseBar = "asking" /\ phaseBar' = "answered"
      /\ answerBar' = packet'.body /\ attemptBar' = Lookup!NoAttempt
  BY DEF phaseBar, answerBar, attemptBar, Lookup!NoAttempt
<1>3. Lookup!Answers(question, answerBar') /\ answerBar' \in Replies
  BY <1>1, <1>2 DEF Lookup!Answers
<1>4. QED
  BY <1>2, <1>3 DEF Lookup!Answered

\* a lookup that ends for want of memory
LEMMA FailedRefines ==
  ASSUME result = "pending", result' = "error", question' = question, turn' = turn
  PROVE  Lookup!Failed
<1>1. /\ phaseBar = "asking" /\ phaseBar' = "failed"
      /\ answerBar = Null /\ answerBar' = Null
      /\ attemptBar' = Lookup!NoAttempt
  BY DEF phaseBar, answerBar, attemptBar, Lookup!NoAttempt
<1>2. QED
  BY <1>1 DEF Lookup!Failed

LEMMA StartRefines ==
  ASSUME Inv, Inv', NEW q \in Questions, NEW l \in ServerLists, NEW rec \in BOOLEAN,
         Start(q, l, rec)
  PROVE  Lookup!Ask(q) \/ Lookup!AskFails(q)
<1>1. question' = q /\ turn' = 1 - turn
  BY DEF Start
<1>2. result' \in {"pending", "error"}
  BY DEF Start, ThisUdp, ThisTcp, GiveUp
<1>3. CASE result' = "pending"
  <2>1. phaseBar' = "asking" /\ answerBar' = Null
    BY <1>3 DEF phaseBar, answerBar
  <2>2. attemptBar' \in Lookup!Attempts
    BY <1>3, AttemptType
  <2>3. QED
    BY <1>1, <2>1, <2>2 DEF Lookup!Ask
<1>4. CASE result' = "error"
  <2>1. /\ phaseBar' = "failed" /\ answerBar' = Null
        /\ attemptBar' = Lookup!NoAttempt
    BY <1>4 DEF phaseBar, answerBar, attemptBar, Lookup!NoAttempt
  <2>2. QED
    BY <1>1, <2>1 DEF Lookup!AskFails
<1>5. QED
  BY <1>2, <1>3, <1>4

\* steps that the caller cannot see
LEMMA InnerSteps ==
  ASSUME question' = question, turn' = turn, result' = result,
         packet' = packet \/ result = "pending",
         result = "pending" =>
           /\ curserver' = curserver /\ udploop' = udploop
           /\ (tcpstate' = 0) = (tcpstate = 0)
  PROVE  UNCHANGED Lookup!vars
<1>1. phaseBar' = phaseBar /\ answerBar' = answerBar
  BY DEF phaseBar, answerBar
<1>2. attemptBar' = attemptBar
  BY DEF attemptBar
<1>3. QED
  BY <1>1, <1>2 DEF Lookup!vars

LEMMA StepRefines ==
  ASSUME Inv, Inv', [Next]_vars
  PROVE  [Lookup!Next]_Lookup!vars
<1>1. CASE \E q \in Questions, l \in ServerLists, rec \in BOOLEAN : Start(q, l, rec)
  BY <1>1, StartRefines DEF Lookup!Next
<1>2. CASE Free
  <2>1. result' = "idle" /\ question' = question /\ turn' = turn
    BY <1>2 DEF Free, Call
  <2>2. phaseBar' = "idle" /\ answerBar' = Null /\ attemptBar' = Lookup!NoAttempt
    BY <2>1 DEF phaseBar, answerBar, attemptBar, Lookup!NoAttempt
  <2>3. QED
    BY <2>1, <2>2 DEF Lookup!Drop, Lookup!Next
<1>3. CASE UNCHANGED vars
  BY <1>3, InnerSteps DEF vars, struct, world
<1>4. CASE GetTimeout
  <2>1. Lookup!AskAgain \/ Lookup!Failed
    BY <1>4, NextAttemptRefines DEF GetTimeout
  <2>2. QED
    BY <2>1 DEF Lookup!Next
<1>5. CASE GetUdp
  <2>1. ASSUME result = "pending", tcpstate = 0, NextUdp \/ FirstTcp, UNCHANGED Call
        PROVE  [Lookup!Next]_Lookup!vars
    <3>1. Lookup!AskAgain \/ Lookup!Failed
      BY <2>1, NextAttemptRefines
    <3>2. QED
      BY <3>1 DEF Lookup!Next
  <2>2. ASSUME NEW refused \in BOOLEAN, UdpRecvFails(refused)
        PROVE  [Lookup!Next]_Lookup!vars
    BY <1>3, <2>1, <2>2 DEF UdpRecvFails, OnUdp
  <2>3. CASE UdpOversize
    BY <1>3, <2>3 DEF UdpOversize
  <2>4. ASSUME NEW p \in Messages, UdpIgnore(p) \/ UdpTruncated(p) \/ UdpFailed(p)
        PROVE  [Lookup!Next]_Lookup!vars
    BY <1>3, <2>1, <2>4 DEF UdpIgnore, UdpTruncated, UdpFailed, OnUdp
  <2>5. ASSUME NEW p \in Replies, NEW len \in Lens, UdpAnswer(p, len)
        PROVE  [Lookup!Next]_Lookup!vars
    <3>1. result = "pending" /\ result' \in {"done", "error"} /\ question' = question /\ turn' = turn
      BY <2>5 DEF UdpAnswer, OnUdp, GiveUp, Call
    <3>2. QED
      BY <3>1, AnsweredRefines, FailedRefines DEF Lookup!Next
  <2>6. QED
    BY <1>5, <2>2, <2>3, <2>4, <2>5 DEF GetUdp
<1>6. CASE GetTcp
  <2>1. ASSUME result = "pending", NextTcp, UNCHANGED Call
        PROVE  [Lookup!Next]_Lookup!vars
    <3>1. Lookup!AskAgain \/ Lookup!Failed
      BY <2>1, NextAttemptRefines
    <3>2. QED
      BY <3>1 DEF Lookup!Next
  <2>2. CASE TcpFails
    BY <2>1, <2>2 DEF TcpFails, OnTcp
  <2>3. CASE TcpConnected
    BY <2>3, InnerSteps DEF TcpConnected, OnTcp, Call
  <2>4. ASSUME NEW r \in 1 .. PosBound, TcpWrite(r) PROVE [Lookup!Next]_Lookup!vars
    <3>1. tcpstate = 2 /\ tcpstate' \in {2, 3}
      BY <2>4 DEF TcpWrite, OnTcp
    <3>2. QED
      BY <2>4, <3>1, InnerSteps DEF TcpWrite, Call
  <2>5. ASSUME NEW ch \in 0 .. ByteBase - 1, TcpLength1(ch)
        PROVE  [Lookup!Next]_Lookup!vars
    BY <2>5, InnerSteps DEF TcpLength1, OnTcp, Call
  <2>6. ASSUME NEW ch \in 0 .. ByteBase - 1, TcpLength2(ch)
        PROVE  [Lookup!Next]_Lookup!vars
    <3>1. /\ result = "pending" /\ question' = question /\ turn' = turn
          /\ tcpstate = 4 /\ tcpstate' = 5
          /\ curserver' = curserver /\ udploop' = udploop
          /\ result' = "error" \/ result' = result
      BY <2>6 DEF TcpLength2, OnTcp, GiveUp, Call
    <3>2. CASE result' = "error"
      BY <3>1, <3>2, FailedRefines DEF Lookup!Next
    <3>3. CASE result' = result
      BY <3>1, <3>3, InnerSteps
    <3>4. QED
      BY <3>1, <3>2, <3>3
  <2>7. ASSUME NEW r \in Lens, TcpReadSome(r) PROVE [Lookup!Next]_Lookup!vars
    BY <2>7, InnerSteps DEF TcpReadSome, OnTcp, Call
  <2>8. ASSUME NEW p \in Messages, TcpReadLast(p) PROVE [Lookup!Next]_Lookup!vars
    <3>1. result = "pending" /\ question' = question /\ turn' = turn /\ UNCHANGED Call
      BY <2>8 DEF TcpReadLast, OnTcp, Call
    <3>2. NextTcp \/ result' = "done"
      BY <2>8 DEF TcpReadLast
    <3>3. QED
      BY <2>1, <3>1, <3>2, AnsweredRefines DEF Lookup!Next
  <2>9. QED
    BY <1>6, <2>2, <2>3, <2>4, <2>5, <2>6, <2>7, <2>8 DEF GetTcp
<1>7. CASE Tick
  BY <1>7, InnerSteps DEF Tick, struct, world
<1>8. QED
  BY <1>1, <1>2, <1>3, <1>4, <1>5, <1>6, <1>7 DEF Next, Get, GetEarly

LEMMA InitRefines == Init => Lookup!Init
BY DEF Init, Lookup!Init, phaseBar, attemptBar, answerBar, Lookup!NoAttempt

\* The query engine implements the contract of a lookup.
THEOREM Refinement == Spec => LookupSpec
<1>1. Inv /\ Inv' /\ [Next]_vars => [Lookup!Next]_Lookup!vars
  BY StepRefines
<1>2. QED
  BY <1>1, InitRefines, Invariance, PTL DEF Spec, LookupSpec, Lookup!Spec

-----------------------------------------------------------------------------
(***************************************************************************)
(* What the steps of the engine do to the return code and to a packet that *)
(* is only partly read                                                     *)
(***************************************************************************)
\* no partly read packet carries a message
EmptyWhilePending == result = "pending" /\ packet # Null => packet.body = Null

\* a call of thisudp or thistcp ends with an attempt under way or with an error
LEMMA AttemptEnds ==
  ASSUME NEW sv, NEW ids, NEW u, NEW c, NEW m,
         ThisUdp(sv, ids, u, c, m) \/ ThisTcp(sv, ids, c, m)
  PROVE  \/ result' = "error"
         \/ result' = "pending" /\ tcpstate' \in {0, 1, 2}
BY DEF ThisUdp, ThisTcp, GiveUp

\* the same of the attempts that follow one another in a lookup
LEMMA NextEnds ==
  ASSUME NextUdp \/ NextTcp \/ FirstTcp
  PROVE  \/ result' = "error"
         \/ result' = "pending" /\ tcpstate' \in {0, 1, 2}
BY AttemptEnds DEF NextUdp, NextTcp, FirstTcp

\* a lookup starts with an attempt under way or with an error
LEMMA StartEnds ==
  ASSUME NEW q \in Questions, NEW l \in ServerLists, NEW rec \in BOOLEAN,
         Start(q, l, rec)
  PROVE  \/ result' = "error"
         \/ result' = "pending" /\ tcpstate' \in {0, 1, 2}
BY AttemptEnds DEF Start

\* how a call of dns_transmit_get ends
GetEnds ==
  \/ result' \in {"error", "done"}
  \/ result' = "pending" /\ tcpstate' \in {0, 1, 2}
  \/ result' = "pending" /\ UNCHANGED packet
  \/ result' = "pending" /\ packet'.body = Null

\* the calls without revents
LEMMA WaitingEnds ==
  ASSUME GetEarly \/ GetTimeout
  PROVE  GetEnds
<1>1. CASE GetEarly
  BY <1>1 DEF GetEarly, GetEnds, vars, struct
<1>2. CASE GetTimeout
  BY <1>2, NextEnds DEF GetTimeout, GetEnds
<1> QED  BY <1>1, <1>2

\* the calls on a readable UDP socket
LEMMA UdpEnds ==
  ASSUME GetUdp
  PROVE  GetEnds
<1>1. CASE result = "pending" /\ UNCHANGED vars
  BY <1>1 DEF GetEnds, vars, struct
<1>2. CASE NextUdp \/ FirstTcp
  BY <1>2, NextEnds DEF GetEnds
<1>3. CASE result' \in {"error", "done"}
  BY <1>3 DEF GetEnds
<1>4. ASSUME NEW p, NEW len, UdpAnswer(p, len) PROVE result' \in {"error", "done"}
  BY <1>4 DEF UdpAnswer, GiveUp
<1>5. ASSUME NEW p, UdpIgnore(p) \/ UdpTruncated(p) \/ UdpFailed(p)
      PROVE  (result = "pending" /\ UNCHANGED vars) \/ NextUdp \/ FirstTcp
  BY <1>5 DEF UdpIgnore, UdpTruncated, UdpFailed, OnUdp
<1>6. ASSUME UdpOversize \/ \E refused \in BOOLEAN : UdpRecvFails(refused)
      PROVE  (result = "pending" /\ UNCHANGED vars) \/ NextUdp
  BY <1>6 DEF UdpOversize, UdpRecvFails, OnUdp
<1> QED  BY <1>1, <1>2, <1>3, <1>4, <1>5, <1>6 DEF GetUdp

\* the calls on a ready TCP socket
LEMMA TcpEnds ==
  ASSUME GetTcp
  PROVE  GetEnds
<1>1. CASE TcpFails
  BY <1>1, NextEnds DEF TcpFails, GetEnds
<1>2. CASE TcpConnected
  BY <1>2 DEF TcpConnected, OnTcp, GetEnds
<1>3. ASSUME NEW r, TcpWrite(r) PROVE GetEnds
  BY <1>3 DEF TcpWrite, OnTcp, GetEnds
<1>4. ASSUME NEW ch, TcpLength1(ch) PROVE GetEnds
  BY <1>4 DEF TcpLength1, OnTcp, GetEnds
<1>5. ASSUME NEW ch, TcpLength2(ch) PROVE GetEnds
  BY <1>5 DEF TcpLength2, OnTcp, GetEnds, GiveUp, SetMem, AllocPacket
<1>6. ASSUME NEW r, TcpReadSome(r) PROVE GetEnds
  BY <1>6 DEF TcpReadSome, OnTcp, GetEnds
<1>7. ASSUME NEW p, TcpReadLast(p) PROVE GetEnds
  BY <1>7, NextEnds DEF TcpReadLast, GetEnds
<1> QED  BY <1>1, <1>2, <1>3, <1>4, <1>5, <1>6, <1>7 DEF GetTcp

-----------------------------------------------------------------------------
(***************************************************************************)
(* The loop and its engine                                                 *)
(***************************************************************************)
\* The inductive invariant.  That a call returned "ok" is remembered in rc
\* beyond the dns_transmit_free of the caller, and a wait that fails leaves an
\* attempt under way: what rc says of packet holds until one of the two is gone.
LoopInv ==
  /\ Inv /\ EmptyWhilePending
  /\ pc \in {"idle", "stamp", "pause", "get"}
  /\ pc # "idle" => result = "pending"
  /\ pc = "idle" /\ rc = "ok" /\ packet # Null => result = "done"
  /\ pc = "idle" /\ rc = "DNS_COM" /\ packet # Null => result = "pending"

\* every step of the loop is one of the engine, or leaves the engine alone
LEMMA LoopDrivesEngine == [ResolveNext]_allvars => [Next]_vars
<1> SUFFICES ASSUME [ResolveNext]_allvars PROVE [Next]_vars
  OBVIOUS
<1>1. CASE ResolveNoConf \/ Stamp \/ Pause \/ UNCHANGED allvars
  <2>1. vars' = vars
    BY <1>1 DEF ResolveNoConf, Stamp, Pause, allvars
  <2> QED  BY <2>1
<1>2. CASE \E q \in Questions, l \in ServerLists : Resolve(q, l)
  BY <1>2 DEF Resolve, Next
<1>3. CASE GetStep
  BY <1>3 DEF GetStep, Next, Get
<1>4. CASE FreeTx \/ Clock
  BY <1>4 DEF FreeTx, Clock, Next
<1> QED  BY <1>1, <1>2, <1>3, <1>4 DEF ResolveNext

LEMMA LoopInvInit == ResolveInit => LoopInv
<1> SUFFICES ASSUME ResolveInit PROVE LoopInv
  OBVIOUS
<1>1. Inv
  BY InitInv DEF ResolveInit
<1> QED  BY <1>1 DEF ResolveInit, Init, LoopInv, EmptyWhilePending

\* an ended call: the struct as dns_transmit_get or dns_transmit_start left it
LEMMA Ended ==
  ASSUME Inv', result' \in {"done", "error"}, pc' = "idle",
         result' = "done" => rc' = "ok", result' = "error" => rc' = "DNS_COM"
  PROVE  LoopInv'
<1>1. result' = "error" => packet' = Null
  BY DEF Inv, ResultShape
<1> QED  BY <1>1 DEF LoopInv, EmptyWhilePending

\* an attempt under way and a loop that goes on
LEMMA GoesOn ==
  ASSUME Inv', EmptyWhilePending', result' = "pending",
         pc' \in {"stamp", "pause", "get"}
  PROVE  LoopInv'
BY DEF LoopInv

\* dns_resolve is entered: the struct of an earlier lookup is started anew
LEMMA ResolveKeeps ==
  ASSUME LoopInv, NEW q \in Questions, NEW l \in ServerLists, Resolve(q, l)
  PROVE  LoopInv'
<1>1. Start(q, l, TRUE)
  BY DEF Resolve
<1>2. Inv'
  BY <1>1, StartInv DEF LoopInv
<1>3. result' = "error" \/ (result' = "pending" /\ tcpstate' \in {0, 1, 2})
  BY <1>1, StartEnds
<1>4. CASE result' = "error"
  BY <1>2, <1>4, Ended DEF Resolve, Return
<1>5. CASE result' = "pending" /\ tcpstate' \in {0, 1, 2}
  <2>1. packet' = Null
    BY <1>2, <1>5 DEF Inv, ResultShape
  <2> QED  BY <1>2, <1>5, <2>1, GoesOn DEF Resolve, EmptyWhilePending
<1> QED  BY <1>3, <1>4, <1>5

\* a round of the loop: the answer of dns_transmit_get decides how it goes on
LEMMA GetKeeps ==
  ASSUME LoopInv, GetStep
  PROVE  LoopInv'
<1>1. GetEarly \/ GetTimeout \/ GetUdp \/ GetTcp
  BY DEF GetStep
<1>2. GetEnds
  BY <1>1, WaitingEnds, UdpEnds, TcpEnds
<1>3. Inv'
  BY <1>1, NextInv DEF LoopInv, Next, Get
<1>4. CASE result' \in {"error", "done"}
  BY <1>3, <1>4, Ended DEF GetStep, AfterGet, Return
<1>5. CASE result' = "pending"
  <2>1. pc' = "stamp"
    BY <1>5 DEF GetStep, AfterGet
  <2>2. result = "pending"
    BY DEF LoopInv, GetStep
  <2>3. EmptyWhilePending'
    <3>1. CASE tcpstate' \in {0, 1, 2}
      BY <1>3, <1>5, <3>1 DEF Inv, ResultShape, EmptyWhilePending
    <3>2. CASE UNCHANGED packet
      BY <2>2, <3>2 DEF LoopInv, EmptyWhilePending
    <3>3. CASE packet'.body = Null
      BY <3>3 DEF EmptyWhilePending
    <3> QED  BY <1>2, <1>5, <3>1, <3>2, <3>3 DEF GetEnds
  <2> QED  BY <1>3, <1>5, <2>1, <2>3, GoesOn
<1> QED  BY <1>2, <1>4, <1>5 DEF GetEnds

\* steps that leave the engine alone
LEMMA WaitKeeps ==
  ASSUME LoopInv, ResolveNoConf \/ Stamp \/ Pause \/ UNCHANGED allvars
  PROVE  LoopInv'
<1>1. vars' = vars
  BY DEF ResolveNoConf, Stamp, Pause, allvars
<1>2. result' = result /\ packet' = packet
  BY <1>1 DEF vars, struct
<1>3. Inv' /\ EmptyWhilePending'
  BY <1>1, <1>2, StutterInv DEF LoopInv, EmptyWhilePending
<1>4. CASE ResolveNoConf
  BY <1>2, <1>3, <1>4 DEF ResolveNoConf, Return, LoopInv
<1>5. CASE Stamp
  BY <1>2, <1>3, <1>5 DEF Stamp, LoopInv
<1>6. CASE Pause
  BY <1>2, <1>3, <1>6 DEF Pause, Return, LoopInv
<1>7. CASE UNCHANGED allvars
  BY <1>2, <1>3, <1>7 DEF allvars, loop, LoopInv
<1> QED  BY <1>4, <1>5, <1>6, <1>7

LEMMA LoopInvNext == LoopInv /\ [ResolveNext]_allvars => LoopInv'
<1> SUFFICES ASSUME LoopInv, [ResolveNext]_allvars PROVE LoopInv'
  OBVIOUS
<1>1. CASE ResolveNoConf \/ Stamp \/ Pause \/ UNCHANGED allvars
  BY <1>1, WaitKeeps
<1>2. CASE \E q \in Questions, l \in ServerLists : Resolve(q, l)
  BY <1>2, ResolveKeeps
<1>3. CASE GetStep
  BY <1>3, GetKeeps
<1>4. CASE FreeTx
  <2>1. Inv' /\ result' = "idle"
    BY <1>4, FreeInv DEF FreeTx, Free, LoopInv
  <2>2. packet' = Null
    BY <2>1 DEF Inv, ResultShape
  <2> QED  BY <1>4, <2>1, <2>2 DEF FreeTx, loop, LoopInv, EmptyWhilePending
<1>5. CASE Clock
  <2>1. Inv'
    BY <1>5, TickInv DEF Clock, LoopInv
  <2>2. result' = result /\ packet' = packet
    BY <1>5 DEF Clock, Tick, struct
  <2> QED  BY <1>5, <2>1, <2>2 DEF Clock, loop, LoopInv, EmptyWhilePending
<1> QED  BY <1>1, <1>2, <1>3, <1>4, <1>5 DEF ResolveNext

\* The inductive invariant holds in every reachable state of the loop.
THEOREM LoopInvariance == ResolveSpec => []LoopInv
BY LoopInvInit, LoopInvNext, PTL DEF ResolveSpec

-----------------------------------------------------------------------------
(***************************************************************************)
(* What the loop promises, for every value of the constants                *)
(***************************************************************************)
\* The loop calls the engine only as its contract allows: what the loop does is
\* a behaviour of the engine, so every theorem about Spec holds under the loop
\* (dns_resolve.c:27-39).
THEOREM EngineDriven == ResolveSpec => Spec /\ LookupSpec
<1>1. ResolveInit => Init
  BY DEF ResolveInit
<1>2. ResolveSpec => Spec
  BY <1>1, LoopDrivesEngine, PTL DEF ResolveSpec, Spec
<1> QED  BY <1>2, Refinement

\* The loop waits on and reads from a query under way only, and what a call
\* returns is the answer to its own question, or nothing that could be taken for
\* it (dns_resolve.c:27-39).
THEOREM ResolveAnswers == ResolveSpec => []CallGetsItsAnswer
<1>1. LoopInv => CallGetsItsAnswer
  <2> SUFFICES ASSUME LoopInv PROVE CallGetsItsAnswer
    OBVIOUS
  <2>1. LoopDrivesPending
    BY DEF LoopInv, Inv, ResultShape, LoopDrivesPending
  <2>2. ResultOfCall
    BY DEF LoopInv, Inv, AnswerIsForQuestion, EmptyWhilePending, ResultOfCall
  <2> QED  BY <2>1, <2>2 DEF CallGetsItsAnswer
<1> QED  BY <1>1, LoopInvariance, PTL
=============================================================================
