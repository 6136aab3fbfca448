------------------------------ MODULE DnsFront ------------------------------
(***************************************************************************)
(* The front ends of the resolver: dns_ip4, dns_ip6, dns_mx, dns_txt,      *)
(* dns_cname, dns_name4 and dns_name6 (dnsstub/dns_ip.c, dns_mx.c,         *)
(* dns_txt.c, dns_cname.c, dns_name.c).  Each makes a question, has        *)
(* dns_resolve ask it, and reads the packet that dns_resolve leaves in     *)
(* dns_resolve_tx.  Each file keeps a name in a static variable q.         *)
(*                                                                         *)
(* Memory is short when out would grow beyond its room.                    *)
(***************************************************************************)
EXTENDS DnsNames, Integers, FiniteSets

CONSTANTS
  ULong, UInt,  \* the words of the machine, for addresses as text
  Texts,        \* names and addresses that are asked for, without terminators
  Packets,      \* packets that name servers send
  Rooms         \* bytes that out may grow to

ASSUME FrontAssumption ==
  /\ UInt \in Nat \ {0} /\ ULong \in Nat \ {0} /\ ULong % UInt = 0 /\ ULong % 256 = 0
  /\ \A text \in Texts : text \in Seq(1 .. 255)
  /\ \A packet \in Packets : packet \in Seq(0 .. Byte - 1)
  /\ Rooms \subseteq Nat

IP == INSTANCE IpText

DNS_MEM == -1
DNS_ERR == -2
DNS_INT == -4

Kinds == {"ip4", "ip6", "mx", "txt", "cname", "name"}

\* the static q of a file: dns_ip4 and dns_ip6 are in one
FileOf(kind) == IF kind = "ip6" THEN "ip4" ELSE kind
Files == {FileOf(k) : k \in Kinds}

TypeA == <<0, 1>>
TypeCname == <<0, 5>>
TypePtr == <<0, 12>>
TypeMx == <<0, 15>>
TypeTxt == <<0, 16>>
TypeAaaa == <<0, 28>>
ClassIn == <<0, 1>>

-----------------------------------------------------------------------------
(* The packet readers.  A reader in the midst of its work is [rc, out].    *)

Number(buf, p) == buf[p + 1] * Byte + buf[p + 2]
Failed(r, rc) == [r EXCEPT !.rc = rc]

\* faulty variant of Cat: what fits is taken
CatPart(r, bytes, room) ==
  IF r.rc < 0 THEN r
  ELSE [r EXCEPT !.out = @ \o SubSeq(bytes, 1, IF Len(bytes) < room - Len(@) THEN Len(bytes) ELSE room - Len(@))]

\* stralloc_catb, or DNS_MEM
Cat(r, bytes, room) ==
  IF r.rc < 0 THEN r
  ELSE IF Len(r.out) + Len(bytes) > room THEN Failed(r, DNS_MEM)
  ELSE [r EXCEPT !.out = @ \o bytes]

\* the appends of dns_domain_todot_cat
DotPieces(dn) ==
  LET ls == Labels(dn)
  IN  FlattenSeq([l \in DOMAIN ls |->
        (IF l > 1 THEN <<<<Dot>>>> ELSE <<>>) \o [j \in DOMAIN ls[l] |-> Dotted(ls[l][j])]])

\* if (!dns_domain_todot_cat(out,q)) return DNS_ERR: it returns 0 only when the dot
\* of the root does not fit; DNS_MEM counts as success, and the name stays cut
CatName(r, dn, room) ==
  IF r.rc < 0 THEN r
  ELSE IF dn = <<0>>
  THEN IF Len(r.out) + 1 > room THEN Failed(r, DNS_ERR) ELSE [r EXCEPT !.out = Append(@, Dot)]
  ELSE LET ps == DotPieces(dn)
           fits(k) == Len(r.out) + Len(FlattenSeq(SubSeq(ps, 1, k))) <= room
           k == CHOOSE k \in 0 .. Len(ps) : fits(k) /\ (k = Len(ps) \/ ~fits(k + 1))
       IN  [r EXCEPT !.out = @ \o FlattenSeq(SubSeq(ps, 1, k))]

\* dns_packet_copy of n bytes appended
CatCopy(r, before, buf, pos, n, room) ==
  IF r.rc >= 0 /\ PacketCopy(buf, pos, n) = 0 THEN Failed(r, DNS_ERR)
  ELSE Cat(r, before \o SubSeq(buf, pos + 1, pos + n), room)

\* dns_packet_getname and the name in dots appended
CatGetName(r, buf, pos, room) ==
  LET g == GetName(buf, pos)
  IN  IF r.rc >= 0 /\ g.pos = 0 THEN Failed(r, DNS_ERR) ELSE CatName(r, g.name, room)

\* dns_mx_packet: the preference, the name, a terminator
CatMx(r, buf, pos, room) ==
  IF PacketCopy(buf, pos, 2) = 0 \/ GetName(buf, pos + 2).pos = 0 THEN Failed(r, DNS_ERR)
  ELSE Cat(CatGetName(CatCopy(r, <<>>, buf, pos, 2, room), buf, pos + 2, room), <<0>>, room)

Printable(c) == IF c < 32 \/ c > 126 THEN 63 ELSE c

\* dns_txt_packet: a byte is the length of a string when nothing is left of the last one
TxtByte(st, c, room) ==
  IF st.left = 0 THEN [st EXCEPT !.left = c]
  ELSE [left |-> st.left - 1, r |-> Cat(st.r, <<Printable(c)>>, room)]

CatTxt(r, buf, pos, n, room) ==
  LET st[i \in 0 .. n] ==
        IF i = 0 THEN [left |-> 0, r |-> r] ELSE TxtByte(st[i - 1], buf[pos + i], room)
  IN  IF pos + n > Len(buf) THEN Failed(r, DNS_ERR) ELSE st[n].r

\* what a reader does with the data of a record, by the type of the record
Record(kind, r, type, buf, pos, n, room) ==
  CASE kind = "ip4" /\ type = TypeA /\ n = 4 -> CatCopy(r, <<>>, buf, pos, 4, room)
    [] kind = "ip6" /\ type = TypeAaaa /\ n = 16 -> CatCopy(r, <<>>, buf, pos, 16, room)
    [] kind = "ip6" /\ type = TypeA /\ n = 4 -> CatCopy(r, IP!Mapped(<<>>), buf, pos, 4, room)
    [] kind = "mx" /\ type = TypeMx -> CatMx(r, buf, pos, room)
    [] kind = "txt" /\ type = TypeTxt -> CatTxt(r, buf, pos, n, room)
    [] kind = "cname" /\ type = TypeCname -> CatGetName(r, buf, pos, room)
    [] kind = "name" /\ type = TypePtr -> CatGetName(r, buf, pos, room)
    [] OTHER -> r

\* where the answers of a packet begin, or 0: behind the header and the question
Answers(buf) ==
  LET p == PacketCopy(buf, 0, 12)
      q == IF p = 0 THEN 0 ELSE SkipName(buf, p)
  IN  IF q = 0 THEN 0 ELSE q + 4

\* behind the head of the record at pos, or 0
DataAt(buf, pos) ==
  LET head == SkipName(buf, pos) IN IF head = 0 THEN 0 ELSE PacketCopy(buf, head, 10)

\* how a reader goes on behind a record, or ends (pos is 0): the records are counted,
\* but dns_name_packet ends with 1 at the first name
GoesOn(kind, r, named, pos) ==
  IF r.rc < 0 THEN [r |-> r, pos |-> 0]
  ELSE IF kind # "name" THEN [r |-> [r EXCEPT !.rc = @ + 1], pos |-> pos]
  ELSE IF named THEN [r |-> [r EXCEPT !.rc = 1], pos |-> 0]
  ELSE [r |-> r, pos |-> pos]

\* texts have a newline between them
Separated(kind, r, left, room) == IF kind = "txt" /\ left > 1 THEN Cat(r, <<10>>, room) ELSE r

\* the record whose data begin at data, the left-th from the end
ReadRecord(kind, r, buf, data, left, room) ==
  LET type == SubSeq(buf, data - 9, data - 8)
      ours == SubSeq(buf, data - 7, data - 6) = ClassIn
      n == Number(buf, data - 2)
  IN  IF data = 0 THEN [r |-> Failed(r, DNS_ERR), pos |-> 0]
      ELSE GoesOn(kind,
                  Separated(kind, IF ours THEN Record(kind, r, type, buf, data, n, room) ELSE r, left, room),
                  ours /\ type = TypePtr, data + n)

\* dns_ip4_packet, dns_ip6_packet, dns_mx_packet, dns_txt_packet, dns_cname_packet
\* and dns_name_packet, without the sort
ReadPacket(kind, buf, room) ==
  LET begin == Answers(buf)
      count == IF begin = 0 THEN 0 ELSE Number(buf, 6)
      st[k \in 0 .. count] ==
        IF k = 0 THEN [r |-> [rc |-> IF begin = 0 THEN DNS_ERR ELSE 0, out |-> <<>>], pos |-> begin]
        ELSE LET before == st[k - 1]
             IN  IF before.pos = 0 THEN before
                 ELSE ReadRecord(kind, before.r, buf, DataAt(buf, before.pos), count + 1 - k, room)
  IN  st[count].r

Ip4Packet(buf, room) == ReadPacket("ip4", buf, room)
Ip6Packet(buf, room) == ReadPacket("ip6", buf, room)
MxPacket(buf, room) == ReadPacket("mx", buf, room)
TxtPacket(buf, room) == ReadPacket("txt", buf, room)
CnamePacket(buf, room) == ReadPacket("cname", buf, room)
NamePacket(buf, room) == ReadPacket("name", buf, room)

Read(kind, buf, room) ==
  CASE kind = "ip4" -> Ip4Packet(buf, room)
    [] kind = "ip6" -> Ip6Packet(buf, room)
    [] kind = "mx" -> MxPacket(buf, room)
    [] kind = "txt" -> TxtPacket(buf, room)
    [] kind = "cname" -> CnamePacket(buf, room)
    [] kind = "name" -> NamePacket(buf, room)

-----------------------------------------------------------------------------
VARIABLES
  q,     \* the files whose q holds a name
  tx,    \* what dns_resolve_tx holds: nothing, a question, or its answer too
  heap,  \* blocks in use
  out,   \* the caller's out
  call,  \* the call under way, or the last one
  asked  \* its text

frontVars == <<q, tx, heap, out, call, asked>>

Holding == {"nothing", "question", "answer"}
TxBlocks(t) == CASE t = "nothing" -> 0 [] t = "question" -> 1 [] t = "answer" -> 2
QBlocks(f) == IF f \in q THEN 1 ELSE 0

NoCall == [at |-> "idle", kind |-> "ip4", rc |-> 0]

FrontInit == q = {} /\ tx = "nothing" /\ heap = 0 /\ out = <<>> /\ call = NoCall /\ asked = <<>>

Done(kind, rc) == call' = [at |-> "done", kind |-> kind, rc |-> rc]
Asking(kind) == call' = [at |-> "asking", kind |-> kind, rc |-> 0]

\* a character of a text of numbers: brackets are nothing, a dot ends a number
ScanChar(st, c) ==
  IF st.named \/ c \in {IP!Open, IP!Close} THEN st
  ELSE IF c = Dot THEN [st EXCEPT !.bytes = Append(@, st.code), !.code = 0]
  ELSE IF c \in IP!DecDigits THEN [st EXCEPT !.code = (10 * @ + c - 48) % 256]
  ELSE [st EXCEPT !.named = TRUE]

\* the numbers of a text of digits, dots and brackets, one byte for each, up to its
\* first other character; a dot is behind its end
Scan(text) ==
  LET st[k \in 0 .. Len(text) + 1] ==
        IF k = 0 THEN [bytes |-> <<>>, code |-> 0, named |-> FALSE]
        ELSE ScanChar(st[k - 1], IF k <= Len(text) THEN text[k] ELSE Dot)
  IN  st[Len(text) + 1]

\* dns_domain_fromdot, dns_domain_copy: a new name in place of the old one
MakesName(file) == q' = q \cup {file} /\ heap' = heap + 1 - QBlocks(file)

\* a name that cannot be a domain name, or no memory for it
NoName(kind) == Done(kind, DNS_ERR) /\ UNCHANGED <<q, tx, heap>>

\* dns_ip4, dns_ip6, behind the literal: the name is asked for
AskNumbers(kind, text, room, memory) ==
  LET s == Scan(text) IN
  IF Len(s.bytes) > room
  THEN out' = SubSeq(s.bytes, 1, room) /\ Done(kind, DNS_MEM) /\ UNCHANGED <<q, tx, heap>>
  ELSE IF ~s.named
  THEN /\ out' = SubSeq(s.bytes, 1, 4 * (Len(s.bytes) \div 4))
       /\ Done(kind, 0) /\ UNCHANGED <<q, tx, heap>>
  ELSE /\ out' = s.bytes
       /\ IF FromDot(text) = Fail \/ ~memory THEN NoName(kind)
          ELSE MakesName(FileOf(kind)) /\ Asking(kind) /\ UNCHANGED tx

AskIp4(text, room, memory) == call.at = "idle" /\ asked' = text /\ AskNumbers("ip4", text, room, memory)

\* dns_ip6: an address is its own answer
AskIp6(text, room, memory) ==
  LET lit == IP!Ip6Scan(text, 1) IN
  /\ call.at = "idle" /\ asked' = text
  /\ IF lit.n = 0 THEN AskNumbers("ip6", text, room, memory)
     ELSE /\ UNCHANGED <<q, tx, heap>>
          /\ IF IP!At(text, lit.n + 1) # 0 THEN out' = <<>> /\ Done("ip6", DNS_INT)
             ELSE IF room < 16 THEN out' = <<>> /\ Done("ip6", DNS_MEM)
             ELSE out' = lit.ip /\ Done("ip6", 1)

\* dns_mx, dns_txt, dns_cname: out is left for the reader of the packet
AskName(kind, text, memory) ==
  /\ call.at = "idle" /\ asked' = text
  /\ UNCHANGED out
  /\ IF FromDot(text) = Fail \/ ~memory THEN NoName(kind)
     ELSE MakesName(FileOf(kind)) /\ Asking(kind) /\ UNCHANGED tx

AskMx(text, memory) == AskName("mx", text, memory)
AskTxt(text, memory) == AskName("txt", text, memory)
AskCname(text, memory) == AskName("cname", text, memory)

\* dns_name4, dns_name6, dns_name
AskAddress == call.at = "idle" /\ asked' = <<>> /\ Asking("name") /\ UNCHANGED <<q, tx, heap, out>>

\* dns_resolve fails: before it starts a transaction; in starting or asking, which
\* frees it; or in waiting, which does not
Unresolved(left) ==
  /\ call.at = "asking" /\ left \in {tx, "nothing", "question"}
  /\ tx' = left /\ heap' = heap - TxBlocks(tx) + TxBlocks(left)
  /\ Done(call.kind, IF call.kind \in {"ip4", "ip6", "mx"} THEN 0 ELSE DNS_ERR)
  /\ UNCHANGED <<q, out, asked>>

\* the addresses are put in another order (dns_sortip4, dns_sortip6)
Sorted(kind, bytes) ==
  LET w == IF kind = "ip4" THEN 4 ELSE 16
      n == Len(bytes) \div w
  IN  IF kind \notin {"ip4", "ip6"} THEN {bytes}
      ELSE {FlattenSeq([k \in 1 .. n |-> SubSeq(bytes, w * p[k] - w + 1, w * p[k])]) :
             p \in {f \in [1 .. n -> 1 .. n] : \A a, b \in 1 .. n : f[a] = f[b] => a = b}}

\* faulty variant of Answered: the answer is kept
AnsweredKeeps(kind, r) ==
  /\ out' \in Sorted(kind, r.out) /\ Done(kind, r.rc)
  /\ q' = q \ {FileOf(kind)}
  /\ tx' = "answer" /\ heap' = heap - TxBlocks(tx) + 2 - QBlocks(FileOf(kind))

\* a packet that is read: dns_transmit_free, dns_domain_free
Answered(kind, r) ==
  /\ out' \in Sorted(kind, r.out) /\ Done(kind, r.rc)
  /\ q' = q \ {FileOf(kind)}
  /\ tx' = "nothing" /\ heap' = heap - TxBlocks(tx) - QBlocks(FileOf(kind))

\* a packet that is not: all is left as it is, and a name read before the error
\* may be in q, where dns_name had none
Unreadable(kind, r) ==
  /\ out' = r.out /\ Done(kind, DNS_ERR)
  /\ \E named \in {q, q \cup {FileOf(kind)}} :
       /\ q' = named
       /\ tx' = "answer"
       /\ heap' = heap - TxBlocks(tx) + 2 + Cardinality(named) - Cardinality(q)

\* dns_resolve has left a packet, in place of what was in dns_resolve_tx
Resolved(packet, room) ==
  /\ call.at = "asking" /\ UNCHANGED asked
  /\ \E r \in {Read(call.kind, packet, room)} :
       IF r.rc < 0 THEN Unreadable(call.kind, r) ELSE Answered(call.kind, r)

\* the caller goes on
NextCall == call.at = "done" /\ call' = NoCall /\ asked' = <<>> /\ UNCHANGED <<q, tx, heap, out>>

FrontNext ==
  \/ \E text \in Texts, room \in Rooms, memory \in BOOLEAN :
       AskIp4(text, room, memory) \/ AskIp6(text, room, memory)
  \/ \E text \in Texts, memory \in BOOLEAN :
       AskMx(text, memory) \/ AskTxt(text, memory) \/ AskCname(text, memory)
  \/ AskAddress
  \/ \E left \in Holding : Unresolved(left)
  \/ \E packet \in Packets, room \in Rooms : Resolved(packet, room)
  \/ NextCall

FrontSpec == FrontInit /\ [][FrontNext]_frontVars

-----------------------------------------------------------------------------
FrontTypeOK ==
  /\ q \subseteq Files /\ tx \in Holding /\ heap \in Nat
  /\ call.rc \in {DNS_INT, DNS_ERR, DNS_MEM} \cup Nat

\* Every block in use can be reached, whatever calls failed and where: what an
\* unreadable packet leaves behind the next call of the same front end gives back,
\* and no front end gives back what another holds (dns_ip.c:77-82, dns_mx.c:55-60,
\* dns_txt.c:65-69, dns_cname.c:50-54, dns_name.c:52-55).
BlocksOwned == heap = Cardinality(q) + TxBlocks(tx)

\* a text that dns_ip6 takes for an address, to its end
IsLiteral(text) == LET lit == IP!Ip6Scan(text, 1) IN lit.n # 0 /\ IP!At(text, lit.n + 1) = 0

\* A call that gives an answer leaves neither the transaction nor its name behind,
\* also when the calls in front of it did; an address has made neither, and finds
\* those of earlier calls as they are (dns_ip.c:80-81, 142-147).
NothingHeldBehind ==
  call.at = "done" /\ call.rc > 0 =>
    \/ tx = "nothing" /\ FileOf(call.kind) \notin q
    \/ call.kind = "ip6" /\ IsLiteral(asked)

\* A text that is an address never becomes a question, and gives the address the
\* reader of addresses finds; dns_ip4 takes the bytes ip4_scan takes (dns_ip.c:59-87,
\* 142-147).
LiteralsAreAddresses ==
  LET v4 == IP!Ip4Scan(asked, 1)
      v6 == IP!Ip6Scan(asked, 1)
  IN  call.at # "idle" /\ asked # <<>> =>
        /\ call.kind = "ip4" /\ v4.n = Len(asked) /\ call.rc >= 0 => call.at = "done" /\ out = v4.ip
        /\ call.kind = "ip6" /\ v6.n = Len(asked) /\ call.rc >= 0 => call.at = "done" /\ out = v6.ip

\* After any sequence of calls that fail anywhere every block in use can be reached, an
\* answer leaves none behind, and an address is never asked for (dns_ip.c:59-147,
\* dns_mx.c:55-60, dns_txt.c:65-69, dns_cname.c:50-54, dns_name.c:52-55).
CallsLeaveNothing == FrontTypeOK /\ BlocksOwned /\ NothingHeldBehind /\ LiteralsAreAddresses
=============================================================================
