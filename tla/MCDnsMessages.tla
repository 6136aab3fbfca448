--------------------------- MODULE MCDnsMessages ---------------------------
(***************************************************************************)
(* The reading of messages from three sides: names (any few bytes), whole  *)
(* packets (any mixture of records, cut off anywhere), and the calls of    *)
(* the front ends one after the other.                                     *)
(***************************************************************************)
EXTENDS DnsFront

-----------------------------------------------------------------------------
\* Part "packets": packets that name servers send, of every mixture of records, with a count that is
\* right or one too many, and cut off at any byte; and what each front end should take
\* from them.  own maps a kind of lookup to what a record adds to its answer; a record
\* without an entry is not of its type, and one whose entry is Broken cannot be read.
CONSTANT Plenty   \* room for every answer

Broken == <<-1>>

\* a record of a type and a class, whose data says it is n bytes long
RR(type, class, n, data) ==
  <<192, 12>> \o type \o class \o <<0, 0, 0, 60>> \o <<n \div 256, n % 256>> \o data
Rec(type, data, own) == [bytes |-> RR(type, ClassIn, Len(data), data), own |-> own, data |-> Len(data)]

OwnIp(b) == [ip4 |-> b, ip6 |-> IP!Mapped(b)]
V6 == <<254, 128, 0, 0, 0, 0, 0, 0, 0, 0, 0, 0, 0, 0, 0, 1>>

\* names: B; c. below the name of the question, which is a; a label too long
NameB == <<1, 66, 0>>
NameC == <<2, 99, 46, 192, 12>>
NameBad == <<70, 99>>
DotB == <<98>>
DotC == <<99, 92, 48, 53, 54, 46, 97>>

Records ==
  {Rec(TypeA, <<10, 0, 0, 1>>, OwnIp(<<10, 0, 0, 1>>)),
   Rec(TypeA, <<10, 0, 0, 1, 9>>, <<>>),
   [bytes |-> RR(TypeA, <<0, 3>>, 4, <<10, 0, 0, 2>>), own |-> <<>>, data |-> 4],
   Rec(TypeAaaa, V6, [ip6 |-> V6]),
   Rec(TypeCname, NameB, [cname |-> DotB]),
   Rec(TypePtr, NameC, [name |-> DotC]),
   Rec(TypeCname, NameBad, [cname |-> Broken]),
   Rec(TypeMx, <<0, 10>> \o NameC, [mx |-> <<0, 10>> \o DotC \o <<0>>]),
   Rec(TypeTxt, <<2, 104, 105, 0, 5, 9, 200>>, [txt |-> <<104, 105, 63, 63>>]),
   Rec(TypeTxt, <<>>, [txt |-> <<>>])}

\* a packet of records that says it has count of them
Packet(rrs, count) ==
  <<0, 1, 129, 128, 0, 1, 0, count, 0, 0, 0, 0>> \o <<1, 97, 0>> \o <<0, 1, 0, 1>>
    \o FlattenSeq([k \in DOMAIN rrs |-> rrs[k].bytes])

-----------------------------------------------------------------------------
CONSTANT RecordsMax

VARIABLES rrs, extra, lost

packetvars == <<rrs, extra, lost>>

PacketInit == rrs = <<>> /\ extra = 0 /\ lost = 0

Whole == Packet(rrs, Len(rrs) + extra)
Sent == SubSeq(Whole, 1, Len(Whole) - lost)

AddRecord(r) ==
  /\ Len(rrs) < RecordsMax /\ extra = 0 /\ lost = 0
  /\ rrs' = Append(rrs, r) /\ UNCHANGED <<extra, lost>>
TooMany == extra = 0 /\ lost = 0 /\ extra' = 1 /\ UNCHANGED <<rrs, lost>>
CutByte == extra = 0 /\ Sent # <<>> /\ lost' = lost + 1 /\ UNCHANGED <<rrs, extra>>

PacketNext == TooMany \/ CutByte \/ \E r \in Records : AddRecord(r)

-----------------------------------------------------------------------------
HeadEnd(k) == Len(Packet(SubSeq(rrs, 1, k), 0)) - rrs[k].data
DataEnd(k) == HeadEnd(k) + rrs[k].data
Own(k, kind) == kind \in DOMAIN rrs[k].own

\* record k can be read by a front end: its head is there, and its data when it is
\* of its type
Readable(k, kind) ==
  /\ HeadEnd(k) <= Len(Sent)
  /\ Own(k, kind) => DataEnd(k) <= Len(Sent) /\ rrs[k].own[kind] # Broken

FirstName == {k \in DOMAIN rrs : Own(k, "name") /\ \A l \in 1 .. k - 1 : ~Own(l, "name")}
Needed(kind) == IF kind = "name" /\ FirstName # {} THEN 1 .. CHOOSE k \in FirstName : TRUE ELSE DOMAIN rrs

\* what the records of the type say, one after the other; a text has a line for each
\* record, empty for one that is no text (dns_txt.c:53; man/dns.3:178-180 knows the texts
\* alone)
Expected(kind) ==
  FlattenSeq([k \in 1 .. Cardinality(Needed(kind)) |->
    (IF kind = "txt" /\ k > 1 THEN <<10>> ELSE <<>>) \o (IF Own(k, kind) THEN rrs[k].own[kind] ELSE <<>>)])

\* The answer of every front end is what the records of its type say, in their
\* order, and the number of all its records, or of names (man/dns.3:222-229; its lines 61,
\* 96, 109, 137 and 156 have 0 instead); a packet that ends too soon, or counts more
\* records than it has, is an error, unless what is missing is data of another
\* type or lies behind the first name (the packet readers of dns_ip.c, dns_mx.c,
\* dns_txt.c, dns_cname.c and dns_name.c).
AnswersRead ==
  \A kind \in Kinds :
    LET good == /\ Len(Sent) >= Len(Packet(<<>>, 0)) - (IF rrs = <<>> THEN 4 ELSE 0)
                /\ \A k \in Needed(kind) : Readable(k, kind)
                /\ extra = 1 => kind = "name" /\ FirstName # {}
    IN  \E r \in {Read(kind, Sent, Plenty)} :
          IF good
          THEN /\ r.out = Expected(kind)
               /\ r.rc = IF kind = "name" THEN Cardinality(FirstName) ELSE Len(rrs)
          ELSE r.rc = DNS_ERR

ShortRooms == {0, 1, 2, 3, 4, 9, 11, 15, 16, 20}

\* When memory runs short, a list of addresses and a text are whole or the call
\* fails; no address is cut (dns_ip.c:39, 113, 120, dns_txt.c:47, 53).
WholeOrFailed ==
  lost = 0 => \A kind \in {"ip4", "ip6", "txt"}, room \in ShortRooms :
    \E r \in {Read(kind, Sent, room)} : r.rc < 0 \/ r = Read(kind, Sent, Plenty)

\* what may be left of a name that was not to be cut: its preference and its terminator
\* are there
CutsOf(kind, name) ==
  IF kind = "mx" THEN {SubSeq(name, 1, n) \o <<0>> : n \in 2 .. Len(name) - 1}
  ELSE {SubSeq(name, 1, n) : n \in 0 .. Len(name)}

\* The calls that answer with names do not say when memory has run short in a name:
\* dns_domain_todot_cat says so with DNS_MEM, which its callers take for success
\* (dns_dtda.c:29, 37, 41, dns_mx.c:41, dns_cname.c:37, dns_name.c:37).  Then names are
\* missing their ends, or all of themselves, and nothing else is wrong: none is mixed with
\* another, and those of dns_mx keep their preferences and terminators.
OnlyNamesAreCut ==
  lost = 0 => \A kind \in {"mx", "cname", "name"}, room \in ShortRooms :
    \E r \in {Read(kind, Sent, room)} :
      r.rc < 0 \/ /\ r.rc = Read(kind, Sent, Plenty).rc
                  /\ LET ours == SelectSeq([k \in 1 .. Cardinality(Needed(kind)) |-> k], LAMBDA k : Own(k, kind))
                         pieces == [j \in DOMAIN ours |-> CutsOf(kind, rrs[ours[j]].own[kind])]
                     IN  \E cut \in [DOMAIN ours -> UNION {pieces[j] : j \in DOMAIN ours}] :
                           (\A j \in DOMAIN ours : cut[j] \in pieces[j]) /\ r.out = FlattenSeq(cut)

-----------------------------------------------------------------------------
\* Part "calls": calls of all front ends one after the other, with lookups that fail in
\* every way, packets that can and cannot be read, and memory that is short.

\* a; 1.a; 10.0.0.1; [1].2.3; ::1; ::1x; a name whose label is too long
MCTexts ==
  {<<97>>, <<49, 46, 97>>, <<49, 48, 46, 48, 46, 48, 46, 49>>, <<91, 49, 93, 46, 50, 46, 51>>,
   <<58, 58, 49>>, <<58, 58, 49, 120>>, <<97, 97, 97, 97, 97, 97>>}

\* no answer; one of each type; a name that cannot be read; a count that is too high
Answer(type, kind) == {r \in Records : kind \in DOMAIN r.own /\ SubSeq(r.bytes, 3, 4) = type /\ r.own[kind] # Broken}
MCPackets ==
  {Packet(<<>>, 0), Packet(<<>>, 1)}
    \cup {Packet(<<r>>, 1) : r \in Answer(TypeMx, "mx") \cup Answer(TypePtr, "name") \cup Answer(TypeA, "ip4")}
    \cup {Packet(<<r, r>>, 2) : r \in Answer(TypeAaaa, "ip6")}
    \cup {Packet(<<RR1>>, 1) : RR1 \in {r \in Records : "cname" \in DOMAIN r.own}}

-----------------------------------------------------------------------------
\* Part "names": every packet and every text over a few bytes, grown one byte at a
\* time, with the functions of DnsNames compared with other definitions of what they
\* compute.  The bytes of packets are short lengths, one that is too large, and the
\* one that begins a pointer.
CONSTANTS PacketBytes, PacketMax, TextChars, TextMax

VARIABLE text

namevars == <<message, text>>

PartNamesInit == NamesInit /\ text = <<>>

GrowMessage(b) == text = <<>> /\ Len(message) < PacketMax /\ Receive(b) /\ UNCHANGED text

GrowText(c) ==
  /\ message = <<>> /\ Len(text) < TextMax
  /\ text' = Append(text, c) /\ UNCHANGED message

PartNamesNext == \/ \E b \in PacketBytes : GrowMessage(b)
                 \/ \E c \in TextChars : GrowText(c)

-----------------------------------------------------------------------------
\* What dns_domain_fromdot makes of any text is a name within the limits, and
\* text made of it again gives the same name, in lower case: the escapes of
\* dns_domain_todot_cat and dns_domain_fromdot fit (dns_dfd.c:37-53,
\* dns_dtda.c:25-38).
RoundTrip ==
  LET dn == FromDot(text)
  IN  dn # Fail =>
        /\ Len(dn) <= NameMax /\ DomainLength(dn) = Len(dn)
        /\ \A l \in DOMAIN Labels(dn) : Len(Labels(dn)[l]) \in 1 .. LabelMax
        /\ LET again == FromDot(ToDot(dn))
           IN  Labels(again) = [l \in DOMAIN Labels(dn) |-> [j \in DOMAIN Labels(dn)[l] |-> Lower(Labels(dn)[l][j])]]

\* A domain is below another when the labels of the other are its last ones,
\* whatever their case; bytes of a label are never taken for a length
\* (dns_domain.c:46-67).
SuffixByLabels ==
  \A first, last \in 1 .. Len(text) :
    LET big == FromDot(text) little == FromDot(SubSeq(text, first, last))
    IN  big # Fail /\ little # Fail =>
          DomainSuffix(big, little) =
            \E d \in 0 .. Len(Labels(big)) :
              LET tail == SubSeq(Labels(big), d + 1, Len(Labels(big)))
              IN  /\ Len(tail) = Len(Labels(little))
                  /\ \A l \in DOMAIN tail : /\ Len(tail[l]) = Len(Labels(little)[l])
                                            /\ SameBytes(tail[l], Labels(little)[l], Len(tail[l]))

Sample == {0, 9, 10, 99, 100, 255}

\* The names for the addresses of two hosts differ, fit their buffers, and begin
\* with the last byte (dns_nd.c, dnsresolv.h:136, 149).
ReverseNames ==
  \A c \in {Len(message)} :
    /\ \A a, b \in Sample :
         LET dn == Name4Domain(<<a, b, 255, c>>)
         IN  /\ Len(dn) <= 31 /\ DomainLength(dn) = Len(dn)
             /\ SubSeq(Labels(dn), 1, 4) = <<Decimal(c), Decimal(255), Decimal(b), Decimal(a)>>
    /\ LET dn == Name6Domain([j \in 1 .. 16 |-> 16 * c + j - 1])
       IN  /\ Len(dn) <= 75 /\ DomainLength(dn) = Len(dn)
           /\ Labels(dn) = [l \in 1 .. 32 |->
                IF l % 2 = 1 THEN <<Hex(15 - (l - 1) \div 2)>> ELSE <<Hex(c)>>]
                  \o <<<<105, 112, 54>>, <<97, 114, 112, 97>>>>

-----------------------------------------------------------------------------
VARIABLE part

Init == part \in {"names", "packets", "calls"} /\ PartNamesInit /\ PacketInit /\ FrontInit

Next == \/ part = "names" /\ PartNamesNext /\ UNCHANGED <<part, packetvars, frontVars>>
        \/ part = "packets" /\ PacketNext /\ UNCHANGED <<part, namevars, frontVars>>
        \/ part = "calls" /\ FrontNext /\ UNCHANGED <<part, namevars, packetvars>>

Spec == Init /\ [][Next]_<<part, namevars, packetvars, frontVars>>
-----------------------------------------------------------------------------
\* Names survive the way to text and back, are compared label by label, and name the
\* address they were made of backwards (dns_dfd.c, dns_dtda.c, dns_domain.c:46-67,
\* dns_nd.c:13-47).  The addresses tried depend on the length of the packet alone: one
\* packet of each length is enough.
NamesComeBack ==
  /\ part = "names" => RoundTrip /\ SuffixByLabels
  /\ part = "names" /\ text = <<>> /\ (\A j \in DOMAIN message : message[j] = 0) => ReverseNames

\* Every front end's answer is what the records of its type say.  When memory is short in
\* the midst of it, the calls for addresses and texts fail as a whole; those for names may
\* give names without their ends as success, and no more is lost (dns_ip.c:16-128, dns_mx.c,
\* dns_txt.c, dns_cname.c, dns_name.c, dns_dtda.c:11-47).
AnswersAreRead == part = "packets" => AnswersRead /\ WholeOrFailed /\ OnlyNamesAreCut
=============================================================================
