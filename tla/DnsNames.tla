----------------------------- MODULE DnsNames -----------------------------
(***************************************************************************)
(* Domain names: in packets, where they may be compressed                  *)
(* (dnsstub/dns_packet.c), as strings of labels with their lengths         *)
(* (dns_domain.c, dns_nd.c), and as text with dots and escapes (dns_dfd.c, *)
(* dns_dtda.c).  Bytes and characters are numbers; the sizes are           *)
(* constants, so that small instances reach them.                          *)
(***************************************************************************)
EXTENDS Naturals, Sequences, SequencesExt

CONSTANTS
  Byte,      \* values of a byte (256): lengths are below Byte/4, pointers from 3*Byte/4
  LabelMax,  \* sizeof label (63)
  NameMax,   \* sizeof name (255)
  LoopMax    \* steps of dns_packet_getname (1000)

ASSUME NamesAssumption == Byte \in Nat /\ LabelMax \in Nat /\ NameMax \in Nat /\ LoopMax \in Nat \ {0}

Ptr == 3 * (Byte \div 4)
Bad == Byte \div 4

-----------------------------------------------------------------------------
\* dns_packet_copy: the position behind n bytes, or 0
PacketCopy(buf, pos, n) == IF n > 0 /\ pos + n > Len(buf) THEN 0 ELSE pos + n

\* dns_packet_skipname: the position behind a name, or 0; positions are from 0
SkipName(buf, pos0) ==
  LET skip[pos \in Nat] ==
        IF pos >= Len(buf) THEN 0
        ELSE LET ch == buf[pos + 1]
             IN  IF ch >= Ptr THEN pos + 2
                 ELSE IF ch >= Bad THEN 0
                 ELSE IF ch = 0 THEN pos + 1 ELSE skip[pos + 1 + ch]
  IN  skip[pos0]

\* dns_packet_getname: state is what is left of a label, first the place behind the
\* first pointer
Start(pos) == [going |-> TRUE, pos |-> pos, state |-> 0, first |-> 0, name |-> <<>>]
Proto == [going |-> FALSE, pos |-> 0, state |-> 0, first |-> 0, name |-> <<>>]

\* the place a pointer names
Where(buf, pos) == (buf[pos + 1] - Ptr) * Byte + buf[pos + 2]

\* faulty variant of GetByte: the name gets one byte more than it has room for
GetByteLong(buf, r) ==
  LET ch == buf[r.pos + 1]
      pointer == r.state = 0 /\ ch >= Ptr
      last == r.state = 0 /\ ch = 0
  IN  IF ~r.going THEN r
      ELSE IF \/ r.pos >= Len(buf)
              \/ pointer /\ r.pos + 1 >= Len(buf)
              \/ ~pointer /\ ((r.state = 0 /\ ch >= Bad) \/ Len(r.name) > NameMax)
      THEN Proto
      ELSE IF pointer
      THEN [going |-> TRUE, pos |-> Where(buf, r.pos), state |-> 0,
            first |-> IF r.first = 0 THEN r.pos + 2 ELSE r.first, name |-> r.name]
      ELSE [going |-> ~last, pos |-> IF last /\ r.first # 0 THEN r.first ELSE r.pos + 1,
            state |-> IF r.state = 0 THEN ch ELSE r.state - 1, first |-> r.first, name |-> Append(r.name, ch)]

\* dns_packet_getname: a turn of its loops looks at one byte, or at a pointer
GetByte(buf, r) ==
  LET ch == buf[r.pos + 1]
      pointer == r.state = 0 /\ ch >= Ptr
      last == r.state = 0 /\ ch = 0
  IN  IF ~r.going THEN r
      ELSE IF \/ r.pos >= Len(buf)
              \/ pointer /\ r.pos + 1 >= Len(buf)
              \/ ~pointer /\ ((r.state = 0 /\ ch >= Bad) \/ Len(r.name) >= NameMax)
      THEN Proto
      ELSE IF pointer
      THEN [going |-> TRUE, pos |-> Where(buf, r.pos), state |-> 0,
            first |-> IF r.first = 0 THEN r.pos + 2 ELSE r.first, name |-> r.name]
      ELSE [going |-> ~last, pos |-> IF last /\ r.first # 0 THEN r.first ELSE r.pos + 1,
            state |-> IF r.state = 0 THEN ch ELSE r.state - 1, first |-> r.first, name |-> Append(r.name, ch)]

\* dns_packet_getname: the position behind the name, or 0, and the name with its
\* pointers followed
GetName(buf, pos0) ==
  LET run[loop \in 0 .. LoopMax - 1] == IF loop = 0 THEN Start(pos0) ELSE GetByte(buf, run[loop - 1])
      r == run[LoopMax - 1]
  IN  IF r.going THEN Proto ELSE r

-----------------------------------------------------------------------------
\* dns_domain_length: the bytes up to the empty label
DomainLength(dn) ==
  LET over[p \in Nat] == IF dn[p + 1] = 0 THEN p + 1 ELSE over[p + 1 + dn[p + 1]] IN over[0]

Lower(c) == IF c \in 65 .. 90 THEN c + 32 ELSE c

\* case_diffb over n bytes finds no difference
SameBytes(s, t, n) == \A j \in 1 .. n : Lower(s[j]) = Lower(t[j])

DomainEqual(a, b) ==
  DomainLength(a) = DomainLength(b) /\ SameBytes(a, b, DomainLength(a))

\* dns_domain_suffix: little is found at the beginning of a label of big
DomainSuffix(big, little) ==
  LET find[p \in Nat] ==
        \/ DomainEqual(SubSeq(big, p + 1, Len(big)), little)
        \/ big[p + 1] # 0 /\ find[p + 1 + big[p + 1]]
  IN  find[0]

\* the labels of a wire name, and a wire name of labels
Labels(dn) ==
  LET from[p \in Nat] ==
        IF dn[p + 1] = 0 THEN <<>>
        ELSE <<SubSeq(dn, p + 2, p + 1 + dn[p + 1])>> \o from[p + 1 + dn[p + 1]]
  IN  from[0]
Wire(labels) == FlattenSeq([l \in DOMAIN labels |-> <<Len(labels[l])>> \o labels[l]]) \o <<0>>

-----------------------------------------------------------------------------
Dot == 46
Backslash == 92
Octal == 48 .. 55
Fail == <<>>

\* a char or an escape of a text at p: what it stands for, and how long it is; a
\* backslash at the end is nothing
Escape(text, p) ==
  LET digits == CHOOSE d \in 0 .. 3 :
                  /\ \A e \in 1 .. d : p + e <= Len(text) /\ text[p + e] \in Octal
                  /\ d = 3 \/ p + d = Len(text) \/ text[p + d + 1] \notin Octal
  IN  IF digits = 0 THEN [ch |-> text[p + 1], n |-> 2]
      ELSE [ch |-> FoldLeft(LAMBDA v, c : 8 * v + c - 48, 0, SubSeq(text, p + 1, p + digits)) % 256,
            n |-> 1 + digits]

\* the labels of a text, cut at its dots; empty ones are left out
TextLabels(text) ==
  LET cut[p \in Nat, label \in Seq(Nat)] ==
        LET ended == IF label = <<>> THEN <<>> ELSE <<label>>
        IN  IF p > Len(text) \/ (text[p] = Backslash /\ p = Len(text)) THEN ended
            ELSE IF text[p] = Dot THEN ended \o cut[p + 1, <<>>]
            ELSE IF text[p] = Backslash
            THEN cut[p + Escape(text, p).n, Append(label, Escape(text, p).ch)]
            ELSE cut[p + 1, Append(label, text[p])]
  IN  cut[1, <<>>]

\* faulty variant of FromDot: forgets the length byte of the empty label
FromDotLong(text) ==
  LET ls == TextLabels(text)
  IN  IF \/ \E l \in DOMAIN ls : Len(ls[l]) > LabelMax
         \/ Len(Wire(ls)) - 1 > NameMax
      THEN Fail ELSE Wire(ls)

\* dns_domain_fromdot: the wire name of a text, or Fail
FromDot(text) ==
  LET ls == TextLabels(text)
  IN  IF \/ \E l \in DOMAIN ls : Len(ls[l]) > LabelMax
         \/ Len(Wire(ls)) > NameMax
      THEN Fail ELSE Wire(ls)

\* dns_domain_todot_cat: a byte of a label, in lower case or as an octal escape
Dotted(c) ==
  IF Lower(c) \in (97 .. 122) \cup (48 .. 57) \cup {45, 95} THEN <<Lower(c)>>
  ELSE <<Backslash, 48 + ((c \div 64) % 8), 48 + ((c \div 8) % 8), 48 + (c % 8)>>

\* dns_domain_todot_cat: the text of a wire name
ToDot(dn) ==
  LET ls == Labels(dn)
  IN  IF ls = <<>> THEN <<Dot>>
      ELSE FlattenSeq([l \in DOMAIN ls |->
             (IF l > 1 THEN <<Dot>> ELSE <<>>) \o FlattenSeq([j \in DOMAIN ls[l] |-> Dotted(ls[l][j])])])

-----------------------------------------------------------------------------
\* fmt_ulong
Decimal(u) ==
  LET digits[v \in Nat] == IF v < 10 THEN <<48 + v>> ELSE Append(digits[v \div 10], 48 + (v % 10))
  IN  digits[u]
Hex(v) == IF v < 10 THEN 48 + v ELSE 87 + v

Suffix4 == <<7, 105, 110, 45, 97, 100, 100, 114, 4, 97, 114, 112, 97, 0>>
Suffix6 == <<3, 105, 112, 54, 4, 97, 114, 112, 97, 0>>

\* dns_name4_domain, dns_name6_domain: the name under which an address is found
Name4Domain(ip) == FlattenSeq([b \in 1 .. 4 |-> <<Len(Decimal(ip[5 - b]))>> \o Decimal(ip[5 - b])]) \o Suffix4
Name6Domain(ip) ==
  FlattenSeq([b \in 1 .. 16 |-> <<1, Hex(ip[17 - b] % 16), 1, Hex(ip[17 - b] \div 16)>>]) \o Suffix6

-----------------------------------------------------------------------------
\* A message is received byte by byte, and names are read from every place in it.
VARIABLE message

NamesInit == message = <<>>
Receive(b) == message' = Append(message, b)
NamesNext == \E b \in 0 .. Byte - 1 : Receive(b)
NamesSpec == NamesInit /\ [][NamesNext]_message

\* A name followed from label to label: the labels and pointers passed so far.
Follow(buf, e) ==
  LET ch == buf[e.pos + 1]
  IN  IF e.at # "on" THEN e
      ELSE IF \/ e.pos >= Len(buf)
              \/ ch >= Ptr /\ e.pos + 1 >= Len(buf)
              \/ ch < Ptr /\ (ch >= Bad \/ e.pos + ch >= Len(buf))
      THEN [e EXCEPT !.at = "none"]
      ELSE IF ch >= Ptr THEN [e EXCEPT !.pos = Where(buf, e.pos), !.hops = @ + 1]
      ELSE IF ch = 0 THEN [e EXCEPT !.at = "name"]
      ELSE [e EXCEPT !.pos = @ + ch + 1, !.labels = Append(@, SubSeq(buf, e.pos + 2, e.pos + ch + 1))]

\* after as many labels and pointers as there may be bytes
Expansion(buf, pos0) ==
  LET ex[k \in 0 .. LoopMax] ==
        IF k = 0 THEN [at |-> "on", pos |-> pos0, labels |-> <<>>, hops |-> 0] ELSE Follow(buf, ex[k - 1])
  IN  ex[LoopMax]

\* dns_packet_getname finds the name that following the pointers from label to
\* label gives, and fails only when there is none, when it is too long, or when
\* it takes too many steps: pointers that go round always end in failure, and
\* what is found fits the array (dns_packet.c:39-85).
NameIsExpansion ==
  \A pos \in 0 .. Len(message) :
    \E g \in {GetName(message, pos)}, e \in {Expansion(message, pos)} :
      /\ g.pos # 0 <=> /\ e.at = "name"
                       /\ Len(Wire(e.labels)) <= NameMax
                       /\ Len(Wire(e.labels)) + e.hops < LoopMax
      /\ g.pos # 0 => g.name = Wire(e.labels)

\* The parsers of the answers step over a name with one function and read it with
\* the other: both go on at the same place, behind the name and in the packet
\* (dns_packet.c:22-37, 79).
SkipAgreesWithGet ==
  \A pos \in 0 .. Len(message) :
    GetName(message, pos).pos # 0 =>
      /\ GetName(message, pos).pos = SkipName(message, pos)
      /\ SkipName(message, pos) \in pos + 1 .. Len(message)

\* dns_packet_copy never goes beyond the packet, wherever skipname or a length
\* taken from the packet has moved the position.
CopyInPacket ==
  \A pos \in 0 .. Len(message), n \in 1 .. 3 : PacketCopy(message, SkipName(message, pos), n) <= Len(message)

\* A name in a packet is read as its pointers spell it, stepped over to where it was
\* read to, and nothing behind the packet is copied (dns_packet.c:22-85).
NamesAreRead == NameIsExpansion /\ SkipAgreesWithGet /\ CopyInPacket
=============================================================================
