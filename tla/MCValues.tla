------------------------------ MODULE MCValues ------------------------------
(***************************************************************************)
(* The pure algorithms, each driven by itself: addresses as text (part     *)
(* "text"), lists of servers and random words ("sort"), numbers of a small *)
(* machine ("numbers"), bytes packed and as base64 ("bytes"), and strings  *)
(* in a small memory ("memory").                                           *)
(***************************************************************************)
EXTENDS IpText, DnsSort, FiniteSets

CONSTANTS SmallLong, SmallInt, Bytes8, BytesMax, Letters

VARIABLES part, bytes

Small == INSTANCE Numbers WITH ULong <- SmallLong, UInt <- SmallInt
Bits4 == INSTANCE Packed WITH Byte <- 4
Char == INSTANCE Packed WITH Byte <- 256
Str == INSTANCE Strings

-----------------------------------------------------------------------------
\* part "text"
CONSTANTS Groups, V4s, Behinds

MCV4s == {<<1, 20, 255, 0>>}
MCBehinds == {<<>>, <<32>>, <<37, 48>>, <<93>>, <<58, 120>>}

VARIABLES pre, gap, suf, v4

textvars == <<pre, gap, suf, v4>>

Total == Len(pre) + Len(suf) + Len(v4) \div 2

TextInit == pre = <<>> /\ gap = FALSE /\ suf = <<>> /\ v4 = <<>>

Group1(g) ==
  /\ ~gap /\ v4 = <<>> /\ Total < 8
  /\ pre' = Append(pre, g) /\ UNCHANGED <<gap, suf, v4>>

DoubleColon ==
  /\ ~gap /\ v4 = <<>> /\ Total < 8
  /\ gap' = TRUE /\ UNCHANGED <<pre, suf, v4>>

Group2(g) ==
  /\ gap /\ v4 = <<>> /\ Total < 7
  /\ suf' = Append(suf, g) /\ UNCHANGED <<pre, gap, v4>>

EndsWithV4(ip) ==
  /\ v4 = <<>>
  /\ IF gap THEN Total <= 5 ELSE Total = 6
  /\ v4' = ip /\ UNCHANGED <<pre, gap, suf>>

TextNext == \/ \E g \in Groups : Group1(g) \/ Group2(g)
            \/ DoubleColon
            \/ \E ip \in V4s : EndsWithV4(ip)
-----------------------------------------------------------------------------
\* part "numbers"
CONSTANTS Chars, TextMax

VARIABLES text, number

numbervars == <<text, number>>

NumbersInit == text = <<>> /\ number = 0

GrowText(c) ==
  /\ number = 0 /\ Len(text) < TextMax
  /\ text' = Append(text, c) /\ UNCHANGED number

Count ==
  /\ text = <<>> /\ number < SmallLong - 1
  /\ number' = number + 1 /\ UNCHANGED text

NumbersNext == Count \/ \E c \in Chars : GrowText(c)
-----------------------------------------------------------------------------
Init == /\ part \in {"text", "sort", "numbers", "bytes", "memory"}
        /\ TextInit /\ SortInit /\ NumbersInit /\ bytes = <<>>

GrowBytes(b) == b \in (IF part = "memory" THEN Letters ELSE Bytes8) /\ part \in {"bytes", "memory"} /\ Len(bytes) < BytesMax /\ bytes' = Append(bytes, b)

Next ==
  /\ UNCHANGED part
  /\ \/ part = "text" /\ TextNext /\ UNCHANGED <<sortvars, numbervars, bytes>>
     \/ part = "sort" /\ SortNext /\ UNCHANGED <<textvars, numbervars, bytes>>
     \/ part = "numbers" /\ NumbersNext /\ UNCHANGED <<textvars, sortvars, bytes>>
     \/ (\E b \in Bytes8 \cup Letters : GrowBytes(b)) /\ UNCHANGED <<textvars, sortvars, numbervars>>

Spec == Init /\ [][Next]_<<part, textvars, sortvars, numbervars, bytes>>
-----------------------------------------------------------------------------
Complete == gap \/ Total = 8

HexText(gs) == [k \in DOMAIN gs |-> FmtXLong(gs[k])]
V4Text == IF v4 = <<>> THEN <<>> ELSE <<Ip4Fmt(v4)>>
Text == IF gap THEN Join(HexText(pre), Colon) \o <<Colon, Colon>> \o Join(HexText(suf) \o V4Text, Colon)
        ELSE Join(HexText(pre) \o V4Text, Colon)

Bytes(gs) == FlattenSeq([k \in DOMAIN gs |-> Group(gs[k])])
Address == Bytes(pre) \o Zeros(16 - 2 * Total) \o Bytes(suf) \o v4

\* ip6_scan reads the address of every text of the forms ip.h:61-69 describes,
\* to its end and whatever follows it (ip6.c:157-240).
EveryFormIsRead ==
  Complete => \A c \in Behinds :
    LET r == Ip6Scan(Text \o c, 1)
    IN  /\ r.ip = Address
        /\ r.n = Len(Text) - (IF gap /\ suf = <<>> /\ v4 = <<>> /\ At(c, 1) # Colon THEN 1 ELSE 0)

\* the compact form: the groups i to j, the first that is 0 with a 0 behind it and all
\* that follow on it, are left out
Compact(ip, beyond) ==
  LET w == [k \in 1 .. 9 |-> IF k = 9 THEN beyond ELSE Word(ip, k)]
      runs == {k \in 1 .. 8 : w[k] = 0 /\ w[k + 1] = 0}
      i == Min(runs)
      j == Max({k \in i .. 8 : \A l \in i .. k : w[l] = 0})
      mapped == IsV4Mapped(ip)
      Hexes(from, to) == [k \in 1 .. to - from + 1 |-> FmtXLong(w[from + k - 1])]
      last == IF mapped THEN Hexes(6, 6) \o <<Ip4Fmt(SubSeq(ip, 13, 16))>> ELSE Hexes(j + 1, 8)
  IN  IF runs = {} THEN Join(Hexes(1, 8), Colon)
      ELSE Join(Hexes(1, i - 1), Colon) \o <<Colon, Colon>> \o Join(last, Colon)

\* What ip6_fmt makes of an address is its compact form, and is read back as the
\* same address, whatever is in memory behind the array; so are the flat form and
\* the dotted one, and no text is longer than the 40 bytes the socket code keeps
\* for it.  Not the longest run of zeros is left out but the first, and a single
\* zero at the end is left out too when a 0 is behind the array (ip6.c:34-76;
\* ip.h:66-68 say otherwise).
WrittenAddressIsRead ==
  Complete =>
    /\ \A beyond \in {0, 1} :
         /\ Ip6Fmt(Address, beyond) = Compact(Address, beyond)
         /\ Ip6Scan(Ip6Fmt(Address, beyond), 1).ip = Address
         /\ Len(Ip6Fmt(Address, beyond)) <= 40
    /\ Ip6ScanFlat(Ip6FmtFlat(Address)) = [n |-> 32, ip |-> Address]
    /\ LET ip4 == SubSeq(Address, 13, 16)
       IN  Ip4Scan(Ip4Fmt(ip4) \o <<Colon>>, 1) = [n |-> Len(Ip4Fmt(ip4)), ip |-> ip4]

\* An address in brackets is taken with its brackets and refused without the second,
\* but an IPv6 address that ends in a double colon is always refused, as ip6_scan
\* counts one character less of it (ip6.c:216, 257).  With the length of a prefix
\* it is read to the slash, and the bits of a longer prefix begin with those of a
\* shorter one (ip4.c:96-165, ip6.c:245-360).
PartsOfText ==
  Complete =>
    LET ip4 == SubSeq(Address, 13, 16) IN
    /\ Ip4ScanBracket(<<Open>> \o Ip4Fmt(ip4) \o <<Close>>) = Len(Ip4Fmt(ip4)) + 2
    /\ Ip4ScanBracket(<<Open>> \o Ip4Fmt(ip4) \o <<Dot>>) = 0
    /\ Ip6ScanBracket(<<Open>> \o Text \o <<Close>>) =
         IF gap /\ suf = <<>> /\ v4 = <<>> THEN 0 ELSE Len(Text) + 2
    /\ Ip6ScanBracket(<<Open>> \o Text \o <<Slash>>) = 0
    /\ Ip4Cidr(Ip4Fmt(ip4) \o <<Slash, 49, 53>>).plen = 15
    /\ Ip6Cidr(Text \o <<Slash, 54, 52>>).ip = Address /\ Ip6Cidr(Text).plen = 128
    /\ \A p \in 0 .. 128 : Bits(Address, p) = SubSeq(Bits(Address, 128), 1, Len(Bits(Address, p)))
    /\ \A p \in 1 .. 16 :
         FoldLeft(LAMBDA v, b : 2 * v + b, 0, SubSeq(Bits(Address, 128), 8 * p - 7, 8 * p)) = Address[p]

-----------------------------------------------------------------------------
\* the number the first n characters of the text stand for, in no word at all
Exact(s, n, base) ==
  LET v[k \in Nat] == IF k = 0 THEN 0 ELSE v[k - 1] * base + Small!FromHex(s[k]) IN v[n]

\* What the writers make of any number the readers take back whole, and stop at
\* what follows it: this is how addresses and names of interfaces are written
\* and read again (fmt.c:44-66, scan.c:59-85).
NumbersAreRead == part = "numbers" =>
  /\ Small!ScanULong(Small!FmtULong(number) \o <<46>>, 1) = [n |-> Len(Small!FmtULong(number)), u |-> number]
  /\ number < SmallInt =>
       /\ Small!ScanUInt(Small!FmtUInt(number), 1).u = number
       /\ Small!ScanXInt(Small!FmtXLong(number), 1).u = number
       /\ Small!Scan0x(Small!FmtXLong(number), 1).u = number
  /\ number < SmallInt \div 2 => Small!ScanXLong(Small!FmtXLong(number), 1).u = number
  /\ \A n \in 0 .. 4 :
       LET w == Small!FmtUInt0(number, n)
       IN  /\ Len(w) = (IF n > Len(Small!FmtUInt(number)) THEN n ELSE Len(Small!FmtUInt(number)))
           /\ Small!ScanULong(w, 1) = [n |-> Len(w), u |-> number]

\* The readers without a test of the size take every digit, and their number is
\* right to the width of the word; scan_xint takes as many digits as fit and
\* never a wrong number (scan.c:41-71, 87-100).
WidthOfNumbers == part = "numbers" =>
  /\ \A r \in {<<Small!ScanULong(text, 1), 10, SmallLong, Small!DecDigits>>, <<Small!ScanUInt(text, 1), 10, SmallInt, Small!DecDigits>>,
              <<Small!Scan8Long(text, 1), 8, SmallLong, Small!OctDigits>>, <<Small!Scan0x(text, 1), 16, SmallInt, Small!HexDigits>>} :
       /\ r[1].u = Exact(text, r[1].n, r[2]) % r[3]
       /\ Small!At(text, r[1].n + 1) \notin r[4]
  /\ LET x == Small!ScanXInt(text, 1)
     IN  /\ x.u = Exact(text, x.n, 16)
         /\ Small!At(text, x.n + 1) \in Small!HexDigits => Exact(text, x.n + 1, 16) >= SmallInt

-----------------------------------------------------------------------------
\* Integers of all widths come back from their bytes, the two orders of bytes mirror
\* each other, and a number that is too wide loses its high bytes and nothing else
\* (uint16p.c, uint32p.c, uint64p.c, uint128p.c).
IntegersComeBack ==
  LET n == Len(bytes)
      s == [k \in 1 .. 8 |-> IF k > 8 - n THEN bytes[k + n - 8] % 4 ELSE 0]
      r == Reverse(s)
      u == Bits4!Uint64UnpackBig(s)
      wide == [hi |-> u, lo |-> Bits4!Uint64Unpack(s)]
  IN  part = "bytes" =>
        /\ \A f \in {<<2, Bits4!Uint16PackBig(u), Bits4!Uint16Pack(u), Bits4!Uint16UnpackBig(r), Bits4!Uint16Unpack(r)>>,
                    <<4, Bits4!Uint32PackBig(u), Bits4!Uint32Pack(u), Bits4!Uint32UnpackBig(r), Bits4!Uint32Unpack(r)>>,
                    <<8, Bits4!Uint64PackBig(u), Bits4!Uint64Pack(u), Bits4!Uint64UnpackBig(r), Bits4!Uint64Unpack(r)>>} :
             /\ f[2] = SubSeq(s, 9 - f[1], 8) /\ f[3] = Reverse(f[2])
             /\ Bits4!PackBig(f[4], f[1]) = SubSeq(r, 1, f[1])
             /\ Bits4!PackLittle(f[5], f[1]) = SubSeq(r, 1, f[1])
        /\ Bits4!Unpack128Big(Bits4!Pack128Big(wide)) = wide /\ Bits4!Unpack128(Bits4!Pack128(wide)) = wide
        /\ Bits4!Pack128(wide) = Reverse(Bits4!Pack128Big(wide))

\* What base64 makes of any bytes gives these bytes again, from any of its fours on,
\* and fits into what is made ready for it (base64.c:18-124).
Base64ComesBack ==
  part = "bytes" =>
    LET t == Char!Encode(bytes)
    IN  /\ Char!Decode(t) = bytes
        /\ Len(t) <= Char!EncodeRoom(bytes) /\ Len(t) % 4 = 0
        /\ \A g \in 0 .. (Len(t) \div 4) - 2 : Char!Decode(SubSeq(t, 4 * g + 1, Len(t))) = SubSeq(bytes, 3 * g + 1, Len(bytes))

-----------------------------------------------------------------------------
memory == [k \in 0 .. Len(bytes) - 1 |-> bytes[k + 1]]

\* the places a string begins at: a 0 follows
Begins == {p \in DOMAIN memory : \E e \in DOMAIN memory : e >= p /\ memory[e] = 0}
StringAt(m, p) == [k \in 1 .. Str!StrLen(m, p) |-> m[p + k - 1]]

\* Bytes moved to the left with byte_copy and to the right with byte_copyr arrive as
\* they were, although the places overlap, and no other byte changes: buffer_feed moves
\* what it has read to the end of its buffer, dns_ip4_qualify a name over itself
\* (byte.c:29-50, buffer.c, dns_ipq.c).  A string that is copied arrives as well, cut
\* off only by str_copyb, when it does not lie behind the place (str.c:11-42).
CopiesArrive ==
  part = "memory" =>
    LET size == Len(bytes)
        moved(x, to, n, from) ==
          x = [p \in DOMAIN memory |-> IF p \in to .. to + n - 1 THEN memory[p - to + from] ELSE memory[p]]
    IN  /\ \A n \in 0 .. size : \A to, from \in 0 .. size - n :
             /\ to <= from \/ to >= from + n => moved(Str!ByteCopy(memory, to, n, from), to, n, from)
             /\ to >= from \/ from >= to + n => moved(Str!ByteCopyR(memory, to, n, from), to, n, from)
        /\ \A s \in DOMAIN memory, t \in Begins, max \in 0 .. 2 :
             LET len == Str!StrLen(memory, t)
                 whole == Str!StrCopy(memory, s, t)
                 some == Str!StrCopyB(memory, s, t, max)
             IN  (s <= t \/ s > t + len) /\ s + len < size =>
                   /\ StringAt(whole.mem, s) = StringAt(memory, t) /\ whole.len = len
                   /\ SubSeq(StringAt(some.mem, s), 1, some.len) = SubSeq(StringAt(memory, t), 1, some.len)

\* The comparisons order strings, each is the other's mirror, and they agree: those with
\* a length with those without, the beginnings with the comparisons, those without
\* regard to case with the others on text in lower case.  From the right, strings are
\* equal when one is the end of the other (byte.c:52-62, str.c:44-75, 137-150,
\* case.c:10-60, 104-140).
ComparisonsAgree ==
  part = "memory" =>
    LET low == Str!CaseLowerB(memory, 0, Len(bytes)) IN
    /\ Str!CaseLowerB(Str!CaseUpperB(memory, 0, Len(bytes)), 0, Len(bytes)) = low
    /\ \A s, t \in Begins :
         LET a == StringAt(memory, s)
             b == StringAt(memory, t)
             d == Str!StrDiff(memory, s, t)
             lows == StringAt(low, s)
             lowt == StringAt(low, t)
         IN  /\ d = -Str!StrDiff(memory, t, s) /\ (d = 0 <=> a = b)
             /\ \A u \in Begins : d < 0 /\ Str!StrDiff(memory, t, u) < 0 => Str!StrDiff(memory, s, u) < 0
             /\ \A n \in 0 .. Len(a) + 1 :
                  /\ Str!StrDiffN(memory, s, t, n) = 0 <=> (d = 0 \/ (n <= Len(b) /\ Str!ByteDiff(memory, s, n, t) = 0))
                  /\ n <= Len(b) => Str!CaseDiffB(memory, s, n, t) = Str!ByteDiff(low, s, n, t)
             /\ Str!CaseDiffS(memory, s, t) = Str!StrDiff(low, s, t)
             /\ Str!StrStart(memory, s, t) <=> Str!StrDiffN(memory, s, t, Len(b)) = 0
             /\ Str!CaseStartS(memory, s, t) <=> Str!StrStart(low, s, t)
             /\ Str!CaseDiffRS(memory, s, t) = 0 <=> IsSuffix(lows, lowt) \/ IsSuffix(lowt, lows)
             /\ Str!CaseLowerS(memory, s) = Str!CaseLowerB(memory, s, Len(a))

-----------------------------------------------------------------------------
\* What is written as text, as bytes or as base64 comes back as the number or the bytes
\* it was, to the width of its type; strings and bytes arrive where they are copied to,
\* and are compared as the text they are (fmt.c, scan.c, uint16p.c to uint128p.c,
\* base64.c, byte.c, str.c, case.c).
ValuesComeBack ==
  /\ NumbersAreRead /\ WidthOfNumbers /\ IntegersComeBack /\ Base64ComesBack
  /\ CopiesArrive /\ ComparisonsAgree

\* Addresses are read in every form they are written in: by themselves, in brackets
\* unless they end in a double colon, with the lengths of their prefixes (ip4.c, ip6.c).
AddressesComeBack == EveryFormIsRead /\ WrittenAddressIsRead /\ PartsOfText
=============================================================================
