------------------------------- MODULE IpText -------------------------------
(***************************************************************************)
(* IPv4 and IPv6 addresses as text (ip4.c, ip6.c).  An address is a        *)
(* sequence of 4 or 16 bytes; what a reader leaves in the array when it    *)
(* fails is not modelled, no caller looks at it.                           *)
(***************************************************************************)
EXTENDS Numbers

Dot == 46
Colon == 58
No == [n |-> 0, ip |-> <<>>]

Zeros(n) == [j \in 1 .. n |-> 0]
Mapped(ip4) == Zeros(10) \o <<255, 255>> \o ip4
IsV4Mapped(ip) == SubSeq(ip, 1, 12) = Zeros(10) \o <<255, 255>>

-----------------------------------------------------------------------------
\* ip4_scan: where each of the four numbers begins, 0 when a dot or a number is
\* missing; a number is cut to a byte
Ip4Scan(s, p) ==
  LET at[k \in 1 .. 4] ==
        IF k = 1 THEN p
        ELSE LET n == Run(s, at[k - 1], DecDigits)
             IN  IF at[k - 1] # 0 /\ n > 0 /\ At(s, at[k - 1] + n) = Dot THEN at[k - 1] + n + 1 ELSE 0
      last == Run(s, at[4], DecDigits)
  IN  IF at[4] = 0 \/ last = 0 THEN No
      ELSE [n |-> at[4] + last - p, ip |-> [k \in 1 .. 4 |-> ScanULong(s, at[k]).u % 256]]

Join(parts, sep) ==
  FlattenSeq([k \in DOMAIN parts |-> IF k = 1 THEN parts[k] ELSE <<sep>> \o parts[k]])

\* ip4_fmt
Ip4Fmt(ip) == Join([k \in 1 .. 4 |-> FmtULong(ip[k])], Dot)

\* ia4_fmt: a byte is a signed char here, and becomes an unsigned long
Ia4Fmt(ip) ==
  Join([k \in 1 .. 4 |-> LET b == ip[5 - k] IN FmtULong(IF b < 128 THEN b ELSE ULong - 256 + b)], Dot)
    \o <<46, 105, 110, 45, 97, 100, 100, 114, 46, 97, 114, 112, 97, 46>>

-----------------------------------------------------------------------------
Group(u) == <<(u \div 256) % 256, u % 256>>

\* ip6_scan: the bytes in front of a gap and those behind it
Behind(pre, suf) == pre \o Zeros(16 - Len(pre) - Len(suf)) \o suf

\* ip6_scan, part 2: behind a double colon.  What is read is p - p0 characters; one
\* less when no number follows a colon, or the double colon.
Part2(s, p0, p1, pre) ==
  LET tail[p \in Nat, suf \in Seq(Nat)] ==
        LET colon == At(s, p) = Colon
            g == IF colon THEN p + 1 ELSE p
            x == ScanXLong(s, g)
            v4 == IF Len(pre) + Len(suf) <= 12 /\ At(s, g + x.n) = Dot THEN Ip4Scan(s, g) ELSE No
            more == suf \o Group(x.u)
        IN  IF colon <=> (suf = <<>>) THEN [n |-> p - p0, ip |-> Behind(pre, suf)]
            ELSE IF x.n = 0 THEN [n |-> g - 1 - p0, ip |-> Behind(pre, suf)]
            ELSE IF v4.n # 0 THEN [n |-> g + v4.n - p0, ip |-> Behind(pre, suf \o v4.ip)]
            ELSE IF Len(pre) + Len(more) = 16 THEN [n |-> g + x.n - p0, ip |-> Behind(pre, more)]
            ELSE tail[g + x.n, more]
  IN  tail[p1, <<>>]

\* ip6_scan, part 1: up to a double colon
Part1(s, p0) ==
  LET head[p \in Nat, pre \in Seq(Nat)] ==
        LET g == IF At(s, p) = Colon THEN p + 1 ELSE p
            x == ScanXLong(s, g)
            v4 == Ip4Scan(s, g)
            more == pre \o Group(x.u)
        IN  IF At(s, p) = Colon /\ At(s, p + 1) = Colon THEN Part2(s, p0, p + 2, pre)
            ELSE IF x.n = 0 THEN No
            ELSE IF Len(pre) = 12 /\ At(s, g + x.n) = Dot
            THEN IF v4.n = 0 THEN No ELSE [n |-> g + v4.n - p0, ip |-> pre \o v4.ip]
            ELSE IF Len(more) = 16 THEN [n |-> g + x.n - p0, ip |-> more]
            ELSE head[g + x.n, more]
  IN  head[p0, <<>>]

\* ip6_scan: an IPv4 address is mapped
Ip6Scan(s, p) ==
  LET v4 == Ip4Scan(s, p) IN IF v4.n # 0 THEN [n |-> v4.n, ip |-> Mapped(v4.ip)] ELSE Part1(s, p)

Word(ip, k) == ip[2 * k - 1] * 256 + ip[2 * k]

\* faulty variant of Ip6Fmt: a second run of zeros is compressed too
Ip6FmtTwice(ip, beyond) ==
  LET w == [k \in 1 .. 9 |-> IF k = 9 THEN beyond ELSE Word(ip, k)]
      fmt[k \in 1 .. 9, run \in BOOLEAN, done \in BOOLEAN, out \in Seq(Nat)] ==
        IF k = 9 THEN IF run THEN Append(out, Colon) ELSE out
        ELSE IF k = 7 /\ IsV4Mapped(ip) THEN out \o Ip4Fmt(SubSeq(ip, 13, 16))
        ELSE IF w[k] = 0 /\ (run \/ w[k + 1] = 0)
        THEN fmt[k + 1, TRUE, done, IF k = 1 THEN Append(out, Colon) ELSE out]
        ELSE fmt[k + 1, FALSE, done \/ run,
                 out \o (IF run THEN <<Colon>> ELSE <<>>) \o FmtXLong(w[k]) \o (IF k < 8 THEN <<Colon>> ELSE <<>>)]
  IN  fmt[1, FALSE, FALSE, <<>>]

\* ip6_fmt: the first run of two or more zero groups becomes a double colon; the
\* group compared with the last one is beyond the array
Ip6Fmt(ip, beyond) ==
  LET w == [k \in 1 .. 9 |-> IF k = 9 THEN beyond ELSE Word(ip, k)]
      fmt[k \in 1 .. 9, run \in BOOLEAN, done \in BOOLEAN, out \in Seq(Nat)] ==
        IF k = 9 THEN IF run THEN Append(out, Colon) ELSE out
        ELSE IF k = 7 /\ IsV4Mapped(ip) THEN out \o Ip4Fmt(SubSeq(ip, 13, 16))
        ELSE IF w[k] = 0 /\ (run \/ w[k + 1] = 0) /\ ~done
        THEN fmt[k + 1, TRUE, done, IF k = 1 THEN Append(out, Colon) ELSE out]
        ELSE fmt[k + 1, FALSE, done \/ run,
                 out \o (IF run THEN <<Colon>> ELSE <<>>) \o FmtXLong(w[k]) \o (IF k < 8 THEN <<Colon>> ELSE <<>>)]
  IN  fmt[1, FALSE, FALSE, <<>>]

-----------------------------------------------------------------------------
Open == 91
Close == 93
Slash == 47

\* ip4_scanbracket, ip6_scanbracket: the characters of an address in brackets, or 0
ScanBracket(s, scan) ==
  IF At(s, 1) # Open \/ scan.n = 0 \/ At(s, scan.n + 2) # Close THEN 0 ELSE scan.n + 2
Ip4ScanBracket(s) == ScanBracket(s, Ip4Scan(s, 2))
Ip6ScanBracket(s) == ScanBracket(s, Ip6Scan(s, 2))

\* ip4_cidr, ip6_cidr: the text is cut at a slash; the length of the prefix is what
\* follows, or all bits
Cidr(s, all) ==
  LET at == SelectInSeq(s, LAMBDA c : c = Slash)
  IN  IF at = 0 THEN [text |-> s, plen |-> all]
      ELSE [text |-> SubSeq(s, 1, at - 1), plen |-> ScanULong(s, at + 1).u]
Ip4Cidr(s) == Ip4Scan(Cidr(s, 32).text, 1) @@ [plen |-> Cidr(s, 32).plen]
Ip6Cidr(s) == Ip6Scan(Cidr(s, 128).text, 1) @@ [plen |-> Cidr(s, 128).plen]

Bit(ip, b) == (ip[b \div 8 + 1] \div 2^(7 - (b % 8))) % 2

\* ip4_bytestring, ip6_bytestring: the length is looked at behind each bit
Bits(ip, prefix) ==
  [b \in 1 .. (IF prefix < 8 * Len(ip) THEN prefix + 1 ELSE 8 * Len(ip)) |-> Bit(ip, b - 1)]

\* ip6_fmt_flat, ip6_scan_flat
Ip6FmtFlat(ip) == FlattenSeq([j \in 1 .. 16 |-> <<ToHex(ip[j] \div 16), ToHex(ip[j] % 16)>>])
Ip6ScanFlat(s) ==
  IF \E j \in 1 .. 32 : FromHex(At(s, j)) < 0 THEN No
  ELSE [n |-> 32, ip |-> [j \in 1 .. 16 |-> 16 * FromHex(s[2 * j - 1]) + FromHex(s[2 * j])]]

\* ia6_fmt: fmt_str copies the table of digits from the digit to its end
Ia6Fmt(ip) ==
  LET Table(v) == [d \in 1 .. 16 - v |-> ToHex(v + d - 1)]
  IN  FlattenSeq([j \in 1 .. 16 |-> Table(ip[17 - j] % 16) \o <<Dot>> \o Table(ip[17 - j] \div 16) \o <<Dot>>])
        \o <<105, 112, 54, 46, 97, 114, 112, 97, 46>>
=============================================================================
