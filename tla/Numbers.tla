------------------------------ MODULE Numbers ------------------------------
(***************************************************************************)
(* Numbers written and read (fmt.c, scan.c).  A text is a sequence of      *)
(* character codes; behind its end is the terminator.  The words of the    *)
(* machine are constants: ULong is 2^64 in the program, UInt is 2^32.      *)
(***************************************************************************)
EXTENDS Integers, Sequences, SequencesExt

CONSTANTS ULong, UInt

ASSUME NumbersAssumption == UInt \in Nat \ {0} /\ ULong \in Nat \ {0} /\ ULong % UInt = 0

At(s, p) == IF p \in DOMAIN s THEN s[p] ELSE 0

DecDigits == 48 .. 57
OctDigits == 48 .. 55

\* fromhex, or -1
FromHex(c) ==
  CASE c \in 48 .. 57 -> c - 48
    [] c \in 65 .. 70 -> c - 55
    [] c \in 97 .. 102 -> c - 87
    [] OTHER -> -1
HexDigits == {c \in 0 .. 255 : FromHex(c) >= 0}

\* tohex
ToHex(v) == IF v < 10 THEN 48 + v ELSE 87 + v

\* how many characters of D are at p
Run(s, p, D) ==
  CHOOSE n \in 0 .. Len(s) : At(s, p + n) \notin D /\ \A d \in 0 .. n - 1 : At(s, p + d) \in D

\* a run of digits as a number in a word that wraps
Value(s, p, n, base, word) ==
  LET v[d \in 0 .. n] == IF d = 0 THEN 0 ELSE (v[d - 1] * base + FromHex(s[p + d - 1])) % word
  IN  v[n]

-----------------------------------------------------------------------------
\* scan_ulong: digits taken, and the number
ScanULong(s, p) == LET n == Run(s, p, DecDigits) IN [n |-> n, u |-> Value(s, p, n, 10, ULong)]

\* scan_uint: the number cut to an unsigned int
ScanUInt(s, p) == [n |-> ScanULong(s, p).n, u |-> ScanULong(s, p).u % UInt]

Scan8Long(s, p) == LET n == Run(s, p, OctDigits) IN [n |-> n, u |-> Value(s, p, n, 8, ULong)]

Scan0x(s, p) == LET n == Run(s, p, HexDigits) IN [n |-> n, u |-> Value(s, p, n, 16, ULong) % UInt]

\* scan_xlong: a signed int, extended to an unsigned long
ScanXLong(s, p) ==
  LET n == Run(s, p, HexDigits)
      l == Value(s, p, n, 16, UInt)
  IN  [n |-> n, u |-> IF l < UInt \div 2 THEN l ELSE ULong - UInt + l]

\* faulty variant of ScanXInt: looks at the word when it is too late
ScanXIntLate(s, p) ==
  LET n == Run(s, p, HexDigits)
  IN  [n |-> n, u |-> Value(s, p, n, 16, UInt)]

\* scan_xint: ends before a digit that would push the first one out
ScanXInt(s, p) ==
  LET all == Run(s, p, HexDigits)
      n == CHOOSE k \in 0 .. all :
             /\ \A d \in 0 .. k - 1 : Value(s, p, d, 16, UInt) < UInt \div 16
             /\ k = all \/ Value(s, p, k, 16, UInt) >= UInt \div 16
  IN  [n |-> n, u |-> Value(s, p, n, 16, UInt)]

-----------------------------------------------------------------------------
\* the digits of u in a base
Digits(u, base) ==
  LET d[v \in Nat] ==
        IF v < base THEN <<ToHex(v)>> ELSE Append(d[v \div base], ToHex(v % base))
  IN  d[u]

FmtULong(u) == Digits(u, 10)
FmtXLong(u) == Digits(u, 16)
FmtUInt(u) == FmtULong(u)

\* fmt_uint0: zeros in front, up to n characters
FmtUInt0(u, n) == LET d == FmtUInt(u) IN [j \in 1 .. n - Len(d) |-> 48] \o d

\* fmt_str, fmt_strn: what is before the terminator, n characters at most
FmtStrN(t, n) == LET k == CHOOSE k \in 0 .. Len(t) : At(t, k + 1) = 0 /\ \A d \in 1 .. k : t[d] # 0
                 IN  SubSeq(t, 1, IF n < k THEN n ELSE k)
FmtStr(t) == FmtStrN(t, Len(t))
=============================================================================
