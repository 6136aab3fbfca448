------------------------------ MODULE Strings ------------------------------
(***************************************************************************)
(* Bytes and 0-terminated strings (byte.c, str.c, case.c).  Memory is a    *)
(* function from places to unsigned bytes; an argument of type char * is a *)
(* place, so that arguments may overlap.  The loops, unrolled by four in   *)
(* the code, go byte by byte in the order of the code.                     *)
(***************************************************************************)
EXTENDS Integers, Sequences, FiniteSets, SequencesExt

\* the first of n steps at which a loop stops, or n
StopsAt(n, Stop(_)) == CHOOSE d \in 0 .. n : (d = n \/ Stop(d)) /\ \A e \in 0 .. d - 1 : ~Stop(e)

\* the last of n steps at which something is seen, or n
LastSeen(n, Seen(_)) ==
  IF \A d \in 0 .. n - 1 : ~Seen(d) THEN n
  ELSE CHOOSE d \in 0 .. n - 1 : Seen(d) /\ \A e \in d + 1 .. n - 1 : ~Seen(e)

Counting(n) == [k \in 1 .. n |-> k - 1]
Moved(m, to, from, k) == [m EXCEPT ![to + k] = m[from + k]]

ByteChr(m, s, n, c) == StopsAt(n, LAMBDA d : m[s + d] = c)
ByteRchr(m, s, n, c) == LastSeen(n, LAMBDA d : m[s + d] = c)

ByteCopy(m, to, n, from) == FoldLeft(LAMBDA x, k : Moved(x, to, from, k), m, Counting(n))

\* faulty variant of ByteCopyR: from the front
ByteCopyForward(m, to, n, from) == ByteCopy(m, to, n, from)

\* from the end
ByteCopyR(m, to, n, from) == FoldRight(LAMBDA k, x : Moved(x, to, from, k), Counting(n), m)

ByteDiff(m, s, n, t) ==
  LET d == StopsAt(n, LAMBDA k : m[s + k] # m[t + k]) IN IF d = n THEN 0 ELSE m[s + d] - m[t + d]

ByteFill(m, s, n, c) == [p \in DOMAIN m |-> IF p \in s .. s + n - 1 THEN c ELSE m[p]]
ByteZero(m, s, n) == ByteFill(m, s, n, 0)

-----------------------------------------------------------------------------
\* the bytes of memory from s on
Rest(m, s) == Cardinality({p \in DOMAIN m : p >= s})

StrLen(m, s) == StopsAt(Rest(m, s), LAMBDA d : m[s + d] = 0)

\* the string with the 0 behind it
StrCopy(m, s, t) == [len |-> StrLen(m, t), mem |-> ByteCopy(m, s, StrLen(m, t) + 1, t)]

\* max counts rounds of four bytes
StrCopyB(m, s, t, max) ==
  IF StrLen(m, t) < 4 * max THEN StrCopy(m, s, t)
  ELSE [len |-> 4 * max, mem |-> ByteCopy(m, s, 4 * max, t)]

StrChr(m, s, c) == ByteChr(m, s, StrLen(m, s), c)
StrRchr(m, s, c) == ByteRchr(m, s, StrLen(m, s), c)

StrDiff(m, s, t) ==
  LET d == StopsAt(StrLen(m, s), LAMBDA k : m[s + k] # m[t + k]) IN m[s + d] - m[t + d]

StrDiffN(m, s, t, len) ==
  LET d == StopsAt(StrLen(m, s), LAMBDA k : m[s + k] # m[t + k]) IN IF d >= len THEN 0 ELSE m[s + d] - m[t + d]

\* does s begin with t
StrStart(m, s, t) == StopsAt(StrLen(m, t), LAMBDA k : m[s + k] # m[t + k]) = StrLen(m, t)

-----------------------------------------------------------------------------
\* how comparisons read a byte: in lower case
Folded(c) == LET x == (c - 65) % 256 IN IF x <= 25 THEN (x + 97) % 256 ELSE (x + 65) % 256

Differ(m, p, r) == Folded(m[p]) # Folded(m[r])
Difference(m, p, r) == Folded(m[p]) - Folded(m[r])

CaseDiffB(m, s, len, t) ==
  LET d == StopsAt(len, LAMBDA k : Differ(m, s + k, t + k)) IN IF d = len THEN 0 ELSE Difference(m, s + d, t + d)

CaseDiffS(m, s, t) ==
  LET d == StopsAt(StrLen(m, s), LAMBDA k : Differ(m, s + k, t + k)) IN Difference(m, s + d, t + d)

\* from the ends, until one of them is used up
CaseDiffRS(m, s, t) ==
  LET i == s + StrLen(m, s) - 1
      j == t + StrLen(m, t) - 1
      both == IF StrLen(m, s) < StrLen(m, t) THEN StrLen(m, s) ELSE StrLen(m, t)
      d == StopsAt(both, LAMBDA k : Differ(m, i - k, j - k))
  IN  IF d = both THEN 0 ELSE Difference(m, i - d, j - d)

\* bytes from c on, 26 of them, become those from into on
Shifted(m, s, len, c, into) ==
  [p \in DOMAIN m |-> IF p \in s .. s + len - 1 /\ (m[p] - c) % 256 <= 25 THEN m[p] - c + into ELSE m[p]]

CaseLowerB(m, s, len) == Shifted(m, s, len, 65, 97)
CaseUpperB(m, s, len) == Shifted(m, s, len, 97, 65)
CaseLowerS(m, s) == CaseLowerB(m, s, StrLen(m, s))
CaseUpperS(m, s) == CaseUpperB(m, s, StrLen(m, s))

\* does the buffer, or the string, begin with t
CaseStartB(m, s, len, t) ==
  LET n == StrLen(m, t) IN n <= len /\ StopsAt(n, LAMBDA k : Differ(m, s + k, t + k)) = n

CaseStartS(m, s, t) == CaseStartB(m, s, StrLen(m, s), t)
=============================================================================
