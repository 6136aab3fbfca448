------------------------------- MODULE Packed -------------------------------
(***************************************************************************)
(* Integers packed into bytes (uint16p.c, uint32p.c, uint64p.c,            *)
(* uint128p.c) and bytes as base64 text (base64.c).  A char array is a     *)
(* sequence of numbers below Byte; a 128 bit integer has two halves.       *)
(***************************************************************************)
EXTENDS Integers, Sequences, FiniteSets, SequencesExt

CONSTANT Byte  \* values of a char (256)

\* u without its j lowest bytes
Above(u, j) == LET a[k \in 0 .. j] == IF k = 0 THEN u ELSE a[k - 1] \div Byte IN a[j]

\* n bytes of a number, big-endian, the lowest of u last; what does not fit is cut off
PackBig(u, n) == [k \in 1 .. n |-> Above(u, n - k) % Byte]

\* the other order
PackLittle(u, n) == [k \in 1 .. n |-> Above(u, k - 1) % Byte]

\* a number of its bytes
UnpackBig(s) == LET u[k \in 0 .. Len(s)] == IF k = 0 THEN 0 ELSE u[k - 1] * Byte + s[k] IN u[Len(s)]
UnpackLittle(s) == LET u[k \in 0 .. Len(s)] == IF k = 0 THEN 0 ELSE u[k - 1] * Byte + s[Len(s) + 1 - k] IN u[Len(s)]

\* the widths of the library
Uint16Pack(u) == PackLittle(u, 2)
Uint16PackBig(u) == PackBig(u, 2)
Uint16Unpack(s) == UnpackLittle(SubSeq(s, 1, 2))
Uint16UnpackBig(s) == UnpackBig(SubSeq(s, 1, 2))
Uint32Pack(u) == PackLittle(u, 4)
Uint32PackBig(u) == PackBig(u, 4)
Uint32Unpack(s) == UnpackLittle(SubSeq(s, 1, 4))
Uint32UnpackBig(s) == UnpackBig(SubSeq(s, 1, 4))
Uint64Pack(u) == PackLittle(u, 8)
Uint64PackBig(u) == PackBig(u, 8)
Uint64Unpack(s) == UnpackLittle(SubSeq(s, 1, 8))
Uint64UnpackBig(s) == UnpackBig(SubSeq(s, 1, 8))

\* uint128_pack_big, uint128_pack
Pack128Big(u) == Uint64PackBig(u.hi) \o Uint64PackBig(u.lo)
Pack128(u) == Uint64Pack(u.lo) \o Uint64Pack(u.hi)

\* uint128_unpack_big, uint128_unpack
Unpack128Big(s) == [hi |-> Uint64UnpackBig(s), lo |-> Uint64UnpackBig(SubSeq(s, 9, 16))]
Unpack128(s) == [hi |-> Uint64Unpack(SubSeq(s, 9, 16)), lo |-> Uint64Unpack(s)]

-----------------------------------------------------------------------------
\* B64PAD
Pad64 == 61

\* b64alpha
Alpha(v) == CASE v < 26 -> 65 + v
              [] v \in 26 .. 51 -> 71 + v
              [] v \in 52 .. 61 -> v - 4
              [] v = 62 -> 43
              [] v = 63 -> 47

\* b64encode: three bytes become four characters, zeros stand for bytes behind the end
Encode(in) ==
  LET l == Len(in)
      At(k) == IF k <= l THEN in[k] ELSE 0
      Four(i) == LET a == At(i)  b == At(i + 1)  c == At(i + 2)
                 IN  <<Alpha(a \div 4), Alpha(((a % 4) * 16) + (b \div 16)),
                       IF i + 1 > l THEN Pad64 ELSE Alpha(((b % 16) * 4) + (c \div 64)),
                       IF i + 2 > l THEN Pad64 ELSE Alpha(c % 64)>>
  IN  FlattenSeq([g \in 1 .. (l + 2) \div 3 |-> Four(3 * g - 2)])

\* b64encode: what it makes ready in out
EncodeRoom(in) == ((Len(in) \div 3) * 4) + 4

\* b64decode: four characters as a number of 24 bits; another character adds nothing
Word24(in, i) ==
  FoldLeft(LAMBDA x, c : IF c = Pad64 THEN x * 64
                         ELSE IF \E v \in 0 .. 63 : Alpha(v) = c
                         THEN (x * 64) + CHOOSE v \in 0 .. 63 : Alpha(v) = c
                         ELSE x,
           0, SubSeq(in, i, i + 3))

Bytes3(x) == <<(x \div 65536) % 256, (x \div 256) % 256, x % 256>>

\* b64decode: p characters of padding; the last word gives 3 - p bytes.  A text is whole
\* fours, with no more than two of padding.
Decode(in) ==
  LET p == Cardinality({k \in DOMAIN in : \A j \in k .. Len(in) : in[j] = Pad64})
      n == Len(in) \div 4
  IN  FlattenSeq([g \in 1 .. n |-> SubSeq(Bytes3(Word24(in, 4 * g - 3)), 1, IF g = n THEN 3 - p ELSE 3)])
=============================================================================
