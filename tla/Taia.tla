-------------------------------- MODULE Taia --------------------------------
(***************************************************************************)
(* Times of attoseconds (taia.c, tai.c): seconds, billionths of a second,  *)
(* and billionths of those.  The output of an operation may be one of its  *)
(* inputs, so the operations work on cells of a memory m, field by field   *)
(* in the order the code writes them.                                      *)
(***************************************************************************)
EXTENDS Integers, Sequences

CONSTANTS
  ULong,  \* values of an unsigned long, and of a uint64 (2^64)
  Base,   \* 10^9
  Byte    \* values of a char (256)

P == INSTANCE Packed

\* eight bytes hold a word, four of them a billion
ASSUME TaiaAssumption ==
  /\ {ULong, Base, Byte} \subseteq Nat \ {0}
  /\ 2 * Base <= ULong
  /\ P!Above(ULong - 1, 8) = 0 /\ P!Above(Base - 1, 4) = 0

Taias == [sec : 0 .. ULong - 1, nano : 0 .. Base - 1, atto : 0 .. Base - 1]

Plus(a, b) == (a + b) % ULong
Minus(a, b) == (a - b) % ULong

\* taia_add: m[t] = m[u] + m[v], carries from right to left
TaiaAdd(m, t, u, v) ==
  LET nano == Plus(m[u].nano, m[v].nano)
      atto == Plus(m[u].atto, m[v].atto)
      carry1 == atto > Base - 1
      nano1 == IF carry1 THEN Plus(nano, 1) ELSE nano
      carry2 == nano1 > Base - 1
      sec == Plus(m[u].sec, m[v].sec)
  IN  [m EXCEPT ![t] = [sec |-> IF carry2 THEN Plus(sec, 1) ELSE sec,
                        nano |-> IF carry2 THEN nano1 - Base ELSE nano1,
                        atto |-> IF carry1 THEN atto - Base ELSE atto]]

\* faulty variant of TaiaSub: a borrow is looked for in the input when it is overwritten
TaiaSubOver(m, t, u, v) ==
  LET m1 == [m EXCEPT ![t].sec = Minus(m[u].sec, m[v].sec)]
      m2 == [m1 EXCEPT ![t].nano = Minus(m1[u].nano, m1[v].nano)]
      m3 == [m2 EXCEPT ![t].atto = Minus(m2[u].atto, m2[v].atto)]
      borrow1 == m3[t].atto > m3[u].atto
      nano == IF borrow1 THEN Minus(m3[t].nano, 1) ELSE m3[t].nano
      borrow2 == nano > m3[u].nano
  IN  [m3 EXCEPT ![t] = [sec |-> IF borrow2 THEN Minus(@.sec, 1) ELSE @.sec,
                         nano |-> IF borrow2 THEN Plus(nano, Base) ELSE nano,
                         atto |-> IF borrow1 THEN Plus(@.atto, Base) ELSE @.atto]]

\* taia_sub: m[t] = m[u] - m[v]; a difference that wraps is larger than what it was taken
\* from, and that is kept in unano and uatto
TaiaSub(m, t, u, v) ==
  LET unano == m[u].nano
      uatto == m[u].atto
      m1 == [m EXCEPT ![t].sec = Minus(m[u].sec, m[v].sec)]
      m2 == [m1 EXCEPT ![t].nano = Minus(unano, m1[v].nano)]
      m3 == [m2 EXCEPT ![t].atto = Minus(uatto, m2[v].atto)]
      borrow1 == m3[t].atto > uatto
      nano == IF borrow1 THEN Minus(m3[t].nano, 1) ELSE m3[t].nano
      borrow2 == nano > unano
  IN  [m3 EXCEPT ![t] = [sec |-> IF borrow2 THEN Minus(@.sec, 1) ELSE @.sec,
                         nano |-> IF borrow2 THEN Plus(nano, Base) ELSE nano,
                         atto |-> IF borrow1 THEN Plus(@.atto, Base) ELSE @.atto]]

\* taia_less
TaiaLess(t, u) ==
  \/ t.sec < u.sec
  \/ t.sec = u.sec /\ t.nano < u.nano
  \/ t.sec = u.sec /\ t.nano = u.nano /\ t.atto < u.atto

TaiaUint(s) == [sec |-> s % ULong, nano |-> 0, atto |-> 0]

\* taia_approx, in attoseconds and without rounding
TaiaApprox(t) == (t.sec * Base + t.nano) * Base + t.atto

\* tai_pack, taia_pack, tai_unpack (eight bytes hold a second, four a part of it)
TaiPack(x) == P!Uint64PackBig(x)
TaiaPack(t) == TaiPack(t.sec) \o P!Uint32PackBig(t.nano) \o P!Uint32PackBig(t.atto)
TaiUnpack(s) == P!Uint64UnpackBig(s)

-----------------------------------------------------------------------------
\* A time is taken, to be held against all others.
VARIABLE held

TimesInit == held = {}
TakeTime(t) == held = {} /\ held' = {t}
TimesNext == \E t \in Taias : TakeTime(t)
TimesSpec == TimesInit /\ [][TimesNext]_held

\* A difference added again gives the time it was taken from, all parts stay below a
\* billion, and the order is that of the numbers the times stand for, for every overlap
\* of output and inputs (taia.c:14-27, 39-46, 81-97; man/taia.3: "The inputs and output
\* may overlap").
TimesAreNumbers ==
  \A x \in held, y \in Taias :
    LET m == [u |-> x, v |-> y, t |-> y]
        all == ULong * (Base * Base)
        a == TaiaApprox(x)
        b == TaiaApprox(y)
    IN  /\ \A t \in {"u", "v", "t"} :
             \E sum \in {TaiaAdd(m, t, "u", "v")[t]}, difference \in {TaiaSub(m, t, "u", "v")[t]} :
               /\ sum \in Taias /\ TaiaApprox(sum) = (a + b) % all
               /\ difference \in Taias /\ TaiaApprox(difference) = (a - b) % all
        /\ TaiaLess(x, y) <=> a < b

\* Packed times are in the order of the times, compared byte by byte, so that they can
\* be sorted and used as keys; the second comes back (taia.c:62-79, tai.c:21-59).
PackedInOrder ==
  \A x \in held, y \in Taias :
    \E a \in {TaiaPack(x)}, b \in {TaiaPack(y)} :
      /\ TaiaLess(x, y) <=> \E k \in 1 .. 16 : a[k] < b[k] /\ \A j \in 1 .. k - 1 : a[j] = b[j]
      /\ TaiUnpack(a) = x.sec

\* Times are the numbers they stand for, in their sums, differences, order and packed
\* bytes (tai.c, taia.c).
TimesKeepOrder == TimesAreNumbers /\ PackedInOrder
=============================================================================
