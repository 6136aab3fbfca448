------------------------------ MODULE Stralloc ------------------------------
(***************************************************************************)
(* Dynamic strings (stralloc.c).  A string is the bytes that count, the    *)
(* size of what is allocated, and whether anything is; realloc may fail at *)
(* any call.  Sizes wrap as in the program: a text is counted in an        *)
(* unsigned int, whatever its length is to the caller, everything else in  *)
(* a size_t.                                                               *)
(***************************************************************************)
EXTENDS Integers, Sequences

CONSTANTS
  SizeT,    \* values of a size_t (2^64)
  UInt,     \* values of an unsigned int (2^32)
  Extra,    \* what is allocated in excess, with an eighth of the length (30)
  Texts,    \* lengths of the texts of the callers
  Digits,   \* numbers of digits of the integers
  Widths    \* widths they are padded to

ASSUME StrallocAssumption ==
  /\ SizeT \in Nat /\ UInt \in Nat /\ UInt <= SizeT /\ Extra \in Nat
  /\ \A n \in Texts : n \in Nat /\ n < SizeT
  /\ \A n \in Digits \cup Widths : n \in Nat /\ n < UInt

VARIABLES
  sa,    \* s: is it allocated, text: the bytes up to len, a
  ret,   \* of the last call
  end,   \* history: the last call wrote up to here
  want,  \* history: the text its caller expects when it succeeds
  count  \* history: the length its caller gave

strallocVars == <<sa, ret, end, want, count>>

Empty == [s |-> FALSE, text |-> <<>>, a |-> 0]

StrallocInit == sa = Empty /\ ret = 1 /\ end = 0 /\ want = <<>> /\ count = 0

\* n bytes of one kind
Some(c, n) == [k \in 1 .. n |-> c]

\* how a call ends: its value, the string it leaves, and where it wrote
Gives(r, x, e) == [ret |-> r, sa |-> x, end |-> e]

-----------------------------------------------------------------------------
\* stralloc_ready
Ready(x, len, mem) ==
  LET sum == (len + len \div 8 + Extra) % SizeT
      wanted == IF sum < len THEN len ELSE sum
  IN  CASE x.s /\ x.a >= len -> Gives(1, x, 0)
        [] ~(x.s /\ x.a >= len) /\ mem -> Gives(1, [x EXCEPT !.s = TRUE, !.a = wanted], 0)
        [] OTHER -> Gives(0, x, 0)

\* faulty variant of ReadyPlus: the sum is not looked at
ReadyPlusWraps(x, len, mem) == Ready(x, (Len(x.text) + len) % SizeT, mem)

\* stralloc_readyplus
ReadyPlus(x, len, mem) ==
  LET sum == (Len(x.text) + len) % SizeT
  IN  IF ~x.s THEN Ready(x, len, mem)
      ELSE IF sum < len THEN Gives(0, x, 0) ELSE Ready(x, sum, mem)

\* stralloc_copyb; stralloc_copys, stralloc_copy
CopyB(x, t, mem) ==
  LET r == Ready(x, (Len(t) + 1) % UInt, mem)
  IN  IF r.ret = 0 THEN r ELSE Gives(1, [r.sa EXCEPT !.text = t], Len(t) + 1)

\* stralloc_catb; stralloc_cats, stralloc_cat: the byte behind the text is written too
CatB(x, t, mem) ==
  LET r == ReadyPlus(x, (Len(t) + 1) % UInt, mem)
      all == x.text \o t
  IN  IF ~x.s THEN CopyB(x, t, mem)
      ELSE IF r.ret = 0 THEN r ELSE Gives(1, [r.sa EXCEPT !.text = all], Len(all) + 1)

\* stralloc_append, stralloc_0
AppendTo(x, c, mem) ==
  LET r == ReadyPlus(x, 1, mem)
      all == Append(x.text, c)
  IN  IF r.ret = 0 THEN r ELSE Gives(1, [r.sa EXCEPT !.text = all], Len(all))

Padded(d, n) == IF d < n THEN n ELSE d

\* faulty variant of CatULong0: the length grows before there is room
CatULong0Early(x, d, n, mem) ==
  LET all == x.text \o Some("d", Padded(d, n))
      r == ReadyPlus(x, Padded(d, n), mem)
  IN  Gives(r.ret, [r.sa EXCEPT !.text = all], Len(all))

\* stralloc_catulong0 of d digits
CatULong0(x, d, n, mem) ==
  LET all == x.text \o Some("d", Padded(d, n))
      r == ReadyPlus(x, Padded(d, n), mem)
  IN  IF r.ret = 0 THEN r ELSE Gives(1, [r.sa EXCEPT !.text = all], Len(all))

\* stralloc_catlong0 of a negative number: the sign stays when the digits fail
CatLong0(x, d, n, mem1, mem2) ==
  LET r == AppendTo(x, "-", mem1)
  IN  IF r.ret = 0 THEN r ELSE CatULong0(r.sa, d, n, mem2)

-----------------------------------------------------------------------------
Takes(r, w, n) == sa' = r.sa /\ ret' = r.ret /\ end' = r.end /\ want' = w /\ count' = n

StrallocReady(len, mem) == Takes(Ready(sa, len, mem), sa.text, 0)
StrallocReadyPlus(len, mem) == Takes(ReadyPlus(sa, len, mem), sa.text, 0)
Copy(n, mem) == Takes(CopyB(sa, Some("t", n % UInt), mem), Some("t", n), n)
Cat(n, mem) == Takes(CatB(sa, Some("t", n % UInt), mem), sa.text \o Some("t", n), n)
AppendByte(mem) == Takes(AppendTo(sa, "t", mem), Append(sa.text, "t"), 0)
CatNumber(d, n, mem) == Takes(CatULong0(sa, d, n, mem), sa.text \o Some("d", Padded(d, n)), 0)
CatNegative(d, n, mem1, mem2) ==
  Takes(CatLong0(sa, d, n, mem1, mem2), sa.text \o <<"-">> \o Some("d", Padded(d, n)), 0)

\* behind a write behind the memory anything may happen, and nothing more is looked at
InRoom == end <= sa.a

StrallocNext ==
  /\ InRoom
  /\ \E mem \in BOOLEAN :
       \/ \E len \in 0 .. SizeT - 1 : StrallocReady(len, mem) \/ StrallocReadyPlus(len, mem)
       \/ \E n \in Texts : Copy(n, mem) \/ Cat(n, mem)
       \/ AppendByte(mem)
       \/ \E d \in Digits, n \in Widths : CatNumber(d, n, mem) \/ \E mem2 \in BOOLEAN : CatNegative(d, n, mem, mem2)

-----------------------------------------------------------------------------
\* A call that succeeds leaves the text its caller asked for, if an unsigned int counts
\* it; of a longer one only what is left over of multiples of 2^32 is taken, and the
\* call still returns 1 (stralloc.c:23, 43).  One that fails leaves the string and its
\* memory as they were; stralloc_catlong0 alone may leave a sign (stralloc.c:26-119).
AskedOrAlone ==
  [][StrallocNext =>
       \/ ret' = 1 /\ count' < UInt /\ sa'.text = want'
       \/ ret' = 1 /\ count' >= UInt /\ Len(sa'.text) = Len(want') - (count' - (count' % UInt))
       \/ ret' = 0 /\ sa' = sa
       \/ ret' = 0 /\ sa'.text = Append(sa.text, "-")]_strallocVars
=============================================================================
