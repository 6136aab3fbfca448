--------------------------- MODULE System_proofs ---------------------------
(***************************************************************************)
(* Proofs about what the library builds on: dynamic strings and the files  *)
(* read into them, for all sizes of the machine's words; memory, for any   *)
(* alignment, space and lengths asked for; the descriptors of a process,   *)
(* for any table; the addresses of sockets, for any hosts and interfaces;  *)
(* the environment and the programs run with it, for any strings in it,    *)
(* assignments and directories; options, in any command line; calls with a *)
(* deadline, for every resolution of the clock, every timeout and every    *)
(* way the descriptor and the polls behave; and the arithmetic of times,   *)
(* for words, billions and bytes of any size.                              *)
(***************************************************************************)
EXTENDS ReadClose, Env, Getopt, Alloc, Descriptors, Sockets, Deadlines, Loops

-----------------------------------------------------------------------------
(***************************************************************************)
(* Dynamic strings, and files read into them                               *)
(***************************************************************************)
Chars == {"t", "d", "-", "f"}

\* A string as the calls leave it: its length is within what is allocated, and one that
\* is not allocated is empty.
Strallocs == {x \in [s : BOOLEAN, text : Seq(Chars), a : 0 .. SizeT - 1] :
                /\ Len(x.text) <= x.a
                /\ ~x.s => x.text = <<>> /\ x.a = 0}

\* How a call on x may end: the string is one again, nothing that was allocated is given
\* back, and what was written lies within it.
Fine(r, x) ==
  /\ r.ret \in {0, 1} /\ r.sa \in Strallocs /\ r.sa.a >= x.a
  /\ r.end \in Nat /\ r.end <= r.sa.a

\* How making room for bytes behind a text may end
MadeRoom(r, x, len) ==
  /\ Fine(r, x) /\ r.end = 0 /\ r.sa.text = x.text
  /\ r.ret = 1 => r.sa.s /\ len <= r.sa.a

-----------------------------------------------------------------------------
\* Sums in words: what a word holds of a number that may be too large by one word.
LEMMA ModWord ==
  ASSUME NEW v \in Nat, NEW w \in Nat \ {0}, v < w + w
  PROVE  v % w \in 0 .. w - 1 /\ (v < w => v % w = v) /\ (v >= w => v % w = v - w)
OBVIOUS

\* A read takes a byte at least, so that words have two values.
LEMMA BufSizes == BufSize \in Nat \ {0} /\ BufSize \in 0 .. SizeT - 1 /\ SizeT > 1
BY ReadCloseAssumption, StrallocAssumption

\* Texts of one byte have their length.
LEMMA SomeText ==
  ASSUME NEW c \in Chars, NEW n \in Nat
  PROVE  Some(c, n) \in Seq(Chars) /\ Len(Some(c, n)) = n
<1>1. Some(c, n) \in [1 .. n -> Chars]  BY DEF Some
<1>2. Some(c, n) \in Seq(Chars)  BY <1>1, SeqDef
<1>3. DOMAIN Some(c, n) = 1 .. n  BY DEF Some
<1>4. Len(Some(c, n)) \in Nat /\ DOMAIN Some(c, n) = 1 .. Len(Some(c, n))  BY <1>2, LenProperties
<1>5. \A k \in Nat : 1 .. k = 1 .. n => k = n
  <2>1. SUFFICES ASSUME NEW k \in Nat, 1 .. k = 1 .. n PROVE k = n  OBVIOUS
  <2>2. k >= 1 => k \in 1 .. n  BY <2>1
  <2>3. n >= 1 => n \in 1 .. k  BY <2>1
  <2> QED  BY <2>2, <2>3
<1> QED  BY <1>2, <1>3, <1>4, <1>5

\* A text with the bytes of a file behind it has the sum of their lengths.
LEMMA LongerText ==
  ASSUME NEW t \in Seq(Chars), NEW n \in Nat
  PROVE  t \o Some("f", n) \in Seq(Chars) /\ Len(t \o Some("f", n)) = Len(t) + n /\ Len(t) \in Nat
<1>1. "f" \in Chars  BY DEF Chars
<1>2. PICK u \in Seq(Chars) : u = Some("f", n) /\ Len(u) = n  BY <1>1, SomeText
<1>3. t \o u \in Seq(Chars) /\ Len(t \o u) = Len(t) + Len(u)  BY <1>2, ConcatProperties
<1>4. Len(t) \in Nat  BY LenProperties
<1> QED  BY <1>2, <1>3, <1>4

\* stralloc_ready makes room, or leaves the string as it is.
LEMMA ReadyFine ==
  ASSUME NEW x \in Strallocs, NEW len \in 0 .. SizeT - 1, NEW mem \in BOOLEAN
  PROVE  MadeRoom(Ready(x, len, mem), x, len)
<1> DEFINE sum == (len + len \div 8 + Extra) % SizeT
           wanted == IF sum < len THEN len ELSE sum
           r == Ready(x, len, mem)
<1>1. sum \in 0 .. SizeT - 1 /\ wanted \in 0 .. SizeT - 1 /\ wanted >= len
  BY StrallocAssumption
<1>2. CASE x.s /\ x.a >= len
  <2>1. r = [ret |-> 1, sa |-> x, end |-> 0]  BY <1>2 DEF Ready, Gives
  <2> QED  BY <2>1, <1>2 DEF MadeRoom, Fine, Strallocs
<1>3. CASE ~(x.s /\ x.a >= len) /\ mem
  <2> DEFINE y == [x EXCEPT !.s = TRUE, !.a = wanted]
  <2>1. r = [ret |-> 1, sa |-> y, end |-> 0]  BY <1>3 DEF Ready, Gives
  <2>2. y.s = TRUE /\ y.text = x.text /\ y.a = wanted /\ y \in [s : BOOLEAN, text : Seq(Chars), a : 0 .. SizeT - 1]
    BY <1>1 DEF Strallocs
  <2>3. wanted >= x.a  BY <1>1, <1>3 DEF Strallocs
  <2> HIDE DEF y, wanted
  <2>4. y \in Strallocs
    <3>1. Len(x.text) \in Nat /\ Len(x.text) <= x.a /\ x.a \in Nat  BY LenProperties DEF Strallocs
    <3> QED  BY <3>1, <1>1, <2>2, <2>3 DEF Strallocs
  <2>5. Fine(r, x)  BY <2>1, <2>2, <2>3, <2>4, <1>1 DEF Fine
  <2> QED  BY <2>1, <2>2, <2>5, <1>1 DEF MadeRoom
<1>4. CASE ~(x.s /\ x.a >= len) /\ ~mem
  <2>1. r = [ret |-> 0, sa |-> x, end |-> 0]  BY <1>4 DEF Ready, Gives
  <2> QED  BY <2>1 DEF MadeRoom, Fine, Strallocs
<1> QED  BY <1>2, <1>3, <1>4

\* stralloc_readyplus makes room behind the text: a sum that wraps is noticed.
LEMMA ReadyPlusFine ==
  ASSUME NEW x \in Strallocs, NEW len \in 0 .. SizeT - 1, NEW mem \in BOOLEAN
  PROVE  MadeRoom(ReadyPlus(x, len, mem), x, Len(x.text) + len)
<1> DEFINE sum == (Len(x.text) + len) % SizeT
<1>1. Len(x.text) \in 0 .. SizeT - 1 /\ Len(x.text) <= x.a
  BY LenProperties, StrallocAssumption DEF Strallocs
<1>2. CASE ~x.s
  <2>1. x.text = <<>>  BY <1>2 DEF Strallocs
  <2>2. ReadyPlus(x, len, mem) = Ready(x, len, mem)  BY <1>2 DEF ReadyPlus
  <2>3. Len(x.text) + len = len  BY <2>1
  <2> QED  BY <2>2, <2>3, ReadyFine
<1>3. CASE x.s /\ sum < len
  <2>1. ReadyPlus(x, len, mem) = [ret |-> 0, sa |-> x, end |-> 0]  BY <1>3 DEF ReadyPlus, Gives
  <2> QED  BY <2>1 DEF MadeRoom, Fine, Strallocs
<1>4. CASE x.s /\ ~(sum < len)
  <2>1. ReadyPlus(x, len, mem) = Ready(x, sum, mem)  BY <1>4 DEF ReadyPlus
  <2> DEFINE n == Len(x.text)
             v == n + len
  <2>2. n \in 0 .. SizeT - 1 /\ v = n + len /\ sum = v % SizeT
    <3>1. n \in 0 .. SizeT - 1  BY <1>1
    <3>2. v = n + len /\ sum = v % SizeT  BY Zenon
    <3> QED  BY <3>1, <3>2, Zenon
  <2>3. sum \in 0 .. SizeT - 1 /\ sum = v
    <3>1. ~(sum < len)  BY <1>4
    <3> HIDE DEF n, v, sum
    <3>2. v \in Nat /\ SizeT \in Nat \ {0} /\ v < SizeT + SizeT  BY <2>2, StrallocAssumption
    <3>3. sum \in 0 .. SizeT - 1 /\ (v < SizeT => sum = v) /\ (v >= SizeT => sum = v - SizeT)
      BY <2>2, <3>2, ModWord
    <3> QED  BY <2>2, <3>1, <3>2, <3>3
  <2> QED  BY <2>1, <2>3, ReadyFine
<1> QED  BY <1>2, <1>3, <1>4

\* A string with room for a text holds it.
LEMMA HoldsText ==
  ASSUME NEW x \in Strallocs, x.s, NEW t \in Seq(Chars), Len(t) <= x.a
  PROVE  [x EXCEPT !.text = t] \in Strallocs /\ [x EXCEPT !.text = t].a = x.a
BY DEF Strallocs

\* stralloc_copyb: the text and the byte behind it fit.
LEMMA CopyBFine ==
  ASSUME NEW x \in Strallocs, NEW t \in Seq(Chars), Len(t) + 1 < UInt, NEW mem \in BOOLEAN
  PROVE  Fine(CopyB(x, t, mem), x)
<1> DEFINE r == Ready(x, (Len(t) + 1) % UInt, mem)
<1>1. Len(t) \in Nat /\ (Len(t) + 1) % UInt = Len(t) + 1 /\ Len(t) + 1 \in 0 .. SizeT - 1
  BY LenProperties, StrallocAssumption
<1>2. MadeRoom(r, x, Len(t) + 1)  BY <1>1, ReadyFine
<1>3. CASE r.ret = 0
  <2>1. CopyB(x, t, mem) = r  BY <1>3 DEF CopyB
  <2> QED  BY <2>1, <1>2 DEF MadeRoom
<1>4. CASE r.ret # 0
  <2> DEFINE y == [r.sa EXCEPT !.text = t]
  <2>1. CopyB(x, t, mem) = [ret |-> 1, sa |-> y, end |-> Len(t) + 1]  BY <1>4 DEF CopyB, Gives
  <2>2. r.sa \in Strallocs /\ r.sa.s /\ Len(t) + 1 <= r.sa.a /\ r.sa.a >= x.a /\ r.sa.a \in Nat /\ x.a \in Nat
    BY <1>2, <1>4 DEF MadeRoom, Fine, Strallocs
  <2>3. Len(t) <= r.sa.a  BY <2>2, <1>1
  <2>4. y \in Strallocs /\ y.a = r.sa.a  BY <2>2, <2>3, HoldsText
  <2> HIDE DEF y, r
  <2> QED  BY <2>1, <2>2, <2>4, <1>1 DEF Fine
<1> QED  BY <1>3, <1>4

\* stralloc_catb: so does a text behind the other.
LEMMA CatBFine ==
  ASSUME NEW x \in Strallocs, NEW t \in Seq(Chars), Len(t) + 1 < UInt, NEW mem \in BOOLEAN
  PROVE  Fine(CatB(x, t, mem), x)
<1> DEFINE r == ReadyPlus(x, (Len(t) + 1) % UInt, mem)
           all == x.text \o t
<1>1. Len(t) \in Nat /\ (Len(t) + 1) % UInt = Len(t) + 1 /\ Len(t) + 1 \in 0 .. SizeT - 1
  BY LenProperties, StrallocAssumption
<1>2. MadeRoom(r, x, Len(x.text) + (Len(t) + 1))  BY <1>1, ReadyPlusFine
<1>3. all \in Seq(Chars) /\ Len(all) = Len(x.text) + Len(t) /\ Len(x.text) \in Nat
  BY ConcatProperties, LenProperties DEF Strallocs
<1>4. CASE ~x.s
  <2>1. CatB(x, t, mem) = CopyB(x, t, mem)  BY <1>4 DEF CatB
  <2> QED  BY <2>1, CopyBFine
<1>5. CASE x.s /\ r.ret = 0
  <2>1. CatB(x, t, mem) = r  BY <1>5 DEF CatB
  <2> QED  BY <2>1, <1>2 DEF MadeRoom
<1>6. CASE x.s /\ r.ret # 0
  <2> DEFINE y == [r.sa EXCEPT !.text = all]
  <2>1. CatB(x, t, mem) = [ret |-> 1, sa |-> y, end |-> Len(all) + 1]  BY <1>6 DEF CatB, Gives
  <2>2. /\ r.sa \in Strallocs /\ r.sa.s /\ Len(x.text) + (Len(t) + 1) <= r.sa.a
        /\ r.sa.a >= x.a /\ r.sa.a \in Nat /\ x.a \in Nat
    BY <1>2, <1>6 DEF MadeRoom, Fine, Strallocs
  <2> HIDE DEF all, r
  <2>3. Len(all) <= r.sa.a /\ Len(all) + 1 <= r.sa.a
    <3> DEFINE n == Len(x.text)  m == Len(t)  a == r.sa.a
    <3>1. n \in Nat /\ m \in Nat /\ a \in Nat /\ n + (m + 1) <= a /\ Len(all) = n + m  BY <1>1, <1>3, <2>2
    <3> HIDE DEF n, m, a
    <3>2. n + m <= a /\ n + m + 1 <= a  BY <3>1
    <3> QED  BY <3>1, <3>2 DEF a
  <2>4. y \in Strallocs /\ y.a = r.sa.a  BY <2>2, <2>3, <1>3, HoldsText
  <2> HIDE DEF y
  <2> QED  BY <2>1, <2>2, <2>3, <2>4, <1>1, <1>3 DEF Fine
<1> QED  BY <1>4, <1>5, <1>6

\* stralloc_append: one byte more.
LEMMA AppendFine ==
  ASSUME NEW x \in Strallocs, NEW c \in Chars, NEW mem \in BOOLEAN
  PROVE  Fine(AppendTo(x, c, mem), x)
<1> DEFINE r == ReadyPlus(x, 1, mem)
           all == Append(x.text, c)
<1>1. x.text \in Seq(Chars) /\ x.a \in Nat  BY DEF Strallocs
<1>2. all \in Seq(Chars) /\ Len(all) = Len(x.text) + 1 /\ Len(all) \in Nat
  BY <1>1, AppendProperties, LenProperties
<1>3. CASE SizeT > 1
  <2>1. 1 \in 0 .. SizeT - 1  BY <1>3, StrallocAssumption
  <2>2. MadeRoom(r, x, Len(x.text) + 1)  BY <2>1, ReadyPlusFine
  <2>3. CASE r.ret = 0
    <3>1. AppendTo(x, c, mem) = r  BY <2>3 DEF AppendTo
    <3> QED  BY <3>1, <2>2 DEF MadeRoom
  <2>4. CASE r.ret # 0
    <3> DEFINE y == [r.sa EXCEPT !.text = all]
    <3>1. AppendTo(x, c, mem) = [ret |-> 1, sa |-> y, end |-> Len(all)]  BY <2>4 DEF AppendTo, Gives
    <3>2. r.sa \in Strallocs /\ r.sa.s /\ Len(x.text) + 1 <= r.sa.a /\ r.sa.a >= x.a
      BY <2>2, <2>4 DEF MadeRoom, Fine
    <3>3. Len(all) <= r.sa.a  BY <3>2, <1>2
    <3>4. y \in Strallocs /\ y.a = r.sa.a  BY <3>2, <3>3, <1>2, HoldsText
    <3> HIDE DEF y, r, all
    <3> QED  BY <3>1, <3>2, <3>3, <3>4, <1>2 DEF Fine
  <2> QED  BY <2>3, <2>4
<1> QED  BY <1>3, BufSizes

\* stralloc_catulong0: the digits with the zeros in front of them.
LEMMA CatULong0Fine ==
  ASSUME NEW x \in Strallocs, NEW d \in 0 .. SizeT - 1, NEW n \in 0 .. SizeT - 1, NEW mem \in BOOLEAN
  PROVE  Fine(CatULong0(x, d, n, mem), x)
<1> DEFINE len == Padded(d, n)
           r == ReadyPlus(x, len, mem)
           all == x.text \o Some("d", len)
<1>1. len \in 0 .. SizeT - 1 /\ len \in Nat  BY StrallocAssumption DEF Padded
<1>2. x.text \in Seq(Chars) /\ Some("d", len) \in Seq(Chars) /\ Len(Some("d", len)) = len
  <2>1. x.text \in Seq(Chars) /\ "d" \in Chars  BY DEF Strallocs, Chars
  <2> HIDE DEF len
  <2> QED  BY <2>1, <1>1, SomeText
<1>3. all \in Seq(Chars) /\ Len(all) = Len(x.text) + len /\ Len(all) \in Nat
  <2> DEFINE d1 == Some("d", len)
  <2>1. d1 \in Seq(Chars) /\ Len(d1) = len  BY <1>2
  <2> HIDE DEF d1, len
  <2>2. /\ x.text \o d1 \in Seq(Chars) /\ Len(x.text \o d1) = Len(x.text) + Len(d1)
        /\ Len(x.text \o d1) \in Nat
    BY <1>2, <2>1, ConcatProperties, LenProperties
  <2> QED  BY <2>1, <2>2 DEF d1
<1>4. MadeRoom(r, x, Len(x.text) + len)  BY <1>1, ReadyPlusFine
<1>5. CASE r.ret = 0
  <2>1. CatULong0(x, d, n, mem) = r  BY <1>5 DEF CatULong0
  <2> QED  BY <2>1, <1>4 DEF MadeRoom
<1>6. CASE r.ret # 0
  <2> DEFINE y == [r.sa EXCEPT !.text = all]
  <2>1. CatULong0(x, d, n, mem) = [ret |-> 1, sa |-> y, end |-> Len(all)]  BY <1>6 DEF CatULong0, Gives
  <2>2. r.sa \in Strallocs /\ r.sa.s /\ Len(x.text) + len <= r.sa.a /\ r.sa.a >= x.a
    BY <1>4, <1>6 DEF MadeRoom, Fine
  <2>3. Len(all) <= r.sa.a  BY <2>2, <1>3
  <2>4. y \in Strallocs /\ y.a = r.sa.a  BY <2>2, <2>3, <1>3, HoldsText
  <2> HIDE DEF y, r, all, len
  <2> QED  BY <2>1, <2>2, <2>3, <2>4, <1>3 DEF Fine
<1> QED  BY <1>5, <1>6

\* stralloc_catlong0: also when the second of its steps fails.
LEMMA CatLong0Fine ==
  ASSUME NEW x \in Strallocs, NEW d \in 0 .. SizeT - 1, NEW n \in 0 .. SizeT - 1,
         NEW mem1 \in BOOLEAN, NEW mem2 \in BOOLEAN
  PROVE  Fine(CatLong0(x, d, n, mem1, mem2), x)
<1> DEFINE r == AppendTo(x, "-", mem1)
<1>1. Fine(r, x)
  <2>1. "-" \in Chars  BY DEF Chars
  <2> QED  BY <2>1, AppendFine
<1>2. CASE r.ret = 0
  <2>1. CatLong0(x, d, n, mem1, mem2) = r  BY <1>2 DEF CatLong0
  <2> QED  BY <2>1, <1>1
<1>3. CASE r.ret # 0
  <2> DEFINE z == CatULong0(r.sa, d, n, mem2)
  <2>1. CatLong0(x, d, n, mem1, mem2) = z  BY <1>3 DEF CatLong0
  <2>2. r.sa \in Strallocs /\ r.sa.a >= x.a  BY <1>1 DEF Fine
  <2>3. Fine(z, r.sa)  BY <2>2, CatULong0Fine
  <2>4. x.a \in Nat /\ r.sa.a \in Nat  BY <2>2, StrallocAssumption DEF Strallocs
  <2> HIDE DEF z, r
  <2>5. z.sa.a \in Nat  BY <2>3, StrallocAssumption DEF Fine, Strallocs
  <2> QED  BY <2>1, <2>2, <2>3, <2>4, <2>5 DEF Fine
<1> QED  BY <1>2, <1>3

\* A text for which the calls make no room: 0 bytes are asked for.  What they return is
\* a string again, or they have written behind it.
LEMMA NoRoomAsked ==
  ASSUME NEW x \in Strallocs, NEW t \in Seq(Chars), Len(t) + 1 = UInt, NEW mem \in BOOLEAN
  PROVE  /\ Fine(CopyB(x, t, mem), x) \/ ~(CopyB(x, t, mem).end <= CopyB(x, t, mem).sa.a)
         /\ Fine(CatB(x, t, mem), x) \/ ~(CatB(x, t, mem).end <= CatB(x, t, mem).sa.a)
<1>1. UInt \in Nat \ {0} /\ SizeT \in Nat \ {0}  BY BufSizes, StrallocAssumption
<1>2. (Len(t) + 1) % UInt = 0
  <2>1. UInt % UInt = 0  BY <1>1
  <2> QED  BY <2>1
<1>3. 0 \in 0 .. SizeT - 1 /\ Len(t) \in Nat  BY <1>1, LenProperties
<1>4. ASSUME NEW r, MadeRoom(r, x, 0) \/ MadeRoom(r, x, Len(x.text)), NEW u \in Seq(Chars), NEW z,
             z = IF r.ret = 0 THEN r ELSE Gives(1, [r.sa EXCEPT !.text = u], Len(u) + 1)
      PROVE  Fine(z, x) \/ ~(z.end <= z.sa.a)
  <2>1. Fine(r, x) /\ Len(u) \in Nat  BY <1>4, LenProperties DEF MadeRoom
  <2>2. CASE r.ret = 0
    BY <1>4, <2>1, <2>2
  <2>3. CASE r.ret # 0
    <3> DEFINE y == [r.sa EXCEPT !.text = u]
    <3>1. z = [ret |-> 1, sa |-> y, end |-> Len(u) + 1]  BY <1>4, <2>3 DEF Gives
    <3>2. r.sa \in Strallocs /\ r.sa.s /\ r.sa.a >= x.a  BY <1>4, <2>1, <2>3 DEF MadeRoom, Fine
    <3>3. y.a = r.sa.a /\ r.sa.a \in Nat  BY <3>2, StrallocAssumption DEF Strallocs
    <3>4. CASE Len(u) + 1 <= r.sa.a
      <4>1. Len(u) <= r.sa.a  BY <2>1, <3>3, <3>4
      <4>2. y \in Strallocs  BY <3>2, <4>1, HoldsText
      <4> HIDE DEF y
      <4> QED  BY <2>1, <3>1, <3>2, <3>3, <3>4, <4>2 DEF Fine
    <3>5. CASE ~(Len(u) + 1 <= r.sa.a)
      <4> HIDE DEF y
      <4> QED  BY <3>1, <3>3, <3>5
    <3> QED  BY <3>4, <3>5
  <2> QED  BY <2>2, <2>3
<1>5. Fine(CopyB(x, t, mem), x) \/ ~(CopyB(x, t, mem).end <= CopyB(x, t, mem).sa.a)
  <2> DEFINE r == Ready(x, 0, mem)
             z == CopyB(x, t, mem)
  <2>1. MadeRoom(r, x, 0)  BY <1>3, ReadyFine
  <2>2. z = IF r.ret = 0 THEN r ELSE Gives(1, [r.sa EXCEPT !.text = t], Len(t) + 1)
    BY <1>2 DEF CopyB
  <2> HIDE DEF r, z
  <2>3. Fine(z, x) \/ ~(z.end <= z.sa.a)  BY <1>4, <2>1, <2>2
  <2> QED  BY <2>3 DEF z
<1>6. Fine(CatB(x, t, mem), x) \/ ~(CatB(x, t, mem).end <= CatB(x, t, mem).sa.a)
  <2>1. CASE ~x.s
    <3>1. CatB(x, t, mem) = CopyB(x, t, mem)  BY <2>1 DEF CatB
    <3> QED  BY <3>1, <1>5
  <2>2. CASE x.s
    <3> DEFINE r == ReadyPlus(x, 0, mem)
               u == x.text \o t
               z == CatB(x, t, mem)
    <3>1. MadeRoom(r, x, Len(x.text))
      <4>1. MadeRoom(r, x, Len(x.text) + 0)  BY <1>3, ReadyPlusFine
      <4>2. Len(x.text) + 0 = Len(x.text)  BY LenProperties DEF Strallocs
      <4> HIDE DEF r
      <4> QED  BY <4>1, <4>2
    <3>2. z = IF r.ret = 0 THEN r ELSE Gives(1, [r.sa EXCEPT !.text = u], Len(u) + 1)
      BY <1>2, <2>2 DEF CatB
    <3>3. u \in Seq(Chars)  BY ConcatProperties DEF Strallocs
    <3> HIDE DEF r, u, z
    <3>4. Fine(z, x) \/ ~(z.end <= z.sa.a)  BY <1>4, <3>1, <3>2, <3>3
    <3> QED  BY <3>4 DEF z
  <2> QED  BY <2>1, <2>2
<1> QED  BY <1>5, <1>6

-----------------------------------------------------------------------------
\* What holds between any two steps as long as all writes lie in the memory: besides the
\* rooms, that the string is one.
Defined ==
  /\ sa \in Strallocs /\ ret \in {0, 1} /\ end \in Nat
  /\ at \in {"idle", "clear", "append", "read"}
  /\ at = "read" => Len(sa.text) + BufSize <= sa.a

\* Where one does not, a text has come whose length and 1 are no unsigned int.
RoomInv == IF InRoom THEN Defined ELSE at = "idle" /\ count % UInt = UInt - 1

\* A call of the string alone
LEMMA CallKeepsRoom ==
  ASSUME Defined, at = "idle", UNCHANGED readVars, NEW r, NEW w, NEW n, Takes(r, w, n),
         Fine(r, sa) \/ (~(r.end <= r.sa.a) /\ n % UInt = UInt - 1)
  PROVE  RoomInv'
<1>1. sa' = r.sa /\ ret' = r.ret /\ end' = r.end /\ at' = "idle" /\ count' = n  BY DEF Takes, readVars
<1>2. CASE Fine(r, sa)
  BY <1>1, <1>2 DEF RoomInv, InRoom, Defined, Fine
<1>3. CASE ~(r.end <= r.sa.a) /\ n % UInt = UInt - 1
  BY <1>1, <1>3 DEF RoomInv, InRoom
<1> QED  BY <1>2, <1>3

\* What a call for a file makes of the string, room for a read aside
LEMMA IntoKeepsRoom ==
  ASSUME Defined, InRoom, NEW x \in Strallocs, x.a >= sa.a, Into(x),
         at' \in {"idle", "clear", "append", "read"}, at' = "read" => Len(x.text) + BufSize <= x.a
  PROVE  Defined' /\ InRoom'
<1>1. sa' = x /\ ret' = ret /\ end' = end  BY DEF Into
<1>2. x.a \in Nat /\ sa.a \in Nat  BY StrallocAssumption DEF Defined, Strallocs
<1>3. InRoom'  BY <1>1, <1>2 DEF InRoom, Defined
<1> QED  BY <1>1, <1>3 DEF Defined

\* Every call on a string keeps the room of it (stralloc.c:26-119).
LEMMA StringsKeepRoom ==
  ASSUME RoomInv, at = "idle", UNCHANGED readVars, StrallocNext
  PROVE  RoomInv'
<1> Defined  BY DEF RoomInv, StrallocNext
<1>1. sa \in Strallocs /\ sa.text \in Seq(Chars)  BY DEF Defined, Strallocs
<1>2. ASSUME NEW mem \in BOOLEAN, NEW len \in 0 .. SizeT - 1, StrallocReady(len, mem) \/ StrallocReadyPlus(len, mem)
      PROVE  RoomInv'
  <2>1. Fine(Ready(sa, len, mem), sa) /\ Fine(ReadyPlus(sa, len, mem), sa)
    BY <1>1, ReadyFine, ReadyPlusFine DEF MadeRoom
  <2> QED  BY <1>2, <2>1, CallKeepsRoom DEF StrallocReady, StrallocReadyPlus
<1>3. ASSUME NEW mem \in BOOLEAN, NEW n \in Texts, Copy(n, mem) \/ Cat(n, mem)
      PROVE  RoomInv'
  <2> DEFINE t == Some("t", n % UInt)
  <2>1. n % UInt \in Nat /\ n % UInt < UInt /\ UInt \in Nat /\ "t" \in Chars
    BY StrallocAssumption, BufSizes, ReadCloseAssumption DEF Chars
  <2>2. t \in Seq(Chars) /\ Len(t) = n % UInt  BY <2>1, SomeText
  <2>3. \/ Fine(CopyB(sa, t, mem), sa)
        \/ ~(CopyB(sa, t, mem).end <= CopyB(sa, t, mem).sa.a) /\ n % UInt = UInt - 1
    <3>1. CASE Len(t) + 1 < UInt  BY <1>1, <2>2, <3>1, CopyBFine
    <3>2. CASE ~(Len(t) + 1 < UInt)
      <4>1. Len(t) + 1 = UInt /\ n % UInt = UInt - 1  BY <2>1, <2>2, <3>2
      <4> QED  BY <1>1, <2>2, <4>1, NoRoomAsked
    <3> QED  BY <3>1, <3>2
  <2>4. \/ Fine(CatB(sa, t, mem), sa)
        \/ ~(CatB(sa, t, mem).end <= CatB(sa, t, mem).sa.a) /\ n % UInt = UInt - 1
    <3>1. CASE Len(t) + 1 < UInt  BY <1>1, <2>2, <3>1, CatBFine
    <3>2. CASE ~(Len(t) + 1 < UInt)
      <4>1. Len(t) + 1 = UInt /\ n % UInt = UInt - 1  BY <2>1, <2>2, <3>2
      <4> QED  BY <1>1, <2>2, <4>1, NoRoomAsked
    <3> QED  BY <3>1, <3>2
  <2>5. CASE Copy(n, mem)
    BY <2>3, <2>5, CallKeepsRoom DEF Copy
  <2>6. CASE Cat(n, mem)
    BY <2>4, <2>6, CallKeepsRoom DEF Cat
  <2> QED  BY <1>3, <2>5, <2>6
<1>4. ASSUME NEW mem \in BOOLEAN, AppendByte(mem)
      PROVE  RoomInv'
  <2>1. "t" \in Chars  BY DEF Chars
  <2>2. Fine(AppendTo(sa, "t", mem), sa)  BY <1>1, <2>1, AppendFine
  <2> QED  BY <1>4, <2>2, CallKeepsRoom DEF AppendByte
<1>5. ASSUME NEW mem \in BOOLEAN, NEW mem2 \in BOOLEAN, NEW d \in Digits, NEW n \in Widths,
             CatNumber(d, n, mem) \/ CatNegative(d, n, mem, mem2)
      PROVE  RoomInv'
  <2>1. d \in 0 .. SizeT - 1 /\ n \in 0 .. SizeT - 1  BY StrallocAssumption
  <2>2. Fine(CatULong0(sa, d, n, mem), sa) /\ Fine(CatLong0(sa, d, n, mem, mem2), sa)
    BY <1>1, <2>1, CatULong0Fine, CatLong0Fine
  <2> QED  BY <1>5, <2>2, CallKeepsRoom DEF CatNumber, CatNegative
<1> QED  BY <1>2, <1>3, <1>4, <1>5 DEF StrallocNext

\* So does every step of reading a file into it (readclose.c:14-45).
LEMMA FilesKeepRoom ==
  ASSUME Defined, InRoom, ReadNext
  PROVE  Defined' /\ InRoom'
<1>1. ASSUME NEW n \in 0 .. FileMax, Open(n) \/ AppendFile(n)
      PROVE  Defined' /\ InRoom'
  <2>1. sa' = sa /\ ret' = ret /\ end' = end /\ at' \in {"idle", "clear", "append"}
    BY <1>1 DEF Open, AppendFile, Same, strallocVars
  <2> QED  BY <2>1 DEF InRoom, Defined
<1>2. ASSUME NEW mem \in BOOLEAN, Clear(mem)
      PROVE  Defined' /\ InRoom'
  <2> DEFINE r == CopyB(sa, <<>>, mem)
  <2>1. <<>> \in Seq(Chars) /\ Len(<<>>) + 1 < UInt
    BY EmptySeq, ReadCloseAssumption, StrallocAssumption
  <2>2. Fine(r, sa)  BY <2>1, CopyBFine DEF Defined
  <2>3. Into(r.sa) /\ at' \in {"idle", "append"}  BY <1>2 DEF Clear, Close
  <2> QED  BY <2>2, <2>3, IntoKeepsRoom DEF Fine
<1>3. ASSUME NEW mem \in BOOLEAN, Grow(mem)
      PROVE  Defined' /\ InRoom'
  <2> DEFINE r == ReadyPlus(sa, BufSize, mem)
  <2>1. MadeRoom(r, sa, Len(sa.text) + BufSize)  BY ReadyPlusFine, BufSizes DEF Defined
  <2>2. Into(r.sa) /\ at' \in {"idle", "read"} /\ (at' = "read" => r.ret # 0)
    BY <1>3 DEF Grow, Close
  <2>3. at' = "read" => Len(r.sa.text) + BufSize <= r.sa.a
    BY <2>1, <2>2 DEF MadeRoom, Fine
  <2> QED  BY <2>1, <2>2, <2>3, IntoKeepsRoom DEF MadeRoom, Fine
<1>4. ASSUME Read
      PROVE  Defined' /\ InRoom'
  <2>1. ASSUME NEW n \in 1 .. BufSize, Into([sa EXCEPT !.text = @ \o Some("f", n)]), at = "read", at' = "append"
        PROVE  Defined' /\ InRoom'
    <3> DEFINE t == sa.text \o Some("f", n)
               y == [sa EXCEPT !.text = t]
    <3>1. n \in Nat /\ n <= BufSize /\ "f" \in Chars  BY BufSizes DEF Chars
    <3>2. sa.text \in Seq(Chars) /\ sa.a \in Nat /\ Len(sa.text) + BufSize <= sa.a
      BY <2>1 DEF Defined, Strallocs
    <3>3. t \in Seq(Chars) /\ Len(t) = Len(sa.text) + n /\ Len(sa.text) \in Nat
      BY <3>1, <3>2, LongerText
    <3>4. Len(t) <= sa.a /\ sa.a # 0  BY <3>1, <3>2, <3>3, BufSizes
    <3>5. sa.s  BY <3>4 DEF Defined, Strallocs
    <3>6. y \in Strallocs /\ y.a = sa.a  BY <3>3, <3>4, <3>5, HoldsText DEF Defined
    <3>7. Into(y)  BY <2>1
    <3> HIDE DEF y
    <3> QED  BY <2>1, <3>2, <3>6, <3>7, IntoKeepsRoom
  <2>2. ASSUME Same, at' \in {"idle", "append"}
        PROVE  Defined' /\ InRoom'
    BY <2>2 DEF Same, strallocVars, InRoom, Defined
  <2> QED  BY <1>4, <2>1, <2>2 DEF Read, Close
<1> QED  BY <1>1, <1>2, <1>3, <1>4 DEF ReadNext

\* Nothing is allocated in the beginning.
LEMMA RoomInit == StrallocInit /\ ReadInit => Defined /\ InRoom
<1> SUFFICES ASSUME StrallocInit, ReadInit PROVE Defined /\ InRoom  OBVIOUS
<1>1. Empty \in Strallocs
  BY EmptySeq, StrallocAssumption, BufSizes DEF Empty, Strallocs
<1>2. end = 0 /\ ret = 1 /\ sa = Empty /\ at = "idle" /\ Empty.a = 0  BY DEF StrallocInit, ReadInit, Empty
<1> QED  BY <1>1, <1>2 DEF InRoom, Defined

LEMMA RoomSteps == RoomInv /\ [FilesNext]_<<strallocVars, readVars>> => RoomInv'
<1>1. ASSUME RoomInv, UNCHANGED <<strallocVars, readVars>> PROVE RoomInv'
  BY <1>1 DEF RoomInv, InRoom, Defined, strallocVars, readVars
<1>2. ASSUME RoomInv, FilesNext PROVE RoomInv'
  <2>1. Defined /\ InRoom  BY <1>2 DEF FilesNext, RoomInv
  <2>2. CASE ReadNext
    <3>1. Defined' /\ InRoom'  BY <2>1, <2>2, FilesKeepRoom
    <3> QED  BY <3>1 DEF RoomInv
  <2>3. CASE ~ReadNext
    BY <1>2, <2>3, StringsKeepRoom DEF FilesNext
  <2> QED  BY <2>2, <2>3
<1> QED  BY <1>1, <1>2

\* However calls of a string and reads of files into it follow one another and whatever
\* memory does, no byte is written behind what is allocated, with one exception: a text
\* of 2^32 - 1 bytes, alone or with a multiple of 2^32 (stralloc.c:26-119,
\* readclose.c:15-31).
THEOREM RoomForWrites == FilesSpec => []WritesInRoom
<1>1. StrallocInit /\ ReadInit => RoomInv  BY RoomInit DEF RoomInv
<1>2. RoomInv /\ [FilesNext]_<<strallocVars, readVars>> => RoomInv'  BY RoomSteps
<1>3. RoomInv => WritesInRoom  BY DEF RoomInv, InRoom, Defined, WritesInRoom
<1> QED  BY <1>1, <1>2, <1>3, PTL DEF FilesSpec

-----------------------------------------------------------------------------
(***************************************************************************)
(* Dynamic strings: a call does what it is asked, or leaves them alone     *)
(***************************************************************************)
\* A call on x has left the text w, or x as it was.
Asked(r, x, w) == \/ r.ret = 1 /\ r.sa.text = w
                  \/ r.ret = 0 /\ r.sa = x

\* Making room leaves the text as it is, and a string into which a text can be put.
LEMMA ReadyAsked ==
  ASSUME NEW x \in Strallocs, NEW len, NEW mem \in BOOLEAN
  PROVE  /\ Asked(Ready(x, len, mem), x, x.text)
         /\ \A t : [Ready(x, len, mem).sa EXCEPT !.text = t].text = t
<1> DEFINE sum == (len + len \div 8 + Extra) % SizeT
           wanted == IF sum < len THEN len ELSE sum
           y == [x EXCEPT !.s = TRUE, !.a = wanted]
<1>1. \/ Ready(x, len, mem) = [ret |-> 1, sa |-> x, end |-> 0]
      \/ Ready(x, len, mem) = [ret |-> 1, sa |-> y, end |-> 0]
      \/ Ready(x, len, mem) = [ret |-> 0, sa |-> x, end |-> 0]
  BY DEF Ready, Gives
<1>2. y.text = x.text /\ \A t : [y EXCEPT !.text = t].text = t  BY DEF Strallocs
<1>3. \A t : [x EXCEPT !.text = t].text = t  BY DEF Strallocs
<1> HIDE DEF y
<1> QED  BY <1>1, <1>2, <1>3 DEF Asked

LEMMA ReadyPlusAsked ==
  ASSUME NEW x \in Strallocs, NEW len, NEW mem \in BOOLEAN
  PROVE  /\ Asked(ReadyPlus(x, len, mem), x, x.text)
         /\ \A t : [ReadyPlus(x, len, mem).sa EXCEPT !.text = t].text = t
<1> DEFINE sum == (Len(x.text) + len) % SizeT
<1>1. \/ ReadyPlus(x, len, mem) = Ready(x, len, mem)
      \/ ReadyPlus(x, len, mem) = Ready(x, sum, mem)
      \/ ReadyPlus(x, len, mem) = [ret |-> 0, sa |-> x, end |-> 0]
  BY DEF ReadyPlus, Gives
<1>2. \A t : [x EXCEPT !.text = t].text = t  BY DEF Strallocs
<1>3. Asked([ret |-> 0, sa |-> x, end |-> 0], x, x.text)  BY DEF Asked
<1> HIDE DEF sum
<1> QED  BY <1>1, <1>2, <1>3, ReadyAsked

\* The calls that put a text somewhere leave it there.
LEMMA CopyBAsked ==
  ASSUME NEW x \in Strallocs, NEW t, NEW mem \in BOOLEAN
  PROVE  Asked(CopyB(x, t, mem), x, t)
<1> DEFINE r == Ready(x, (Len(t) + 1) % UInt, mem)
<1>1. Asked(r, x, x.text) /\ [r.sa EXCEPT !.text = t].text = t  BY ReadyAsked
<1>2. CopyB(x, t, mem) = IF r.ret = 0 THEN r ELSE [ret |-> 1, sa |-> [r.sa EXCEPT !.text = t], end |-> Len(t) + 1]
  BY DEF CopyB, Gives
<1> HIDE DEF r
<1> QED  BY <1>1, <1>2 DEF Asked

LEMMA CatBAsked ==
  ASSUME NEW x \in Strallocs, NEW t \in Seq(Chars), NEW mem \in BOOLEAN
  PROVE  Asked(CatB(x, t, mem), x, x.text \o t)
<1> DEFINE r == ReadyPlus(x, (Len(t) + 1) % UInt, mem)
           all == x.text \o t
<1>1. Asked(r, x, x.text) /\ [r.sa EXCEPT !.text = all].text = all  BY ReadyPlusAsked
<1>2. CASE ~x.s
  <2>1. x.text = <<>>  BY <1>2 DEF Strallocs
  <2>2. all = t  BY <2>1
  <2>3. CatB(x, t, mem) = CopyB(x, t, mem)  BY <1>2 DEF CatB
  <2> QED  BY <2>2, <2>3, CopyBAsked
<1>3. CASE x.s
  <2>1. CatB(x, t, mem) = IF r.ret = 0 THEN r ELSE [ret |-> 1, sa |-> [r.sa EXCEPT !.text = all], end |-> Len(all) + 1]
    BY <1>3 DEF CatB, Gives
  <2> HIDE DEF r, all
  <2>2. Asked(CatB(x, t, mem), x, all)  BY <1>1, <2>1 DEF Asked
  <2> QED  BY <2>2 DEF all
<1> QED  BY <1>2, <1>3

LEMMA AppendAsked ==
  ASSUME NEW x \in Strallocs, NEW c, NEW mem \in BOOLEAN
  PROVE  Asked(AppendTo(x, c, mem), x, Append(x.text, c))
<1> DEFINE r == ReadyPlus(x, 1, mem)
           all == Append(x.text, c)
<1>1. Asked(r, x, x.text) /\ [r.sa EXCEPT !.text = all].text = all  BY ReadyPlusAsked
<1>2. AppendTo(x, c, mem) = IF r.ret = 0 THEN r ELSE [ret |-> 1, sa |-> [r.sa EXCEPT !.text = all], end |-> Len(all)]
  BY DEF AppendTo, Gives
<1> HIDE DEF r, all
<1>3. Asked(AppendTo(x, c, mem), x, all)  BY <1>1, <1>2 DEF Asked
<1> QED  BY <1>3 DEF all

LEMMA CatULong0Asked ==
  ASSUME NEW x \in Strallocs, NEW d, NEW n, NEW mem \in BOOLEAN
  PROVE  Asked(CatULong0(x, d, n, mem), x, x.text \o Some("d", Padded(d, n)))
<1> DEFINE r == ReadyPlus(x, Padded(d, n), mem)
           all == x.text \o Some("d", Padded(d, n))
<1>1. Asked(r, x, x.text) /\ [r.sa EXCEPT !.text = all].text = all  BY ReadyPlusAsked
<1>2. CatULong0(x, d, n, mem) = IF r.ret = 0 THEN r ELSE [ret |-> 1, sa |-> [r.sa EXCEPT !.text = all], end |-> Len(all)]
  BY DEF CatULong0, Gives
<1> HIDE DEF r, all
<1>3. Asked(CatULong0(x, d, n, mem), x, all)  BY <1>1, <1>2 DEF Asked
<1> QED  BY <1>3 DEF all

\* The sign of a negative number stays when its digits find no room.
LEMMA CatLong0Asked ==
  ASSUME NEW x \in Strallocs, NEW d \in Nat, NEW n \in Nat, NEW mem1 \in BOOLEAN, NEW mem2 \in BOOLEAN
  PROVE  LET z == CatLong0(x, d, n, mem1, mem2)
         IN  \/ Asked(z, x, (x.text \o <<"-">>) \o Some("d", Padded(d, n)))
             \/ z.ret = 0 /\ z.sa.text = Append(x.text, "-")
<1> DEFINE r == AppendTo(x, "-", mem1)
           v == CatULong0(r.sa, d, n, mem2)
<1>1. Asked(r, x, Append(x.text, "-")) /\ Fine(r, x)
  BY AppendAsked, AppendFine DEF Chars
<1>2. CatLong0(x, d, n, mem1, mem2) = IF r.ret = 0 THEN r ELSE v  BY DEF CatLong0
<1>3. Asked(v, r.sa, r.sa.text \o Some("d", Padded(d, n)))  BY <1>1, CatULong0Asked DEF Fine
<1>4. Append(x.text, "-") = x.text \o <<"-">>
  <2>1. x.text \in Seq(Chars) /\ "-" \in Chars  BY DEF Strallocs, Chars
  <2> QED  BY <2>1, AppendIsConcat
<1> HIDE DEF r, v
<1> QED  BY <1>1, <1>2, <1>3, <1>4 DEF Asked

\* A text of which only a part is counted is that much shorter than the caller expects.
LEMMA CutBy ==
  ASSUME NEW t \in Seq(Chars), NEW n \in Nat, n < SizeT
  PROVE  LET m == n % UInt IN
         /\ m \in Nat /\ m < UInt /\ (n < UInt => m = n)
         /\ Some("t", m) \in Seq(Chars)
         /\ Len(Some("t", m)) = Len(Some("t", n)) - (n - m)
         /\ Len(t \o Some("t", m)) = Len(t \o Some("t", n)) - (n - m)
<1> DEFINE m == n % UInt
<1>1. UInt \in Nat \ {0} /\ "t" \in Chars  BY StrallocAssumption, ReadCloseAssumption DEF Chars
<1>2. m \in Nat /\ m < UInt /\ (n < UInt => m = n)  BY <1>1
<1> HIDE DEF m
<1>3. PICK u \in Seq(Chars) : u = Some("t", m) /\ Len(u) = m  BY <1>1, <1>2, SomeText
<1>4. PICK v \in Seq(Chars) : v = Some("t", n) /\ Len(v) = n  BY <1>1, SomeText
<1>5. Len(t \o u) = Len(t) + m /\ Len(t \o v) = Len(t) + n /\ Len(t) \in Nat
  BY <1>3, <1>4, ConcatProperties, LenProperties
<1>6. Len(u) = Len(v) - (n - m) /\ Len(t \o u) = Len(t \o v) - (n - m)  BY <1>2, <1>3, <1>4, <1>5
<1> QED  BY <1>2, <1>3, <1>4, <1>6 DEF m

\* A call of the string's own does what it is asked or leaves the string alone, whatever
\* memory does; only the sign of a negative number may stay behind, and only a text that
\* an unsigned int does not count is cut (stralloc.c:23-119).
THEOREM AskedDone == FilesSpec => AskedOrAlone
<1> DEFINE allVars == <<strallocVars, readVars>>
           A == StrallocNext =>
                  \/ ret' = 1 /\ count' < UInt /\ sa'.text = want'
                  \/ ret' = 1 /\ count' >= UInt /\ Len(sa'.text) = Len(want') - (count' - (count' % UInt))
                  \/ ret' = 0 /\ sa' = sa
                  \/ ret' = 0 /\ sa'.text = Append(sa.text, "-")
<1>1. RoomInv => A
  <2> SUFFICES ASSUME RoomInv, StrallocNext PROVE A  OBVIOUS
  <2>1. sa \in Strallocs /\ sa.text \in Seq(Chars)  BY DEF RoomInv, Defined, Strallocs, StrallocNext
  <2>2. ASSUME NEW r, NEW w, Takes(r, w, 0), Asked(r, sa, w)
        PROVE  A
    <3>1. count' = 0 /\ 0 < UInt  BY <2>2, StrallocAssumption, ReadCloseAssumption DEF Takes
    <3> QED  BY <2>2, <3>1 DEF Takes, Asked
  <2>3. ASSUME NEW mem \in BOOLEAN, NEW len \in 0 .. SizeT - 1, StrallocReady(len, mem) \/ StrallocReadyPlus(len, mem)
        PROVE  A
    BY <2>1, <2>2, <2>3, ReadyAsked, ReadyPlusAsked DEF StrallocReady, StrallocReadyPlus
  <2>4. ASSUME NEW mem \in BOOLEAN, NEW n \in Texts, Copy(n, mem) \/ Cat(n, mem)
        PROVE  A
    <3> DEFINE m == n % UInt
               t == Some("t", m)
    <3>1. n \in Nat /\ n < SizeT /\ UInt \in Nat  BY StrallocAssumption
    <3>2. /\ m \in Nat /\ (n < UInt => m = n) /\ t \in Seq(Chars)
          /\ Len(t) = Len(Some("t", n)) - (n - m)
          /\ Len(sa.text \o t) = Len(sa.text \o Some("t", n)) - (n - m)
      BY <2>1, <3>1, CutBy
    <3>3. Asked(CopyB(sa, t, mem), sa, t) /\ Asked(CatB(sa, t, mem), sa, sa.text \o t)
      BY <2>1, <3>2, CopyBAsked, CatBAsked
    <3>4. ASSUME NEW r, NEW v, NEW w, Takes(r, w, n), Asked(r, sa, v),
                 n < UInt => v = w, Len(v) = Len(w) - (n - m)
          PROVE  A
      <4>1. count' = n /\ want' = w /\ sa' = r.sa /\ ret' = r.ret  BY <3>4 DEF Takes
      <4>2. CASE r.ret = 0 /\ r.sa = sa  BY <4>1, <4>2
      <4>3. CASE r.ret = 1 /\ r.sa.text = v /\ n < UInt  BY <3>4, <4>1, <4>3
      <4>4. CASE r.ret = 1 /\ r.sa.text = v /\ ~(n < UInt)
        <5>1. n >= UInt  BY <3>1, <4>4
        <5> QED  BY <3>4, <4>1, <4>4, <5>1
      <4> QED  BY <3>4, <4>2, <4>3, <4>4 DEF Asked
    <3>5. CASE Copy(n, mem)
      <4>1. Takes(CopyB(sa, t, mem), Some("t", n), n)  BY <3>5 DEF Copy
      <4> HIDE DEF t, m
      <4>2. n < UInt => t = Some("t", n)  BY <3>2 DEF t
      <4> QED  BY <3>2, <3>3, <3>4, <4>1, <4>2
    <3>6. CASE Cat(n, mem)
      <4>1. Takes(CatB(sa, t, mem), sa.text \o Some("t", n), n)  BY <3>6 DEF Cat
      <4> HIDE DEF t, m
      <4>2. n < UInt => sa.text \o t = sa.text \o Some("t", n)  BY <3>2 DEF t
      <4> QED  BY <3>2, <3>3, <3>4, <4>1, <4>2
    <3> QED  BY <2>4, <3>5, <3>6
  <2>5. ASSUME NEW mem \in BOOLEAN, AppendByte(mem)
        PROVE  A
    BY <2>1, <2>2, <2>5, AppendAsked DEF AppendByte
  <2>6. ASSUME NEW mem \in BOOLEAN, NEW mem2 \in BOOLEAN, NEW d \in Digits, NEW n \in Widths,
               CatNumber(d, n, mem) \/ CatNegative(d, n, mem, mem2)
        PROVE  A
    <3>1. d \in Nat /\ n \in Nat  BY StrallocAssumption
    <3>2. CASE CatNumber(d, n, mem)
      BY <2>1, <2>2, <3>2, CatULong0Asked DEF CatNumber
    <3>3. CASE CatNegative(d, n, mem, mem2)
      <4> DEFINE z == CatLong0(sa, d, n, mem, mem2)
                 w == (sa.text \o <<"-">>) \o Some("d", Padded(d, n))
      <4>1. Asked(z, sa, w) \/ (z.ret = 0 /\ z.sa.text = Append(sa.text, "-"))
        BY <2>1, <3>1, CatLong0Asked
      <4>2. Takes(z, w, 0)  BY <3>3 DEF CatNegative
      <4> HIDE DEF z, w
      <4> QED  BY <2>2, <4>1, <4>2 DEF Takes
    <3> QED  BY <2>6, <3>2, <3>3
  <2> QED  BY <2>3, <2>4, <2>5, <2>6 DEF StrallocNext
<1>2. RoomInv => [A]_strallocVars  BY <1>1
<1>3. StrallocInit /\ ReadInit => RoomInv  BY RoomInit DEF RoomInv
<1>4. RoomInv /\ [FilesNext]_allVars => RoomInv'  BY RoomSteps
<1> QED  BY <1>2, <1>3, <1>4, PTL DEF FilesSpec, AskedOrAlone

-----------------------------------------------------------------------------
\* Texts are joined in any grouping.
LEMMA TextsJoin ==
  ASSUME NEW t \in Seq(Chars), NEW u \in Seq(Chars), NEW v \in Seq(Chars)
  PROVE  (t \o u) \o v = t \o (u \o v)
BY ConcatAssociative

\* Two texts of bytes of the file, one behind the other, are one such text.
LEMMA FileJoins ==
  ASSUME NEW m \in Nat, NEW n \in Nat, NEW u \in Seq(Chars), NEW v \in Seq(Chars), NEW w \in Seq(Chars),
         Len(u) = m, Len(v) = n, Len(w) = m + n,
         \A j \in 1 .. m : u[j] = "f", \A j \in 1 .. n : v[j] = "f", \A j \in 1 .. m + n : w[j] = "f"
  PROVE  u \o v = w
<1>1. u \o v \in Seq(Chars) /\ Len(u \o v) = m + n  BY ConcatProperties
<1>2. ASSUME NEW i \in 1 .. m + n PROVE (u \o v)[i] = "f"
  <2>1. (u \o v)[i] = IF i <= m THEN u[i] ELSE v[i - m]  BY ConcatProperties
  <2>2. i > m => i - m \in 1 .. n  OBVIOUS
  <2>3. i <= m => i \in 1 .. m  OBVIOUS
  <2> QED  BY <2>1, <2>2, <2>3
<1> QED  BY <1>1, <1>2, SeqEqual

\* Bytes read one after the other are those of the file.
LEMMA SomeMore ==
  ASSUME NEW m \in Nat, NEW n \in Nat, NEW t \in Seq(Chars)
  PROVE  (t \o Some("f", m)) \o Some("f", n) = t \o Some("f", m + n)
<1>1. "f" \in Chars /\ m + n \in Nat  BY DEF Chars
<1>2. PICK u \in Seq(Chars) : u = Some("f", m) /\ Len(u) = m  BY <1>1, SomeText
<1>3. PICK v \in Seq(Chars) : v = Some("f", n) /\ Len(v) = n  BY <1>1, SomeText
<1>4. PICK w \in Seq(Chars) : w = Some("f", m + n) /\ Len(w) = m + n  BY <1>1, SomeText
<1>5. /\ \A j \in 1 .. m : u[j] = "f"
      /\ \A j \in 1 .. n : v[j] = "f"
      /\ \A j \in 1 .. m + n : w[j] = "f"
  BY <1>2, <1>3, <1>4 DEF Some
<1>8. Len(u) = m /\ Len(v) = n /\ Len(w) = m + n  BY <1>2, <1>3, <1>4
<1>6. u \o v = w  BY <1>5, <1>8, FileJoins
<1>7. (t \o u) \o v = t \o w  BY <1>6, TextsJoin
<1> QED  BY <1>2, <1>3, <1>4, <1>7

\* What holds between the steps of a call for a file: the string is what it was with
\* the bytes read behind it, and the descriptor is open until the call returns.
FileInv ==
  /\ taken \in Nat /\ before \in Seq(Chars)
  /\ at # "idle" => isopen
  /\ at = "clear" => taken = 0 /\ before = <<>> /\ append = FALSE
  /\ at \in {"append", "read"} => sa.text = before \o Some("f", taken)
  /\ FileIsRead

\* No bytes
LEMMA SomeNone == Some("f", 0) = <<>>
<1>1. "f" \in Chars  BY DEF Chars
<1>2. Some("f", 0) \in Seq(Chars) /\ Len(Some("f", 0)) = 0  BY <1>1, SomeText
<1> QED  BY <1>2, EmptySeq

\* A file of which nothing has been read has added nothing.
LEMMA NothingRead == ASSUME NEW t \in Seq(Chars) PROVE t \o Some("f", 0) = t
BY SomeNone, ConcatEmptySeq

\* Every step of reading a file keeps what the string has of it (readclose.c:14-45).
LEMMA FileSteps ==
  ASSUME Defined, FileInv, ReadNext
  PROVE  FileInv'
<1> USE DEF FileInv, FileIsRead
<1>1. sa.text \in Seq(Chars)  BY DEF Defined, Strallocs
<1>2. ASSUME NEW n \in 0 .. FileMax, Open(n)
      PROVE  FileInv'
  <2>1. taken' = 0 /\ before' = <<>> /\ append' = FALSE /\ at = "idle"  BY <1>2 DEF Open
  <2>2. <<>> \in Seq(Chars)  BY EmptySeq
  <2>3. CASE at' = "clear" /\ isopen'  BY <2>1, <2>2, <2>3
  <2>4. CASE at' = "idle" /\ result' \in {0, -1} /\ isopen' = isopen  BY <2>1, <2>2, <2>4
  <2> QED  BY <1>2, <2>3, <2>4 DEF Open
<1>3. ASSUME NEW n \in 0 .. FileMax, AppendFile(n)
      PROVE  FileInv'
  <2>1. taken' = 0 /\ before' = sa.text /\ at' = "append" /\ isopen' = TRUE /\ sa' = sa
    BY <1>3 DEF AppendFile, Same, strallocVars
  <2> QED  BY <1>1, <2>1, NothingRead
<1>4. ASSUME NEW mem \in BOOLEAN, Clear(mem)
      PROVE  FileInv'
  <2> DEFINE r == CopyB(sa, <<>>, mem)
  <2>1. at = "clear" /\ taken' = 0 /\ before' = <<>> /\ append' = FALSE /\ sa' = r.sa
    BY <1>4 DEF Clear, Into
  <2>2. <<>> \in Seq(Chars) /\ <<>> \o Some("f", 0) = <<>>  BY EmptySeq, NothingRead
  <2>3. CASE r.ret = 0
    <3>1. isopen' = FALSE /\ at' = "idle" /\ result' = -1  BY <1>4, <2>3 DEF Clear, Close
    <3> QED  BY <2>1, <2>2, <3>1
  <2>4. CASE r.ret # 0
    <3>1. at' = "append" /\ isopen' = isopen  BY <1>4, <2>4 DEF Clear
    <3>2. r.sa.text = <<>>
      <4> DEFINE z == Ready(sa, (Len(<<>>) + 1) % UInt, mem)
      <4>1. z.ret # 0 /\ r = [ret |-> 1, sa |-> [z.sa EXCEPT !.text = <<>>], end |-> Len(<<>>) + 1]
        BY <2>4 DEF CopyB, Gives
      <4>2. (Len(<<>>) + 1) % UInt \in 0 .. SizeT - 1
        BY StrallocAssumption, ReadCloseAssumption, EmptySeq
      <4>3. z.sa \in Strallocs  BY <4>2, ReadyFine DEF Defined, MadeRoom, Fine
      <4> HIDE DEF z
      <4> QED  BY <4>1, <4>3 DEF Strallocs
    <3> QED  BY <2>1, <2>2, <3>1, <3>2
  <2> QED  BY <2>3, <2>4
<1>5. ASSUME NEW mem \in BOOLEAN, Grow(mem)
      PROVE  FileInv'
  <2> DEFINE r == ReadyPlus(sa, BufSize, mem)
  <2>1. /\ at = "append" /\ sa' = r.sa /\ taken' = taken /\ before' = before /\ append' = append
        /\ file' = file
    BY <1>5 DEF Grow, Into
  <2>2. r.sa.text = sa.text  BY ReadyPlusFine, BufSizes DEF Defined, MadeRoom
  <2>3. CASE r.ret = 0
    <3>1. isopen' = FALSE /\ at' = "idle" /\ result' = -1  BY <1>5, <2>3 DEF Grow, Close
    <3> QED  BY <2>1, <2>2, <3>1
  <2>4. CASE r.ret # 0
    <3>1. at' = "read" /\ isopen' = isopen  BY <1>5, <2>4 DEF Grow
    <3> QED  BY <2>1, <2>2, <3>1
  <2> QED  BY <2>3, <2>4
<1>6. ASSUME Read
      PROVE  FileInv'
  <2>1. at = "read" /\ file' = file /\ before' = before /\ append' = append  BY <1>6 DEF Read
  <2>2. ASSUME NEW n \in 1 .. BufSize, Into([sa EXCEPT !.text = @ \o Some("f", n)]),
               taken' = taken + n, at' = "append", isopen' = isopen
        PROVE  FileInv'
    <3>1. n \in Nat  BY BufSizes
    <3>2. sa'.text = sa.text \o Some("f", n)  BY <2>2 DEF Into, Defined, Strallocs
    <3>3. sa'.text = before \o Some("f", taken + n)  BY <2>1, <3>1, <3>2, SomeMore
    <3> QED  BY <2>1, <2>2, <3>1, <3>3
  <2>3. ASSUME taken = file, Close(IF append THEN 0 ELSE 1), Same, UNCHANGED taken
        PROVE  FileInv'
    BY <2>1, <2>3 DEF Close, Same, strallocVars
  <2>4. ASSUME at' = "append", Same, UNCHANGED <<taken, isopen, result>>
        PROVE  FileInv'
    BY <2>1, <2>4 DEF Same, strallocVars
  <2>5. ASSUME Close(-1), Same, UNCHANGED taken
        PROVE  FileInv'
    BY <2>1, <2>5 DEF Close, Same, strallocVars
  <2> QED  BY <1>6, <2>2, <2>3, <2>4, <2>5 DEF Read
<1> QED  BY <1>2, <1>3, <1>4, <1>5, <1>6 DEF ReadNext

\* Whatever is interrupted, cut short or fails in a read of a file, the descriptor is
\* closed when the call returns, the string is what it was with the bytes read behind
\* it, and a call that succeeds has read them all (readclose.c:14-45).
THEOREM FileRead == ReadSpec => []FileIsRead
<1> DEFINE allVars == <<strallocVars, readVars>>
<1>1. ReadSpec => [](Defined /\ InRoom)
  <2>1. StrallocInit /\ ReadInit => Defined /\ InRoom  BY RoomInit
  <2>2. Defined /\ InRoom /\ [ReadNext]_allVars => Defined' /\ InRoom'
    <3>1. ASSUME Defined, InRoom, UNCHANGED allVars PROVE Defined' /\ InRoom'
      BY <3>1 DEF Defined, InRoom, strallocVars, readVars
    <3>2. ASSUME Defined, InRoom, ReadNext PROVE Defined' /\ InRoom'  BY <3>2, FilesKeepRoom
    <3> QED  BY <3>1, <3>2
  <2> QED  BY <2>1, <2>2, PTL DEF ReadSpec
<1>2. StrallocInit /\ ReadInit => FileInv
  BY EmptySeq DEF ReadInit, FileInv, FileIsRead
<1>3. Defined /\ InRoom /\ FileInv /\ [ReadNext]_allVars => FileInv'
  <2>1. ASSUME FileInv, UNCHANGED allVars PROVE FileInv'
    BY <2>1 DEF FileInv, FileIsRead, strallocVars, readVars
  <2>2. ASSUME Defined, FileInv, ReadNext PROVE FileInv'  BY <2>2, FileSteps
  <2> QED  BY <2>1, <2>2
<1>4. FileInv => FileIsRead  BY DEF FileInv
<1> QED  BY <1>1, <1>2, <1>3, <1>4, PTL DEF ReadSpec

-----------------------------------------------------------------------------
(***************************************************************************)
(* Memory: blocks lie apart                                                *)
(***************************************************************************)
\* What is known of one block in use.
BlockOk(b) ==
  /\ b.asked \in Nat /\ b.size \in Nat /\ b.size >= b.asked /\ b.size > 0
  /\ b.heap \in Nat /\ b.at \in Nat
  /\ b.heap = 0 => b.at >= avail /\ b.at + b.size <= Space /\ b.at % Align = 0

AllocInv ==
  /\ wrapped \in BOOLEAN /\ foreign \in BOOLEAN /\ number \in Nat
  /\ ~wrapped =>
       /\ avail \in 0 .. Space /\ avail % Align = 0 /\ ~foreign
       /\ \A b \in blocks : BlockOk(b)
       /\ \A b, c \in blocks : b # c /\ b.heap = 0 /\ c.heap = 0 => b.at + b.size <= c.at \/ c.at + c.size <= b.at

\* Another multiple is not nearer than the divisor.
LEMMA Apart ==
  ASSUME NEW d \in Nat \ {0}, NEW p \in Int, NEW q \in Int, p < q
  PROVE  d * p + d <= d * q
<1>1. q - p >= 1 /\ q - p \in Nat  OBVIOUS
<1>2. d * (q - p) >= d
  <2> DEFINE e == q - p - 1
  <2>1. e \in Nat  BY <1>1
  <2>2. d * e >= 0  BY <2>1
  <2>3. d * (e + 1) = d * e + d  BY <2>1
  <2> QED  BY <2>2, <2>3
<1>3. d * (q - p) = d * q - d * p  OBVIOUS
<1>4. d * p \in Int /\ d * q \in Int  OBVIOUS
<1> QED  BY <1>2, <1>3, <1>4

\* A number is a multiple when its remainder is 0.
LEMMA Multiple ==
  ASSUME NEW d \in Nat \ {0}, NEW k \in Nat
  PROVE  (d * k) % d = 0
<1> DEFINE a == d * k
           q == a \div d
           r == a % d
<1>1. a \in Nat /\ q \in Int /\ r \in 0 .. d - 1 /\ a = d * q + r  OBVIOUS
<1>2. ~(q < k)
  <2>1. SUFFICES ASSUME q < k PROVE FALSE  OBVIOUS
  <2>2. d * q + d <= d * k  BY <1>1, <2>1, Apart
  <2> HIDE DEF q, r
  <2> QED  BY <1>1, <2>2
<1>3. ~(k < q)
  <2>1. SUFFICES ASSUME k < q PROVE FALSE  OBVIOUS
  <2>2. d * k + d <= d * q  BY <1>1, <2>1, Apart
  <2> HIDE DEF q, r
  <2> QED  BY <1>1, <2>2
<1> HIDE DEF q, r
<1>4. q = k  BY <1>1, <1>2, <1>3
<1>5. r = 0  BY <1>1, <1>4
<1> QED  BY <1>5 DEF r

\* Differences of multiples are multiples.
LEMMA Multiples ==
  ASSUME NEW d \in Nat \ {0}, NEW a \in Nat, NEW b \in Nat, b <= a, a % d = 0, b % d = 0
  PROVE  (a - b) % d = 0
<1> DEFINE p == a \div d
           q == b \div d
<1>1. a = d * p /\ b = d * q /\ p \in Nat /\ q \in Nat  OBVIOUS
<1> HIDE DEF p, q
<1>2. ~(p < q)
  <2>1. SUFFICES ASSUME p < q PROVE FALSE  OBVIOUS
  <2>2. d * p + d <= d * q  BY <1>1, <2>1, Apart
  <2> QED  BY <1>1, <2>2
<1>3. p - q \in Nat  BY <1>1, <1>2
<1>4. d * (p - q) = a - b  BY <1>1
<1> QED  BY <1>3, <1>4, Multiple

\* A length rounded up is a multiple.
LEMMA RoundedUp ==
  ASSUME NEW d \in Nat \ {0}, NEW n \in Nat
  PROVE  /\ n % d \in 0 .. d - 1 /\ n % d <= n
         /\ d + n - (n % d) \in Nat
         /\ (d + n - (n % d)) % d = 0
<1> DEFINE q == n \div d
           r == n % d
<1>1. q \in Nat /\ r \in 0 .. d - 1 /\ n = d * q + r  OBVIOUS
<1> HIDE DEF q, r
<1>2. d * (q + 1) = d + n - r  BY <1>1
<1>3. (d * (q + 1)) % d = 0  BY <1>1, Multiple
<1>4. d * q >= 0  BY <1>1
<1>5. r <= n /\ d + n - r \in Nat  BY <1>1, <1>4
<1> QED  BY <1>1, <1>2, <1>3, <1>5 DEF r

\* What is less than a word is the same in a word.
LEMMA InWord ==
  ASSUME NEW w \in Nat \ {0}, NEW x \in Nat, x < w
  PROVE  x % w = x
OBVIOUS

-----------------------------------------------------------------------------
\* A new block, when its length does not wrap, has its room and lies before all others in
\* the space.
LEMMA NewBlock ==
  ASSUME AllocInv, NEW n \in Requests, NEW g, g = Given(n), Gets(n), ~wrapped'
  PROVE  /\ number' \in Nat /\ avail' \in 0 .. Space /\ avail' % Align = 0 /\ avail' <= avail
         /\ BlockOk(g)'
         /\ g.heap = 0 => g.at + g.size <= avail
<1> DEFINE r == Rounded(n)
<1>1. n \in Nat /\ Align \in Nat \ {0} /\ Space \in Nat /\ UWord \in Nat \ {0} /\ Space % Align = 0
  <2>1. Requests \subseteq 0 .. UWord - 1  BY AllocAssumption
  <2>2. n \in 0 .. UWord - 1  BY <2>1
  <2>3. Space < UWord /\ Space \in Nat  BY AllocAssumption
  <2>4. Align \in Nat \ {0} /\ Space % Align = 0  BY AllocAssumption
  <2>5. UWord \in Nat  BY AllocAssumption
  <2> QED  BY <2>2, <2>3, <2>4, <2>5
<1>2. ~wrapped /\ ~(Align + n - (n % Align) >= UWord) /\ number' = number + 1
  BY DEF Gets, AllocInv
<1>3. avail \in 0 .. Space /\ avail % Align = 0 /\ number \in Nat  BY <1>2 DEF AllocInv
<1>4. r \in Nat /\ r % Align = 0 /\ r >= n /\ r > 0
  <2>1. n % Align \in 0 .. Align - 1 /\ Align + n - (n % Align) \in Nat /\ (Align + n - (n % Align)) % Align = 0
    BY <1>1, RoundedUp
  <2> DEFINE s == Align + n - (n % Align)
             o == n % Align
  <2>2. s = Align + n - o /\ o \in 0 .. Align - 1  BY <2>1
  <2>3. s \in Nat /\ s < UWord /\ s % Align = 0  BY <1>1, <1>2, <2>1
  <2>4. r = s % UWord  BY DEF Rounded
  <2> HIDE DEF s, o, r
  <2>5. r = s  BY <1>1, <2>3, <2>4, InWord
  <2> QED  BY <1>1, <2>2, <2>3, <2>5
<1>5. avail' = IF r <= avail THEN avail - r ELSE avail  BY DEF Gets
<1>6. /\ g.asked = n /\ g.size = r
      /\ g.heap = (IF r <= avail THEN 0 ELSE number + 1)
      /\ g.at = (IF r <= avail THEN avail - r ELSE 0)
  BY g = Given(n) DEF Given
<1> HIDE DEF r
<1>7. CASE r <= avail
  <2>1. avail' = avail - r /\ g.at = avail - r /\ g.heap = 0  BY <1>5, <1>6, <1>7
  <2>2. (avail - r) % Align = 0
    <3>1. avail \in Nat /\ r \in Nat /\ Align \in Nat \ {0} /\ avail % Align = 0 /\ r % Align = 0 /\ r <= avail
      BY <1>1, <1>3, <1>4, <1>7
    <3>2. \A d \in Nat \ {0} : \A a, b \in Nat : b <= a /\ a % d = 0 /\ b % d = 0 => (a - b) % d = 0
      BY Multiples, Zenon
    <3> QED  BY <3>1, <3>2, Zenon
  <2>3. avail - r \in 0 .. Space /\ avail - r + r = avail  BY <1>1, <1>3, <1>4, <1>7
  <2>4. g.at + g.size <= Space /\ g.at >= avail' /\ g.at % Align = 0 /\ g.at \in Nat
    BY <1>1, <1>3, <1>6, <2>1, <2>2, <2>3
  <2>5. g.asked \in Nat /\ g.size \in Nat /\ g.size >= g.asked /\ g.size > 0 /\ g.heap \in Nat
    BY <1>1, <1>4, <1>6, <2>1
  <2>6. BlockOk(g)'  BY <2>4, <2>5 DEF BlockOk
  <2> QED  BY <1>2, <1>3, <1>4, <1>6, <2>1, <2>2, <2>3, <2>6
<1>8. CASE ~(r <= avail)
  <2>1. avail' = avail /\ g.at = 0 /\ g.heap = number + 1  BY <1>5, <1>6, <1>8
  <2>2. number + 1 # 0 /\ number + 1 \in Nat  BY <1>3
  <2>3. BlockOk(g)'  BY <1>1, <1>4, <1>6, <2>1, <2>2 DEF BlockOk
  <2> QED  BY <1>2, <1>3, <2>1, <2>2, <2>3
<1> QED  BY <1>7, <1>8

\* What is known of a block stays known while nothing is given from the space.
LEMMA OldBlocks ==
  ASSUME NEW b, BlockOk(b), avail \in Nat, avail' \in Nat, avail' <= avail
  PROVE  BlockOk(b)'
BY DEF BlockOk

\* Giving back is right for every block.
LEMMA FreeIsOurs ==
  ASSUME NEW b, BlockOk(b), AllocInv, Frees(b), ~foreign
  PROVE  foreign' = FALSE
<1>1. Space \in Nat  BY AllocAssumption
<1>2. b.heap = 0 => ~(b.at >= Space)  BY <1>1 DEF BlockOk
<1> QED  BY <1>2 DEF Frees

\* A block more, and perhaps one less
LEMMA WithNew ==
  ASSUME AllocInv, NEW n \in Requests, Gets(n), ~wrapped', foreign' = FALSE,
         NEW old, old \subseteq blocks, blocks' = old \cup {Given(n)}
  PROVE  AllocInv'
<1> DEFINE g == Given(n)
<1>1. /\ number' \in Nat /\ avail' \in 0 .. Space /\ avail' % Align = 0 /\ avail' <= avail
      /\ \A x : x = g => BlockOk(x)'
      /\ g.heap = 0 => g.at + g.size <= avail
  <2>1. ASSUME NEW x, x = g PROVE BlockOk(x)'  BY <2>1, NewBlock
  <2> QED  BY <2>1, NewBlock
<1>2. ~wrapped /\ wrapped' = FALSE  BY DEF Gets, AllocInv
<1>3. avail \in 0 .. Space /\ \A b \in blocks : BlockOk(b)  BY <1>2 DEF AllocInv
<1>4. Space \in Nat  BY AllocAssumption
<1>5. ASSUME NEW b \in blocks' PROVE BlockOk(b)'
  <2> HIDE DEF g
  <2>1. CASE b = g  BY <1>1, <2>1
  <2>2. CASE b \in old  BY <1>1, <1>3, <1>4, <2>2, OldBlocks
  <2> QED  BY <2>1, <2>2 DEF g
<1>6. ASSUME NEW b \in blocks, b.heap = 0 PROVE b.at >= avail /\ b.at \in Nat /\ b.size \in Nat
  BY <1>3, <1>6 DEF BlockOk
<1>7. \A b, c \in blocks : b # c /\ b.heap = 0 /\ c.heap = 0 => b.at + b.size <= c.at \/ c.at + c.size <= b.at
  BY <1>2 DEF AllocInv
<1>8. g.at \in Nat /\ g.size \in Nat
  <2>1. BlockOk(g)' \/ TRUE  OBVIOUS
  <2>2. ASSUME NEW x, x = g PROVE x.at \in Nat /\ x.size \in Nat
    BY <1>1, <2>2 DEF BlockOk
  <2> QED  BY <2>2
<1>9. ASSUME NEW b \in blocks', NEW c \in blocks', b # c, b.heap = 0, c.heap = 0
      PROVE  b.at + b.size <= c.at \/ c.at + c.size <= b.at
  <2>1. b \in old \cup {g} /\ c \in old \cup {g}  OBVIOUS
  <2> HIDE DEF g
  <2>2. CASE b \in old /\ c \in old  BY <1>7, <1>9, <2>2
  <2>3. CASE b = g /\ c \in old
    <3>1. c.at >= avail /\ c.at \in Nat  BY <1>6, <1>9, <2>3
    <3> QED  BY <1>1, <1>3, <1>4, <1>8, <1>9, <2>3, <3>1
  <2>4. CASE c = g /\ b \in old
    <3>1. b.at >= avail /\ b.at \in Nat  BY <1>6, <1>9, <2>4
    <3> QED  BY <1>1, <1>3, <1>4, <1>8, <1>9, <2>4, <3>1
  <2> QED  BY <1>9, <2>1, <2>2, <2>3, <2>4
<1> QED  BY <1>1, <1>2, <1>5, <1>9 DEF AllocInv

\* Blocks with a length that wraps say nothing more.
LEMMA AllocSteps ==
  ASSUME AllocInv, AllocNext
  PROVE  AllocInv'
<1>1. ASSUME NEW n \in Requests, AllocNew(n) PROVE AllocInv'
  <2>1. Gets(n) /\ foreign' = foreign /\ blocks' = blocks \cup {Given(n)}  BY <1>1 DEF AllocNew
  <2>2. CASE wrapped'
    BY <2>1, <2>2 DEF AllocInv, Gets
  <2>3. CASE ~wrapped'
    <3>1. foreign' = FALSE  BY <2>1, <2>3 DEF AllocInv, Gets
    <3> QED  BY <2>1, <2>3, <3>1, WithNew
  <2> QED  BY <2>2, <2>3
<1>2. ASSUME NEW n \in Requests, NEW b \in blocks, AllocRe(b, n) PROVE AllocInv'
  <2>1. Gets(n) /\ Frees(b) /\ blocks' = (blocks \ {b}) \cup {Given(n)}  BY <1>2 DEF AllocRe
  <2>2. CASE wrapped'
    BY <2>1, <2>2 DEF AllocInv, Gets, Frees
  <2>3. CASE ~wrapped'
    <3>1. ~foreign /\ BlockOk(b)  BY <2>1, <2>3 DEF AllocInv, Gets
    <3>2. foreign' = FALSE  BY <2>1, <3>1, FreeIsOurs
    <3> QED  BY <2>1, <2>3, <3>2, WithNew
  <2> QED  BY <2>2, <2>3
<1>3. ASSUME NEW n \in Requests, NoMemory(n) PROVE AllocInv'
  BY <1>3 DEF NoMemory, AllocInv, allocVars, BlockOk
<1>4. ASSUME NEW b \in blocks, AllocFree(b) PROVE AllocInv'
  <2>1. Frees(b) /\ blocks' = blocks \ {b} /\ UNCHANGED <<avail, number, wrapped>>  BY <1>4 DEF AllocFree
  <2>2. CASE wrapped
    BY <2>1, <2>2 DEF AllocInv, Frees
  <2>3. CASE ~wrapped
    <3>1. ~foreign /\ BlockOk(b)  BY <2>3 DEF AllocInv
    <3>2. foreign' = FALSE  BY <2>1, <3>1, FreeIsOurs
    <3> QED  BY <2>1, <2>3, <3>2 DEF AllocInv, BlockOk
  <2> QED  BY <2>2, <2>3 DEF AllocInv
<1> QED  BY <1>1, <1>2, <1>3, <1>4 DEF AllocNext

\* Blocks in use lie apart and have their room, for any lengths asked for, whatever the
\* alignment, the space and the width of an unsigned int (alloc.c:14-42).
THEOREM AllocKeepsApart == AllocSpec => []BlocksApart
<1>1. AllocInit => AllocInv
  <2>1. Space \in Nat /\ Space % Align = 0  BY AllocAssumption
  <2> SUFFICES ASSUME AllocInit PROVE AllocInv  OBVIOUS
  <2>2. /\ avail = Space /\ blocks = {} /\ number = 0 /\ wrapped = FALSE /\ foreign = FALSE
    BY DEF AllocInit
  <2>3. avail \in 0 .. Space /\ number \in Nat  BY <2>1, <2>2
  <2>4. avail % Align = 0  BY <2>1, <2>2, Zenon
  <2> QED  BY <2>2, <2>3, <2>4, Zenon DEF AllocInv
<1>2. AllocInv /\ [AllocNext]_allocVars => AllocInv'
  <2>1. ASSUME AllocInv, UNCHANGED allocVars PROVE AllocInv'
    BY <2>1 DEF AllocInv, allocVars, BlockOk
  <2>2. ASSUME AllocInv, AllocNext PROVE AllocInv'  BY <2>2, AllocSteps
  <2> QED  BY <2>1, <2>2
<1>3. AllocInv => BlocksApart  BY DEF AllocInv, BlocksApart, BlockOk
<1> QED  BY <1>1, <1>2, <1>3, PTL DEF AllocSpec

-----------------------------------------------------------------------------
(***************************************************************************)
(* The addresses of sockets                                                *)
(***************************************************************************)
\* What holds between the steps of a program: as long as no lookup has come in between,
\* ipv4socket is that of its address, also when it answers to whom it has heard, and the
\* socket is of its family.
SocketInv ==
  /\ ip \in Addresses /\ ipv4socket \in BOOLEAN /\ sock \in {0, 4, 6}
  /\ stale \in BOOLEAN /\ fellback \in BOOLEAN
  /\ ~stale /\ ipv4socket => IsMapped(ip) /\ sock \in {0, 4}
  /\ ~stale /\ heard = Nothing /\ IsMapped(ip) => ipv4socket
  /\ ~stale /\ heard = Nothing /\ ~fellback /\ sock = 4 => ipv4socket
  /\ sock = 0 => given.call = "none"
  /\ RightHost /\ FamilyFits

\* An address given to the kernel names its host when the family is right.
LEMMA HostGiven ==
  ASSUME NEW a \in Addresses, NEW s
  PROVE  /\ HostOf(Sockaddr6(a, s)) = a /\ Sockaddr6(a, s).family = 6 /\ Sockaddr6(a, s).scope = s
         /\ Sockaddr4(a.low).family = 4
         /\ IsMapped(a) => HostOf(Sockaddr4(a.low)) = a
BY DEF HostOf, Sockaddr4, Sockaddr6, Addresses, IsMapped

\* A call with an address, when the choice of the family is right unless ipv4socket is
\* another's
LEMMA CallKeeps ==
  ASSUME SocketInv, NEW name \in {"bind", "connect", "send"}, NEW four \in BOOLEAN, Tells(name, four),
         four => IsMapped(ip) \/ (stale /\ name # "send"),
         heard = Nothing /\ ~stale /\ ~fellback /\ name # "send" => (four <=> sock = 4)
  PROVE  SocketInv'
<1> USE DEF SocketInv
<1>1. /\ sock # 0 /\ ipv4socket' = ipv4socket /\ sock' = sock /\ ip' = ip /\ scope' = scope
      /\ heard' = heard /\ told' = told /\ stale' = stale /\ fellback' = fellback
      /\ given' = [call |-> name, stale |-> stale,
                   sa |-> IF four THEN Sockaddr4(ip.low) ELSE Sockaddr6(ip, scope)]
  BY DEF Tells
<1>2. given'.call = name /\ given'.stale = stale /\ (four => given'.sa = Sockaddr4(ip.low)) /\ (~four => given'.sa = Sockaddr6(ip, scope))
  BY <1>1
<1>3. RightHost'
  <2>1. heard' # Nothing => HostOf(heard)' = ip' /\ (told' => heard'.scope = scope')  BY <1>1 DEF RightHost, HostOf
  <2>2. CASE four  BY <1>1, <1>2, <2>1, <2>2, HostGiven DEF RightHost, HostOf, IsMapped, Sockaddr4
  <2>3. CASE ~four  BY <1>1, <1>2, <2>1, <2>3, HostGiven DEF RightHost, HostOf, IsMapped, Sockaddr4
  <2> QED  BY <2>2, <2>3
<1>4. FamilyFits'
  <2>1. CASE four  BY <1>1, <1>2, <2>1, HostGiven DEF FamilyFits
  <2>2. CASE ~four  BY <1>1, <1>2, <2>2, HostGiven DEF FamilyFits
  <2> QED  BY <2>1, <2>2
<1> QED  BY <1>1, <1>3, <1>4 DEF IsMapped

\* Every call and every answer of the kernel keeps the invariant.
LEMMA SocketSteps ==
  ASSUME SocketInv, SocketsNext
  PROVE  SocketInv'
<1> USE DEF SocketInv
<1>1. ASSUME NEW a \in Addresses, NEW s \in Scopes, Means(a, s)
      PROVE  SocketInv'
  <2>1. /\ ip' = a /\ sock' = 0 /\ given' = NoCall /\ heard' = Nothing /\ told' = FALSE
        /\ stale' = FALSE /\ fellback' = FALSE /\ ipv4socket' = IsMapped(a)
    BY <1>1 DEF Means
  <2>2. given'.call = "none"  BY <2>1 DEF NoCall
  <2>3. (ipv4socket' <=> IsMapped(ip)') /\ ipv4socket' \in BOOLEAN  BY <2>1 DEF IsMapped
  <2>4. RightHost' /\ FamilyFits'  BY <2>1, <2>2 DEF RightHost, FamilyFits, Nothing
  <2>5. ip' \in Addresses /\ sock' \in {0, 4, 6} /\ stale' \in BOOLEAN /\ fellback' \in BOOLEAN
    BY <2>1
  <2>6. (~stale' /\ ipv4socket' => IsMapped(ip)' /\ sock' \in {0, 4}) /\ sock' # 4
    BY <2>1, <2>3
  <2> HIDE DEF SocketInv
  <2> QED  BY <2>2, <2>3, <2>4, <2>5, <2>6 DEF SocketInv
<1>2. ASSUME NEW a \in Addresses, Lookup(a)
      PROVE  SocketInv'
  <2>1. /\ stale' = TRUE /\ ipv4socket' \in BOOLEAN /\ sock' = sock /\ ip' = ip /\ scope' = scope
        /\ given' = given /\ heard' = heard /\ told' = told /\ fellback' = fellback
    BY <1>2 DEF Lookup, IsMapped
  <2>2. RightHost'  BY <2>1 DEF RightHost, HostOf, IsMapped, Sockaddr4
  <2>3. FamilyFits'  BY <2>1 DEF FamilyFits
  <2> QED  BY <2>1, <2>2, <2>3
<1>3. ASSUME NEW msg, msg.family = 4 => msg.addr \in Lows /\ msg.scope = 0, msg.family = 6 => msg.addr \in Addresses,
             NEW wanted \in BOOLEAN, Hears(msg, wanted)
      PROVE  SocketInv'
  <2>1. /\ sock # 0 /\ msg.family = sock /\ heard' = msg /\ ip' = Taken(msg)
        /\ told' = wanted /\ (wanted => scope' = IF msg.family = 4 THEN 0 ELSE msg.scope)
        /\ given' = NoCall
        /\ ipv4socket' = ipv4socket /\ sock' = sock /\ stale' = stale /\ fellback' = fellback
    BY <1>3 DEF Hears
  <2>2. heard' # Nothing  BY <2>1 DEF Nothing
  <2>3. ip' \in Addresses  BY <2>1, <1>3, SocketsAssumption DEF Taken, Addresses
  <2>4. HostOf(heard') = ip' /\ (told' => heard'.scope = scope')  BY <2>1, <1>3 DEF HostOf, Taken
  <2>5. RightHost' /\ FamilyFits'  BY <2>1, <2>2, <2>4 DEF RightHost, FamilyFits, HostOf, NoCall
  <2>6. ~stale' /\ ipv4socket' => IsMapped(ip)'  BY <2>1 DEF Taken, IsMapped
  <2> QED  BY <2>1, <2>2, <2>3, <2>5, <2>6
<1>4. ASSUME OpenSocket
      PROVE  SocketInv'
  <2>1. sock = 0 /\ UNCHANGED <<ipv4socket, ip, scope, given, heard, told, stale>>  BY <1>4 DEF OpenSocket
  <2>2. sock' \in {0, 4, 6} /\ fellback' \in BOOLEAN
    BY <1>4 DEF OpenSocket, Socket4, Socket6
  <2>3. ipv4socket => sock' \in {0, 4}  BY <1>4 DEF OpenSocket, Socket4
  <2>4. sock' = 4 => ipv4socket \/ fellback'
    <3>1. CASE ~ipv4socket
      <4>1. Socket6  BY <1>4, <3>1 DEF OpenSocket
      <4>2. ASSUME fellback' = (sock' = 4), sock' = 4 PROVE fellback'  BY <4>2
      <4>3. sock' \in {0, 6} => sock' # 4  OBVIOUS
      <4> QED  BY <4>1, <4>2, <4>3, Zenon DEF Socket6
    <3> QED  BY <3>1
  <2>5. RightHost'  BY <2>1 DEF RightHost, HostOf, IsMapped, Sockaddr4
  <2>6. FamilyFits'  BY <2>1 DEF FamilyFits
  <2> QED  BY <2>1, <2>2, <2>3, <2>4, <2>5, <2>6 DEF IsMapped
<1>5. ASSUME SocketBind
      PROVE  SocketInv'
  <2>1. Tells("bind", ipv4socket) /\ sock # 0  BY <1>5 DEF SocketBind, Tells
  <2>2. ipv4socket => IsMapped(ip) \/ stale  OBVIOUS
  <2>3. heard = Nothing /\ ~stale /\ ~fellback => (ipv4socket <=> sock = 4)  BY <2>1
  <2> QED  BY <2>1, <2>2, <2>3, CallKeeps
<1>6. ASSUME SocketConnect
      PROVE  SocketInv'
  <2> DEFINE four == ipv4socket \/ IsMapped(ip)
  <2>1. Tells("connect", four) /\ sock # 0 /\ four \in BOOLEAN  BY <1>6 DEF SocketConnect, Tells
  <2>2. four => IsMapped(ip) \/ stale  OBVIOUS
  <2>3. heard = Nothing /\ ~stale /\ ~fellback => (four <=> sock = 4)  BY <2>1
  <2> HIDE DEF four
  <2> QED  BY <2>1, <2>2, <2>3, CallKeeps
<1>7. ASSUME SocketSend
      PROVE  SocketInv'
  <2>1. Tells("send", IsMapped(ip)) /\ IsMapped(ip) \in BOOLEAN  BY <1>7 DEF SocketSend, IsMapped
  <2> QED  BY <2>1, CallKeeps
<1>8. \A a \in Addresses, s \in Scopes : Sockaddr6(a, s).family = 6 /\ Sockaddr6(a, s).addr = a
  BY DEF Sockaddr6
<1>9. \A l \in Lows : Sockaddr4(l).family = 4 /\ Sockaddr4(l).addr = l /\ Sockaddr4(l).scope = 0
  BY DEF Sockaddr4
<1>10. ASSUME NEW a \in Addresses, NEW s \in Scopes, Answers(Sockaddr6(a, s)) PROVE SocketInv'
  <2>1. PICK wanted \in BOOLEAN : Hears(Sockaddr6(a, s), wanted)
    BY <1>10 DEF Answers, SocketRecv, SocketAccept, SocketLocal, SocketRemote
  <2> HIDE DEF SocketInv
  <2> QED  BY <2>1, <1>8, <1>3
<1>11. ASSUME NEW l \in Lows, Answers(Sockaddr4(l)) PROVE SocketInv'
  <2>1. PICK wanted \in BOOLEAN : Hears(Sockaddr4(l), wanted)
    BY <1>11 DEF Answers, SocketRecv, SocketAccept, SocketLocal, SocketRemote
  <2> HIDE DEF SocketInv
  <2> QED  BY <2>1, <1>9, <1>3
<1> HIDE DEF SocketInv
<1> QED  BY <1>1, <1>2, <1>4, <1>5, <1>6, <1>7, <1>10, <1>11 DEF SocketsNext

\* The invariant holds for every specification of a program and its sockets.
LEMMA SocketsInvariant == SocketsSpec => []SocketInv
<1>1. SocketsInit => SocketInv
  <2> SUFFICES ASSUME SocketsInit PROVE SocketInv  OBVIOUS
  <2>1. ip \in Addresses
    <3>1. (CHOOSE l \in Lows : TRUE) \in Lows  BY SocketsAssumption
    <3> QED  BY <3>1, SocketsAssumption DEF SocketsInit, Addresses
  <2>2. /\ ipv4socket = FALSE /\ sock = 0 /\ given.call = "none" /\ heard = Nothing
        /\ stale = TRUE /\ fellback = FALSE
    BY DEF SocketsInit, NoCall
  <2> QED  BY <2>1, <2>2 DEF SocketInv, RightHost, FamilyFits
<1>2. SocketInv /\ [SocketsNext]_socketVars => SocketInv'
  <2>1. ASSUME SocketInv, UNCHANGED socketVars PROVE SocketInv'
    BY <2>1 DEF SocketInv, socketVars, RightHost, FamilyFits, HostOf, IsMapped, Sockaddr4
  <2>2. ASSUME SocketInv, SocketsNext PROVE SocketInv'  BY <2>2, SocketSteps
  <2> QED  BY <2>1, <2>2
<1> QED  BY <1>1, <1>2, PTL DEF SocketsSpec

\* Whom the kernel names is whom the program answers to, and whom the program means is
\* told the kernel, with an address of the family of the socket, whatever the hosts are;
\* bind and connect alone, and only after a lookup of a name in between, may take an
\* address of IPv6 for the IPv4 address in its last 4 bytes (socket_bind.c,
\* socket_connect.c, socket_send.c, socket_recv.c, socket_info.c, socket_setup.c).
THEOREM AddressesAreRight == SocketsSpec => []AddressesFit
<1>1. SocketInv => AddressesFit  BY DEF SocketInv, AddressesFit
<1> QED  BY <1>1, SocketsInvariant, PTL

-----------------------------------------------------------------------------
(***************************************************************************)
(* Descriptors: a copy arrives, or what was there stays                    *)
(***************************************************************************)
\* What holds between two calls
FdInv == table \in [Fds -> OpenFiles \cup {Closed}] /\ CopyOrKeep

\* The lowest free number from a closed one on is the closed one itself: F_DUPFD puts the
\* copy where fd_copy has made room for it (fd.c:16-18).
LEMMA LowestIsTarget ==
  ASSUME NEW t, NEW to \in Fds, t[to] = Closed,
         NEW k \in FreeFrom(t, to), \A l \in FreeFrom(t, to) : k <= l
  PROVE  k = to
<1>1. to \in Nat /\ k \in Nat /\ k >= to  BY FdAssumption DEF FreeFrom
<1>2. to \in FreeFrom(t, to)  BY <1>1 DEF FreeFrom
<1> QED  BY <1>1, <1>2

\* How fd_copy may end
LEMMA CopyEnds ==
  ASSUME table \in [Fds -> OpenFiles \cup {Closed}], NEW to \in Fds, NEW from \in Fds,
         NEW c \in Copied(to, from)
  PROVE  /\ c.table \in [Fds -> OpenFiles \cup {Closed}]
         /\ \A n \in Fds \ {to} : c.table[n] = table[n]
         /\ \/ c.ret = 0 /\ c.table[to] = table[from]
            \/ c.ret = 1 /\ to # from /\ c.table[to] = table[to]
            \/ c.ret = 1 /\ to # from /\ c.table[to] = Closed /\ table[from] # Closed
<1> DEFINE shut == [table EXCEPT ![to] = Closed]
<1>1. shut \in [Fds -> OpenFiles \cup {Closed}] /\ shut[to] = Closed /\ \A n \in Fds \ {to} : shut[n] = table[n]
  OBVIOUS
<1> HIDE DEF shut
<1>2. CASE c = [ret |-> 0, table |-> table] /\ to = from  BY <1>2
<1>3. CASE c = [ret |-> 1, table |-> table] /\ to # from  BY <1>3
<1>4. CASE c = [ret |-> 1, table |-> shut] /\ to # from /\ table[from] # Closed  BY <1>1, <1>4
<1>5. CASE to # from /\ table[from] # Closed
           /\ \E k \in FreeFrom(shut, to) : /\ \A l \in FreeFrom(shut, to) : k <= l
                                            /\ c = [ret |-> 0, table |-> [shut EXCEPT ![k] = table[from]]]
  <2>1. PICK k \in FreeFrom(shut, to) : /\ \A l \in FreeFrom(shut, to) : k <= l
                                        /\ c = [ret |-> 0, table |-> [shut EXCEPT ![k] = table[from]]]
    BY <1>5
  <2>2. k = to  BY <1>1, <2>1, LowestIsTarget
  <2>3. c.ret = 0 /\ c.table = [shut EXCEPT ![to] = table[from]]  BY <2>1, <2>2
  <2> QED  BY <1>1, <2>3
<1> QED  BY <1>2, <1>3, <1>4, <1>5 DEF Copied, shut

\* Whatever descriptors a process has, and in whatever order it moves them, each move
\* arrives or leaves the others alone (fd.c:13-28).
THEOREM DescriptorsMove == FdSpec => []CopyOrKeep
<1>1. FdInit => FdInv  BY DEF FdInit, FdInv, CopyOrKeep
<1>2. FdInv /\ [FdNext]_fdVars => FdInv'
  <2> SUFFICES ASSUME FdInv, [FdNext]_fdVars PROVE FdInv'  OBVIOUS
  <2>1. ASSUME NEW to \in Fds, NEW from \in Fds, FdCopy(to, from)
        PROVE  FdInv'
    <3>1. PICK c \in Copied(to, from) : table' = c.table /\ fret' = c.ret  BY <2>1 DEF FdCopy
    <3>2. moved' = [call |-> "copy", to |-> to, from |-> from, found |-> table]  BY <2>1 DEF FdCopy
    <3> QED  BY <3>1, <3>2, CopyEnds DEF FdInv, CopyOrKeep
  <2>2. ASSUME NEW to \in Fds, NEW from \in Fds, FdMove(to, from)
        PROVE  FdInv'
    <3>1. PICK c \in Copied(to, from) :
            /\ fret' = c.ret
            /\ table' = IF to # from /\ c.ret = 0 THEN [c.table EXCEPT ![from] = Closed] ELSE c.table
      BY <2>2 DEF FdMove
    <3>2. moved' = [call |-> "move", to |-> to, from |-> from, found |-> table]  BY <2>2 DEF FdMove
    <3>3. /\ c.table \in [Fds -> OpenFiles \cup {Closed}]
          /\ \A n \in Fds \ {to} : c.table[n] = table[n]
          /\ \/ c.ret = 0 /\ c.table[to] = table[from]
             \/ c.ret = 1 /\ to # from /\ c.table[to] = table[to]
             \/ c.ret = 1 /\ to # from /\ c.table[to] = Closed /\ table[from] # Closed
      BY CopyEnds DEF FdInv
    <3>4. CASE to # from /\ c.ret = 0
      <4>1. table' = [c.table EXCEPT ![from] = Closed]  BY <3>1, <3>4
      <4>2. /\ table' \in [Fds -> OpenFiles \cup {Closed}] /\ table'[from] = Closed
            /\ \A n \in Fds \ {from} : table'[n] = c.table[n]
        BY <3>3, <4>1
      <4> QED  BY <3>1, <3>2, <3>3, <3>4, <4>2 DEF FdInv, CopyOrKeep
    <3>5. CASE ~(to # from /\ c.ret = 0)
      <4>1. table' = c.table  BY <3>1, <3>5
      <4> QED  BY <3>1, <3>2, <3>3, <3>5, <4>1 DEF FdInv, CopyOrKeep
    <3> QED  BY <3>4, <3>5
  <2>3. CASE UNCHANGED fdVars  BY <2>3 DEF FdInv, CopyOrKeep, fdVars
  <2> QED  BY <2>1, <2>2, <2>3 DEF FdNext
<1>3. FdInv => CopyOrKeep  BY DEF FdInv
<1> QED  BY <1>1, <1>2, <1>3, PTL DEF FdSpec

-----------------------------------------------------------------------------
(***************************************************************************)
(* The environment                                                         *)
(***************************************************************************)
\* where e has strings of the name n
Where(e, n) == {k \in DOMAIN e : IsOf(e[k], n)}

\* what they say
Said(e, n) == {e[k].value : k \in Where(e, n)}

LEMMA WhereIsFinite ==
  ASSUME NEW e \in Seq(EnvStrings), NEW n
  PROVE  /\ Where(e, n) \in SUBSET (1 .. Len(e)) /\ IsFiniteSet(Where(e, n))
         /\ NumberOf(e, n) = Cardinality(Where(e, n)) /\ NumberOf(e, n) \in Nat
<1>1. Len(e) \in Nat /\ DOMAIN e = 1 .. Len(e)  BY LenProperties
<1>2. Where(e, n) \in SUBSET (1 .. Len(e))  BY <1>1 DEF Where
<1>3. IsFiniteSet(1 .. Len(e))  BY <1>1, FS_Interval
<1>4. IsFiniteSet(Where(e, n))  BY <1>2, <1>3, FS_Subset
<1> QED  BY <1>2, <1>4, FS_CardinalityType DEF Where, NumberOf

\* A string that is deleted makes way for the last.
LEMMA DelIs ==
  ASSUME NEW e \in Seq(EnvStrings), NEW k \in 1 .. Len(e)
  PROVE  /\ Del(e, k) \in Seq(EnvStrings) /\ Len(Del(e, k)) = Len(e) - 1
         /\ \A j \in 1 .. Len(e) - 1 : Del(e, k)[j] = IF j = k THEN e[Len(e)] ELSE e[j]
<1>1. PICK n \in Nat \ {0} : n = Len(e) /\ DOMAIN e = 1 .. n  BY LenProperties
<1>2. n \in 1 .. n /\ e[n] \in EnvStrings  BY <1>1, ElementOfSeq
<1> DEFINE f == [e EXCEPT ![k] = e[n]]
<1>3. f \in Seq(EnvStrings) /\ Len(f) = n  BY <1>1, <1>2
<1>4. \A j \in 1 .. n : f[j] = IF j = k THEN e[n] ELSE e[j]  BY <1>1
<1>5. Del(e, k) = SubSeq(f, 1, n - 1)  BY <1>1 DEF Del
<1> HIDE DEF f
<1>6. SubSeq(f, 1, n - 1) = [i \in 1 .. n - 1 |-> f[i]]
  <2>1. SubSeq(f, 1, n - 1) = [i \in 1 .. (1 + (n - 1) - 1) |-> f[1 + i - 1]]  BY <1>3, SubSeqProperties
  <2>2. 1 + (n - 1) - 1 = n - 1 /\ \A i \in 1 .. n - 1 : 1 + i - 1 = i  OBVIOUS
  <2> QED  BY <2>1, <2>2
<1>7. \A j \in 1 .. n - 1 : j \in 1 .. n /\ f[j] \in EnvStrings  BY <1>3, ElementOfSeq
<1>8. Del(e, k) \in Seq(EnvStrings) /\ Len(Del(e, k)) = n - 1
  <2>1. n - 1 \in Nat  OBVIOUS
  <2> QED  BY <1>5, <1>6, <1>7, <2>1
<1> QED  BY <1>1, <1>4, <1>5, <1>6, <1>7, <1>8

\* It leaves the strings of other names, and one less of its own.
LEMMA DelCounts ==
  ASSUME NEW e \in Seq(EnvStrings), NEW k \in 1 .. Len(e), NEW n
  PROVE  /\ NumberOf(Del(e, k), n) = NumberOf(e, n) - IF IsOf(e[k], n) THEN 1 ELSE 0
         /\ ~IsOf(e[k], n) => Said(Del(e, k), n) = Said(e, n)
<1>1. PICK l \in Nat \ {0} : l = Len(e) /\ DOMAIN e = 1 .. l /\ k \in 1 .. l  BY LenProperties
<1>2. PICK d \in Seq(EnvStrings) : d = Del(e, k) /\ DOMAIN d = 1 .. l - 1
                                   /\ \A j \in 1 .. l - 1 : d[j] = IF j = k THEN e[l] ELSE e[j]
  <2>1. Del(e, k) \in Seq(EnvStrings) /\ Len(Del(e, k)) = l - 1
    BY <1>1, DelIs
  <2>2. \A j \in 1 .. l - 1 : Del(e, k)[j] = IF j = k THEN e[l] ELSE e[j]
    BY <1>1, DelIs
  <2>3. DOMAIN Del(e, k) = 1 .. l - 1  BY <2>1, LenProperties
  <2> QED  BY <2>1, <2>2, <2>3
<1> DEFINE W == Where(e, n)  V == Where(d, n)
<1>3. IsFiniteSet(W) /\ Cardinality(W) = NumberOf(e, n) /\ Cardinality(W) \in Nat
      /\ Cardinality(V) = NumberOf(d, n)
  BY WhereIsFinite
<1>. Said(d, n) = {d[j].value : j \in V} /\ Said(e, n) = {e[j].value : j \in W}  BY DEF Said
<1>4. CASE ~IsOf(e[l], n)
  <2>1. V = W \ {k}
    <3>1. \A j : j \in V <=> j \in 1 .. l - 1 /\ j # k /\ IsOf(e[j], n)  BY <1>2, <1>4 DEF Where
    <3>2. \A j : j \in W <=> j \in 1 .. l - 1 /\ IsOf(e[j], n)  BY <1>1, <1>4 DEF Where
    <3> HIDE DEF V, W
    <3> QED  BY <3>1, <3>2
  <2>2. k \in W <=> IsOf(e[k], n)  BY <1>1 DEF Where
  <2>3. \A j \in V : d[j] = e[j]  BY <2>1, <1>2 DEF Where
  <2> HIDE DEF V, W
  <2>4. Cardinality(V) = IF k \in W THEN Cardinality(W) - 1 ELSE Cardinality(W)
    BY <1>3, <2>1, FS_RemoveElement
  <2>5. ~IsOf(e[k], n) => V = W  BY <2>1, <2>2
  <2>6. ~IsOf(e[k], n) => {d[j].value : j \in V} = {e[j].value : j \in W}  BY <2>3, <2>5
  <2>7. Cardinality(V) = Cardinality(W) - IF IsOf(e[k], n) THEN 1 ELSE 0  BY <1>3, <2>2, <2>4
  <2> QED  BY <1>2, <1>3, <2>6, <2>7
<1>5. CASE IsOf(e[l], n)
  <2>1. l \in W /\ (k \in W <=> IsOf(e[k], n))  BY <1>1, <1>5 DEF Where
  <2>2. V = (W \ {l}) \cup (IF k = l THEN {} ELSE {k})
    <3>1. \A j : j \in V <=> j \in 1 .. l - 1 /\ (j = k \/ IsOf(e[j], n))  BY <1>2, <1>5 DEF Where
    <3>2. \A j : j \in W \ {l} <=> j \in 1 .. l - 1 /\ IsOf(e[j], n)  BY <1>1, <1>5 DEF Where
    <3> HIDE DEF V, W
    <3> QED  BY <3>1, <3>2, <1>1
  <2> HIDE DEF V, W
  <2>3. IsFiniteSet(W \ {l}) /\ Cardinality(W \ {l}) = Cardinality(W) - 1  BY <1>3, <2>1, FS_RemoveElement
  <2>4. CASE k = l
    <3>1. V = W \ {l}  BY <2>2, <2>4
    <3> QED  BY <1>2, <1>3, <1>5, <2>3, <2>4, <3>1
  <2>5. CASE k # l
    <3>1. V = (W \ {l}) \cup {k}  BY <2>2, <2>5
    <3>2. Cardinality(V) = IF k \in W \ {l} THEN Cardinality(W) - 1 ELSE Cardinality(W) - 1 + 1
      BY <2>3, <3>1, FS_AddElement
    <3>3. k \in W \ {l} <=> IsOf(e[k], n)  BY <2>1, <2>5
    <3>4. Cardinality(W) - 1 + 1 = Cardinality(W)  BY <1>3
    <3>5. Cardinality(V) = Cardinality(W) - IF IsOf(e[k], n) THEN 1 ELSE 0  BY <1>3, <3>2, <3>3, <3>4
    <3>6. ASSUME ~IsOf(e[k], n) PROVE {d[j].value : j \in V} = {e[j].value : j \in W}
      <4>1. k \notin W /\ d[k] = e[l]  BY <1>1, <1>2, <2>1, <2>5, <3>6
      <4>2. \A j \in W \ {l} : j \in V /\ d[j] = e[j]  BY <1>1, <1>2, <3>1, <4>1 DEF W, Where
      <4> QED  BY <2>1, <3>1, <4>1, <4>2
    <3> QED  BY <1>2, <1>3, <3>5, <3>6
  <2> QED  BY <2>4, <2>5
<1> QED  BY <1>4, <1>5

\* Two environments have the same of a name.
SameStrings(d, e, n) == NumberOf(d, n) = NumberOf(e, n) /\ Said(d, n) = Said(e, n)

\* What env_get finds is what a string of the name says, and all of them when there is one.
LEMMA GetIs ==
  ASSUME NEW e \in Seq(EnvStrings), NEW n
  PROVE  /\ Where(e, n) = {} => EnvGet(e, n) = NoValue
         /\ Where(e, n) # {} => EnvGet(e, n) \in Said(e, n)
<1>1. Len(e) \in Nat /\ DOMAIN e = 1 .. Len(e) /\ Where(e, n) \subseteq Nat  BY LenProperties DEF Where
<1>2. Where(e, n) = {i \in 1 .. Len(e) : IsOf(e[i], n)}  BY <1>1 DEF Where
<1>3. SelectInSeq(e, LAMBDA s : IsOf(s, n)) = IF Where(e, n) # {} THEN Min(Where(e, n)) ELSE 0
  BY <1>2 DEF SelectInSeq
<1>4. ASSUME Where(e, n) # {} PROVE Min(Where(e, n)) \in Where(e, n)
  <2>1. \E m \in Where(e, n) : \A j \in Where(e, n) : m <= j  BY <1>1, <1>4, LeastNat
  <2> QED  BY <2>1 DEF Min
<1>5. 0 \notin Where(e, n)  BY <1>1 DEF Where
<1>6. EnvGet(e, n) = IF Where(e, n) # {} THEN e[Min(Where(e, n))].value ELSE NoValue
  BY <1>3, <1>4, <1>5 DEF EnvGet
<1> QED  BY <1>4, <1>6 DEF Said

\* A name that is there once has one value.
LEMMA GetOnce ==
  ASSUME NEW e \in Seq(EnvStrings), NEW n
  PROVE  /\ NumberOf(e, n) = 0 => EnvGet(e, n) = NoValue
         /\ NumberOf(e, n) = 1 => Said(e, n) = {EnvGet(e, n)}
<1>1. IsFiniteSet(Where(e, n)) /\ NumberOf(e, n) = Cardinality(Where(e, n))  BY WhereIsFinite
<1>2. NumberOf(e, n) = 0 => Where(e, n) = {}  BY <1>1, FS_EmptySet
<1>3. ASSUME NumberOf(e, n) = 1 PROVE Said(e, n) = {EnvGet(e, n)}
  <2>1. PICK k : Where(e, n) = {k}  BY <1>1, <1>3, FS_Singleton
  <2>2. Said(e, n) = {e[k].value}  BY <2>1 DEF Said
  <2>3. EnvGet(e, n) \in Said(e, n)  BY <2>1, GetIs
  <2> QED  BY <2>2, <2>3
<1> QED  BY <1>2, <1>3, GetIs

LEMMA SameGet ==
  ASSUME NEW d \in Seq(EnvStrings), NEW e \in Seq(EnvStrings), NEW n, SameStrings(d, e, n),
         NumberOf(e, n) <= 1
  PROVE  EnvGet(d, n) = EnvGet(e, n)
<1>1. NumberOf(e, n) \in Nat /\ NumberOf(d, n) = NumberOf(e, n) /\ Said(d, n) = Said(e, n)
  BY WhereIsFinite DEF SameStrings
<1>2. CASE NumberOf(e, n) = 0  BY <1>1, <1>2, GetOnce
<1>3. CASE NumberOf(e, n) = 1  
  <2>1. {EnvGet(d, n)} = {EnvGet(e, n)}  BY <1>1, <1>3, GetOnce
  <2> QED  BY <2>1
<1> QED  BY <1>1, <1>2, <1>3

\* A string is added at the end.
LEMMA AppendCounts ==
  ASSUME NEW e \in Seq(EnvStrings), NEW s \in EnvStrings, NEW n
  PROVE  /\ Append(e, s) \in Seq(EnvStrings) /\ Len(Append(e, s)) = Len(e) + 1
         /\ NumberOf(Append(e, s), n) = NumberOf(e, n) + IF IsOf(s, n) THEN 1 ELSE 0
         /\ Said(Append(e, s), n) = Said(e, n) \cup IF IsOf(s, n) THEN {s.value} ELSE {}
<1>1. PICK l \in Nat : l = Len(e) /\ DOMAIN e = 1 .. l  BY LenProperties
<1>2. PICK d \in Seq(EnvStrings) : d = Append(e, s) /\ DOMAIN d = 1 .. l + 1 /\ Len(d) = l + 1
                                   /\ d[l + 1] = s /\ \A j \in 1 .. l : d[j] = e[j]
  <2>1. Append(e, s) \in Seq(EnvStrings) /\ Len(Append(e, s)) = l + 1
        /\ Append(e, s)[l + 1] = s /\ \A j \in 1 .. l : Append(e, s)[j] = e[j]
    BY <1>1, AppendProperties
  <2> QED  BY <2>1, LenProperties
<1> DEFINE W == Where(e, n)  V == Where(d, n)
<1>3. IsFiniteSet(W) /\ Cardinality(W) = NumberOf(e, n) /\ Cardinality(W) \in Nat
      /\ Cardinality(V) = NumberOf(d, n)
  BY WhereIsFinite
<1>4. Said(d, n) = {d[j].value : j \in V} /\ Said(e, n) = {e[j].value : j \in W}  BY DEF Said
<1>5. V = W \cup IF IsOf(s, n) THEN {l + 1} ELSE {}
  <2>1. \A j : j \in V <=> j \in 1 .. l + 1 /\ IsOf(d[j], n)  BY <1>2 DEF Where
  <2>2. \A j : j \in W <=> j \in 1 .. l /\ IsOf(e[j], n)  BY <1>1 DEF Where
  <2>3. \A j \in 1 .. l + 1 : j \in 1 .. l \/ j = l + 1  BY <1>1
  <2> HIDE DEF V, W
  <2> QED  BY <2>1, <2>2, <2>3, <1>1, <1>2
<1>6. l + 1 \notin W /\ \A j \in W : d[j] = e[j]  BY <1>1, <1>2 DEF Where
<1> HIDE DEF V, W
<1>7. CASE IsOf(s, n)
  <2>1. V = W \cup {l + 1}  BY <1>5, <1>7
  <2>2. Cardinality(V) = Cardinality(W) + 1  BY <1>3, <1>6, <2>1, FS_AddElement
  <2>3. {d[j].value : j \in V} = {e[j].value : j \in W} \cup {s.value}  BY <1>2, <1>6, <2>1
  <2> QED  BY <1>1, <1>2, <1>3, <1>4, <1>7, <2>2, <2>3
<1>8. CASE ~IsOf(s, n)
  <2>1. V = W  BY <1>5, <1>8
  <2>2. {d[j].value : j \in V} = {e[j].value : j \in W}  BY <1>6, <2>1
  <2>3. Cardinality(V) = Cardinality(W) + 0  BY <1>3, <2>1
  <2> QED  BY <1>1, <1>2, <1>3, <1>4, <1>8, <2>2, <2>3
<1> QED  BY <1>7, <1>8

\* d is what is left of e when the last of its strings have been looked at for the name n
LeftOf(d, e, n, looked) ==
  /\ d \in Seq(EnvStrings) /\ Len(e) - looked <= Len(d) /\ Len(d) <= Len(e)
  /\ Len(d) = Len(e) => d = e
  /\ \A j \in DOMAIN d : j > Len(e) - looked => ~IsOf(d[j], n)
  /\ \A m : m # n => SameStrings(d, e, m)

LEMMA DelLeaves ==
  ASSUME NEW e \in Seq(EnvStrings), NEW d, NEW n, NEW k \in 1 .. Len(e), LeftOf(d, e, n, k - 1)
  PROVE  LET i == Len(e) - k + 1
         IN  /\ i \in DOMAIN d
             /\ LeftOf(IF IsOf(d[i], n) THEN Del(d, i) ELSE d, e, n, k)
<1> DEFINE i == Len(e) - k + 1  c == Del(d, i)
<1>1. PICK l \in Nat \ {0}, u \in Nat : l = Len(e) /\ u = Len(d) /\ DOMAIN d = 1 .. u /\ k \in 1 .. l
                                        /\ l - (k - 1) <= u /\ u <= l
  <2>1. Len(e) \in Nat /\ Len(d) \in Nat /\ DOMAIN d = 1 .. Len(d)  BY LenProperties DEF LeftOf
  <2>2. Len(e) # 0  BY <2>1
  <2> QED  BY <2>1, <2>2 DEF LeftOf
<1>2. i = l - k + 1 /\ i \in 1 .. u /\ d \in Seq(EnvStrings)  BY <1>1 DEF LeftOf
<1> HIDE DEF i
<1>3. CASE ~IsOf(d[i], n)
  <2>1. ASSUME NEW j \in DOMAIN d, j > l - k PROVE ~IsOf(d[j], n)
    <3>1. j = i \/ j > l - (k - 1)  BY <1>1, <1>2, <2>1
    <3> QED  BY <1>1, <1>3, <3>1 DEF LeftOf
  <2>2. l - k <= u  BY <1>1
  <2>3. LeftOf(d, e, n, k)  BY <1>1, <2>1, <2>2 DEF LeftOf
  <2> QED  BY <1>1, <1>2, <1>3, <2>3 DEF i
<1>4. CASE IsOf(d[i], n)
  <2>1. c \in Seq(EnvStrings) /\ Len(c) = u - 1 /\ DOMAIN c = 1 .. u - 1
        /\ \A j \in 1 .. u - 1 : c[j] = IF j = i THEN d[u] ELSE d[j]
    <3>1. c \in Seq(EnvStrings) /\ Len(c) = u - 1  BY <1>1, <1>2, DelIs
    <3>2. \A j \in 1 .. u - 1 : c[j] = IF j = i THEN d[u] ELSE d[j]
      <4>1. i \in 1 .. Len(d)  BY <1>1, <1>2
      <4>2. \A j \in 1 .. Len(d) - 1 : Del(d, i)[j] = IF j = i THEN d[Len(d)] ELSE d[j]
        BY <1>2, <4>1, DelIs
      <4> QED  BY <1>1, <4>2
    <3> HIDE DEF c
    <3> QED  BY <3>1, <3>2, LenProperties
  <2>2. \A m : m # n => SameStrings(c, e, m)
    <3> SUFFICES ASSUME NEW m, m # n PROVE SameStrings(c, e, m)  OBVIOUS
    <3>1. ~IsOf(d[i], m)  BY <1>4 DEF IsOf
    <3>2. NumberOf(c, m) = NumberOf(d, m) - IF IsOf(d[i], m) THEN 1 ELSE 0  BY <1>1, <1>2, DelCounts
    <3>3. ~IsOf(d[i], m) => Said(c, m) = Said(d, m)  BY <1>1, <1>2, DelCounts
    <3>4. NumberOf(d, m) \in Nat  BY <1>2, WhereIsFinite
    <3> HIDE DEF c
    <3>5. NumberOf(c, m) = NumberOf(d, m)  BY <3>1, <3>2, <3>4
    <3>6. SameStrings(d, e, m)  BY DEF LeftOf
    <3> QED  BY <3>1, <3>3, <3>5, <3>6 DEF SameStrings
  <2> HIDE DEF c
  <2>3. ASSUME NEW j \in DOMAIN c, j > l - k PROVE ~IsOf(c[j], n)
    <3>1. j \in 1 .. u - 1 /\ j >= i  BY <1>2, <2>1, <2>3
    <3>2. u \in DOMAIN d /\ j \in DOMAIN d  BY <1>1, <3>1
    <3>3. u > l - (k - 1) /\ (j # i => j > l - (k - 1))  BY <1>1, <1>2, <3>1
    <3>4. ~IsOf(d[u], n) /\ (j # i => ~IsOf(d[j], n))  BY <1>1, <3>2, <3>3 DEF LeftOf
    <3> QED  BY <2>1, <3>1, <3>4
  <2>4. l - k <= u - 1 /\ u - 1 <= l /\ u - 1 # l  BY <1>1
  <2>5. LeftOf(c, e, n, k)  BY <1>1, <2>1, <2>2, <2>3, <2>4 DEF LeftOf
  <2> QED  BY <1>1, <1>2, <1>4, <2>5 DEF i, c
<1> QED  BY <1>3, <1>4

\* env_unsetlen leaves no string of the name, and those of the others.
LEMMA UnsetLeaves ==
  ASSUME NEW e \in Seq(EnvStrings), NEW n
  PROVE  LeftOf(UnsetLen(e, n), e, n, Len(e))
<1> DEFINE S == Seq(EnvStrings)
           l == Len(e)
           place(k) == l - k + 1
           Next1(r, k) == IF place(k) \in DOMAIN r /\ IsOf(r[place(k)], n) THEN Del(r, place(k)) ELSE r
           turn == [a \in S \X (1 .. l) |-> Next1(a[1], a[2])]
           Is(f) == f = [k \in 0 .. l |->
                      IF k = 0 THEN e
                      ELSE LET r == f[k - 1]
                               i == l - k + 1
                           IN  IF IsOf(r[i], n) THEN Del(r, i) ELSE r]
           f == CHOOSE f : Is(f)
<1>1. l \in Nat  BY LenProperties
<1>2. \A r \in S, k \in 1 .. l : Next1(r, k) \in S
  <2> SUFFICES ASSUME NEW r \in S, NEW k \in 1 .. l, place(k) \in DOMAIN r PROVE Del(r, place(k)) \in S
    OBVIOUS
  <2> HIDE DEF place
  <2> QED  BY DelIs, LenProperties
<1>3. turn \in [S \X (1 .. l) -> S]
  <2> HIDE DEF Next1, l, S
  <2> QED  BY <1>2
<1>4. PICK g : Turns(g, l, e, turn, S)
  <2> HIDE DEF turn, l
  <2> QED  BY <1>1, <1>3, TurnsExist
<1>5. g[0] = e /\ g \in [0 .. l -> S] /\ \A k \in 1 .. l : g[k - 1] \in S /\ g[k] = Next1(g[k - 1], k)
  <2>1. \A k \in 1 .. l : g[k - 1] \in S /\ <<g[k - 1], k>> \in S \X (1 .. l)  BY <1>1, <1>4 DEF Turns
  <2> HIDE DEF Next1
  <2>2. \A k \in 1 .. l : g[k] = Next1(g[k - 1], k)  BY <1>4, <2>1 DEF Turns
  <2> QED  BY <1>4, <2>1, <2>2 DEF Turns
<1> HIDE DEF turn, S
<1> DEFINE T == {k \in 0 .. l : LeftOf(g[k], e, n, k)}
<1>6. 0 \in T
  <2>1. LeftOf(e, e, n, 0)
    <3>1. \A m : SameStrings(e, e, m)  BY DEF SameStrings
    <3>2. DOMAIN e = 1 .. l  BY LenProperties
    <3> QED  BY <1>1, <3>1, <3>2 DEF LeftOf
  <2> QED  BY <1>1, <1>5, <2>1
<1>7. ASSUME NEW k \in 1 .. l, k - 1 \in T
      PROVE  k \in T /\ place(k) \in DOMAIN g[k - 1]
  <2>1. LeftOf(g[k - 1], e, n, k - 1)  BY <1>7
  <2>2. place(k) \in DOMAIN g[k - 1]  BY <2>1, DelLeaves
  <2>3. LeftOf(IF IsOf(g[k - 1][place(k)], n) THEN Del(g[k - 1], place(k)) ELSE g[k - 1], e, n, k)
    BY <2>1, DelLeaves
  <2> QED  BY <1>1, <1>5, <2>2, <2>3
<1>8. \A k \in 0 .. l : k \in T
  <2> HIDE DEF T, l
  <2> QED  BY <1>1, <1>6, <1>7, Induct
<1>9. Is(g)
  <2>1. \A k \in 1 .. l : g[k] = LET r == g[k - 1]
                                     i == l - k + 1
                                 IN  IF IsOf(r[i], n) THEN Del(r, i) ELSE r
    <3> SUFFICES ASSUME NEW k \in 1 .. l
                 PROVE  g[k] = IF IsOf(g[k - 1][place(k)], n) THEN Del(g[k - 1], place(k)) ELSE g[k - 1]
      OBVIOUS
    <3>1. k - 1 \in 0 .. l  BY <1>1
    <3>2. place(k) \in DOMAIN g[k - 1]  BY <1>7, <1>8, <3>1
    <3> QED  BY <1>5, <3>2
  <2>2. \A k \in 0 .. l : k = 0 \/ k \in 1 .. l  BY <1>1
  <2> HIDE DEF l
  <2> QED  BY <1>5, <2>1, <2>2
<1>10. PICK h : h = f /\ Is(h)
  <2> HIDE DEF Is
  <2> QED  BY <1>9
<1>11. \A k \in 0 .. l : h[k] = g[k]
  <2>1. h[0] = g[0]
    <3>1. 0 \in 0 .. l  BY <1>1
    <3>2. h[0] = e
      <4> HIDE DEF l
      <4> QED  BY <1>10, <3>1
    <3> QED  BY <1>5, <3>2
  <2>2. ASSUME NEW k \in 1 .. l, h[k - 1] = g[k - 1] PROVE h[k] = g[k]
    <3>1. k \in 0 .. l /\ k # 0  BY <1>1
    <3>2. h[k] = LET r == h[k - 1]
                     i == l - k + 1
                 IN  IF IsOf(r[i], n) THEN Del(r, i) ELSE r
      <4> HIDE DEF l
      <4> QED  BY <1>10, <3>1
    <3>3. g[k] = LET r == g[k - 1]
                     i == l - k + 1
                 IN  IF IsOf(r[i], n) THEN Del(r, i) ELSE r
      <4> HIDE DEF l
      <4> QED  BY <1>9, <3>1
    <3> QED  BY <2>2, <3>2, <3>3
  <2>3. Alike(h, g, l)  BY <2>1, <2>2 DEF Alike
  <2> HIDE DEF l
  <2> QED  BY <1>1, <2>3, SameTurns
<1>12. UnsetLen(e, n) = f[l]  BY DEF UnsetLen
<1>13. l \in 0 .. l  BY <1>1
<1> HIDE DEF f, Is, l
<1>14. UnsetLen(e, n) = g[l] /\ LeftOf(g[l], e, n, l)  BY <1>8, <1>10, <1>11, <1>12, <1>13
<1> QED  BY <1>14 DEF l

\* No string of the name is left, nor another changed.
LEMMA UnsetCounts ==
  ASSUME NEW e \in Seq(EnvStrings), NEW n
  PROVE  /\ UnsetLen(e, n) \in Seq(EnvStrings) /\ Len(UnsetLen(e, n)) <= Len(e)
         /\ Len(UnsetLen(e, n)) = Len(e) => UnsetLen(e, n) = e
         /\ Where(UnsetLen(e, n), n) = {} /\ NumberOf(UnsetLen(e, n), n) = 0
         /\ \A m : m # n => SameStrings(UnsetLen(e, n), e, m)
<1>1. PICK d : d = UnsetLen(e, n) /\ LeftOf(d, e, n, Len(e))  BY UnsetLeaves
<1>2. Len(e) \in Nat /\ d \in Seq(EnvStrings) /\ DOMAIN d \subseteq Nat \ {0}
  BY <1>1, LenProperties DEF LeftOf
<1>3. \A j \in DOMAIN d : j > Len(e) - Len(e)  BY <1>2
<1>4. Where(d, n) = {}  BY <1>1, <1>3 DEF LeftOf, Where
<1>5. NumberOf(d, n) = 0  BY <1>2, <1>4, WhereIsFinite, FS_EmptySet
<1> QED  BY <1>1, <1>2, <1>4, <1>5 DEF LeftOf

\* What holds of the environment between the calls: there is room for every string.
EnvInv ==
  /\ environ \in Seq(EnvStrings) /\ isinit \in BOOLEAN /\ ea \in Nat
  /\ EnvOwned

LEMMA EnvBegins == EnvStart => EnvInv
<1>1. SUFFICES ASSUME EnvStart PROVE EnvInv  OBVIOUS
<1>2. environ \in Seq(EnvStrings)  BY <1>1, EnvAssumption DEF EnvStart
<1> QED  BY <1>1, <1>2 DEF EnvStart, EnvInv, EnvOwned

LEMMA NowIs ==
  ASSUME EnvInv
  PROVE  /\ Len(environ) \in Nat /\ RoomNow \in Nat /\ Len(environ) <= RoomNow
         /\ StringsNow = Len(environ)
BY EnvAssumption, LenProperties DEF EnvInv, EnvOwned, RoomNow, StringsNow

\* Putting a string s, by an array that has room or gets it.
LEMMA SetKeeps ==
  ASSUME EnvInv, NEW s \in EnvStrings, NEW grow \in BOOLEAN, Set(s, grow), asked' = <<"put", s>>
  PROVE  EnvInv' /\ ChangesAsAsked
<1> DEFINE e == IF s.value = NoValue THEN environ ELSE UnsetLen(environ, s.name)
           freed == StringsNow - (Len(environ) - Len(e))
           full == Len(e) = RoomNow
<1>1. environ \in Seq(EnvStrings)  BY DEF EnvInv
<1>2. /\ e \in Seq(EnvStrings) /\ Len(e) \in Nat /\ Len(e) <= Len(environ)
      /\ Len(e) = Len(environ) => e = environ
  <2>1. CASE s.value = NoValue  BY <1>1, <2>1, LenProperties, NowIs
  <2>2. CASE s.value # NoValue  BY <1>1, <2>2, LenProperties, UnsetCounts
  <2> QED  BY <2>1, <2>2
<1>3. freed = Len(e) /\ freed \in Int  BY <1>2, NowIs
<1>4. /\ isinit' = TRUE
      /\ \/ /\ full /\ ~grow
            /\ eret' = 0 /\ environ' = e /\ ea' = Len(e) /\ strings' = freed
         \/ /\ full => grow
            /\ eret' = 1 /\ environ' = Append(e, s) /\ strings' = freed + 1
            /\ ea' = IF full THEN RoomNow + More ELSE RoomNow
  BY DEF Set
<1>5. Append(e, s) \in Seq(EnvStrings) /\ Len(Append(e, s)) = Len(e) + 1
  BY <1>2, AppendCounts
<1>6. \A m \in Names :
        IF m = s.name /\ s.value # NoValue
        THEN Where(e, m) = {} /\ NumberOf(e, m) = 0 /\ Said(e, m) = {}
        ELSE SameStrings(e, environ, m)
  <2>1. CASE s.value = NoValue  BY <2>1 DEF SameStrings
  <2>2. CASE s.value # NoValue  BY <1>1, <2>2, UnsetCounts DEF Said
  <2> QED  BY <2>1, <2>2
<1> HIDE DEF e, freed
<1>7. CASE full /\ ~grow /\ eret' = 0 /\ environ' = e /\ ea' = Len(e) /\ strings' = freed
  <2>1. Len(e) = Len(environ)  BY <1>2, <1>7, NowIs
  <2>2. environ' = environ  BY <1>2, <1>7, <2>1
  <2>3. EnvInv'  BY <1>2, <1>3, <1>4, <1>7 DEF EnvInv, EnvOwned
  <2> QED  BY <1>7, <2>2, <2>3 DEF ChangesAsAsked
<1>8. CASE /\ full => grow
           /\ eret' = 1 /\ environ' = Append(e, s) /\ strings' = freed + 1
           /\ ea' = IF full THEN RoomNow + More ELSE RoomNow
  <2>1. ea' \in Nat /\ Len(e) + 1 <= ea'
    <3>1. PICK x, y, z, m \in Nat : x = Len(e) /\ y = Len(environ) /\ z = RoomNow /\ m = More /\ m # 0
      BY <1>2, NowIs, EnvAssumption
    <3>2. x <= y /\ y <= z  BY <1>2, <3>1, NowIs
    <3>3. ea' = IF x = z THEN z + m ELSE z  BY <1>8, <3>1
    <3> QED  BY <3>1, <3>2, <3>3
  <2>2. EnvInv'  BY <1>3, <1>4, <1>5, <1>8, <2>1 DEF EnvInv, EnvOwned
  <2>3. ASSUME NEW m \in Names
        PROVE  IF m = s.name /\ s.value # NoValue
               THEN EnvGet(environ', m) = s.value /\ NumberOf(environ', m) = 1
               ELSE /\ NumberOf(environ', m) = NumberOf(environ, m)
                    /\ NumberOf(environ, m) = 1 => EnvGet(environ', m) = EnvGet(environ, m)
    <3>1. PICK d \in Seq(EnvStrings) : d = environ'  BY <1>5, <1>8
    <3>2. /\ NumberOf(d, m) = NumberOf(e, m) + IF IsOf(s, m) THEN 1 ELSE 0
          /\ Said(d, m) = Said(e, m) \cup IF IsOf(s, m) THEN {s.value} ELSE {}
      BY <1>2, <1>8, <3>1, AppendCounts
    <3>3. CASE m = s.name /\ s.value # NoValue
      <4>1. IsOf(s, m) /\ NumberOf(e, m) = 0 /\ Said(e, m) = {}  BY <1>6, <3>3 DEF IsOf
      <4>2. NumberOf(d, m) = 1 /\ Said(d, m) = {s.value}  BY <3>2, <4>1
      <4>3. Said(d, m) = {EnvGet(d, m)}  BY <4>2, GetOnce
      <4>4. EnvGet(d, m) = s.value  BY <4>2, <4>3
      <4> QED  BY <3>1, <3>3, <4>2, <4>4
    <3>4. CASE ~(m = s.name /\ s.value # NoValue)
      <4>1. ~IsOf(s, m) /\ SameStrings(e, environ, m)  BY <1>6, <3>4 DEF IsOf
      <4>2. NumberOf(e, m) \in Nat  BY <1>2, WhereIsFinite
      <4>3. SameStrings(d, environ, m)  BY <3>2, <4>1, <4>2 DEF SameStrings
      <4>4. NumberOf(environ, m) = 1 => EnvGet(d, m) = EnvGet(environ, m)  BY <1>1, <4>3, SameGet
      <4> QED  BY <3>1, <3>4, <4>3, <4>4 DEF SameStrings
    <3> QED  BY <3>3, <3>4
  <2>4. eret' # 0 /\ asked'[1] = "put" /\ asked'[2] = s  BY <1>8
  <2>5. ChangesAsAsked
    <3>1. ASSUME NEW m \in Names
          PROVE  IF m = asked'[2].name /\ (asked'[1] = "unset" \/ asked'[2].value # NoValue)
                 THEN EnvGet(environ', m) = asked'[2].value
                      /\ NumberOf(environ', m) = IF asked'[2].value = NoValue THEN 0 ELSE 1
                 ELSE /\ NumberOf(environ', m) = NumberOf(environ, m)
                      /\ NumberOf(environ, m) = 1 => EnvGet(environ', m) = EnvGet(environ, m)
      <4>1. asked'[1] # "unset"  BY <2>4
      <4> QED  BY <2>3, <2>4, <4>1
    <3> QED  BY <2>4, <3>1 DEF ChangesAsAsked
  <2> QED  BY <2>2, <2>5
<1> QED  BY <1>4, <1>7, <1>8

LEMMA UnsetKeeps ==
  ASSUME EnvInv, NEW n \in Names, EnvUnset(n)
  PROVE  EnvInv' /\ ChangesAsAsked
<1>1. CASE InitFails
  BY <1>1 DEF InitFails, EnvInv, EnvOwned, ChangesAsAsked
<1>2. CASE ~InitFails
  <2> DEFINE e == UnsetLen(environ, n)
  <2>1. environ \in Seq(EnvStrings)  BY DEF EnvInv
  <2>2. e \in Seq(EnvStrings) /\ Len(e) \in Nat /\ Len(e) <= Len(environ)  BY <2>1, UnsetCounts, LenProperties
  <2>3. /\ eret' = 1 /\ isinit' = TRUE /\ ea' = RoomNow /\ environ' = e
        /\ strings' = StringsNow - (Len(environ) - Len(e))
        /\ asked' = <<"unset", String(n, NoValue)>>
    BY <1>2 DEF EnvUnset
  <2>4. Where(e, n) = {} /\ NumberOf(e, n) = 0 /\ \A m : m # n => SameStrings(e, environ, m)
    BY <2>1, UnsetCounts
  <2> HIDE DEF e
  <2>5. EnvInv'
    <3>1. PICK x, y, z \in Nat : x = Len(e) /\ y = Len(environ) /\ z = RoomNow /\ x <= y /\ y <= z
      BY <2>2, NowIs
    <3>2. strings' = y - (y - x)  BY <2>3, <3>1, NowIs
    <3>3. strings' = x  BY <3>1, <3>2
    <3> QED  BY <2>2, <2>3, <3>1, <3>3 DEF EnvInv, EnvOwned
  <2>6. asked'[1] = "unset" /\ asked'[2].name = n /\ asked'[2].value = NoValue /\ eret' # 0
    BY <2>3 DEF String
  <2>7. EnvGet(e, n) = NoValue  BY <2>2, <2>4, GetIs
  <2>8. ASSUME NEW m \in Names, m # n
        PROVE  /\ NumberOf(environ', m) = NumberOf(environ, m)
               /\ NumberOf(environ, m) = 1 => EnvGet(environ', m) = EnvGet(environ, m)
    <3>1. SameStrings(e, environ, m)  BY <2>4, <2>8
    <3>2. NumberOf(environ, m) = 1 => EnvGet(e, m) = EnvGet(environ, m)  BY <2>1, <2>2, <3>1, SameGet
    <3> QED  BY <2>3, <3>1, <3>2 DEF SameStrings
  <2>9. ChangesAsAsked  BY <2>3, <2>4, <2>6, <2>7, <2>8 DEF ChangesAsAsked
  <2> QED  BY <2>5, <2>9
<1> QED  BY <1>1, <1>2

LEMMA EnvSteps == EnvInv /\ [EnvNext]_envVars => EnvInv' /\ [ChangesAsAsked]_envVars
<1> SUFFICES ASSUME EnvInv, [EnvNext]_envVars PROVE EnvInv' /\ [ChangesAsAsked]_envVars
  OBVIOUS
<1>1. ASSUME NEW n \in Names, NEW v \in Values \cup {NoValue}, EnvPut(String(n, v))
      PROVE  EnvInv' /\ ChangesAsAsked
  <2>1. String(n, v) \in EnvStrings  BY DEF String, EnvStrings
  <2>2. asked' = <<"put", String(n, v)>>  BY <1>1 DEF EnvPut
  <2>3. CASE InitFails
    BY <2>3 DEF InitFails, EnvInv, EnvOwned, ChangesAsAsked
  <2>4. CASE eret' = 0 /\ isinit' = TRUE /\ ea' = RoomNow /\ strings' = StringsNow /\ UNCHANGED environ
    BY <2>4, NowIs DEF EnvInv, EnvOwned, ChangesAsAsked
  <2>5. CASE \E grow \in BOOLEAN : Set(String(n, v), grow)
    BY <2>1, <2>2, <2>5, SetKeeps
  <2> QED  BY <1>1, <2>3, <2>4, <2>5 DEF EnvPut
<1>2. CASE EnvClear
  BY <1>2 DEF EnvClear, EnvInv, EnvOwned, ChangesAsAsked
<1>3. CASE UNCHANGED envVars
  BY <1>3 DEF envVars, EnvInv, EnvOwned
<1> QED  BY <1>1, <1>2, <1>3, UnsetKeeps DEF EnvNext

\* A change of the environment is made as asked or not at all, and every string that was
\* allocated is in it, for any environment, names and sizes of the array.
THEOREM EnvironmentKept == EnvSpec => EnvKept
<1>1. EnvInv => EnvOwned  BY DEF EnvInv
<1> QED  BY <1>1, EnvBegins, EnvSteps, PTL DEF EnvSpec, EnvKept, PutOrNothing

-----------------------------------------------------------------------------
(***************************************************************************)
(* Programs                                                                *)
(***************************************************************************)
\* An assignment takes the place of the string of its name and leaves the others.
LEMMA AssignDoes ==
  ASSUME NEW e \in Seq(EnvStrings), NEW s \in EnvStrings, NEW n
  PROVE  /\ Assign(e, s) \in Seq(EnvStrings)
         /\ n # s.name => SameStrings(Assign(e, s), e, n)
         /\ n = s.name /\ NumberOf(e, n) <= 1 =>
              NumberOf(Assign(e, s), n) <= 1 /\ EnvGet(Assign(e, s), n) = s.value
<1> DEFINE k == SelectInSeq(e, LAMBDA x : IsOf(x, s.name))
           rest == IF k = 0 THEN e ELSE Del(e, k)
<1>1. IF Where(e, s.name) = {} THEN k = 0 ELSE k \in Where(e, s.name) /\ k # 0
  <2>1. Len(e) \in Nat /\ DOMAIN e = 1 .. Len(e) /\ Where(e, s.name) \subseteq Nat \ {0}
    BY LenProperties DEF Where
  <2>2. Where(e, s.name) = {i \in 1 .. Len(e) : IsOf(e[i], s.name)}  BY <2>1 DEF Where
  <2>3. k = IF Where(e, s.name) # {} THEN Min(Where(e, s.name)) ELSE 0
    BY <2>2 DEF SelectInSeq
  <2>4. ASSUME Where(e, s.name) # {} PROVE Min(Where(e, s.name)) \in Where(e, s.name)
    <3>1. \E m \in Where(e, s.name) : \A j \in Where(e, s.name) : m <= j  BY <2>1, <2>4, LeastNat
    <3> QED  BY <3>1 DEF Min
  <2> QED  BY <2>1, <2>3, <2>4
<1> HIDE DEF k
<1>2. /\ rest \in Seq(EnvStrings)
      /\ \A m : m # s.name => SameStrings(rest, e, m)
      /\ NumberOf(e, s.name) <= 1 => NumberOf(rest, s.name) = 0
  <2>1. CASE k = 0
    <3>1. NumberOf(e, s.name) = 0  BY <1>1, <2>1, WhereIsFinite, FS_EmptySet
    <3> QED  BY <2>1, <3>1 DEF SameStrings
  <2>2. CASE k # 0
    <3>1. k \in 1 .. Len(e) /\ IsOf(e[k], s.name)  BY <1>1, <2>2, LenProperties DEF Where
    <3>2. Del(e, k) \in Seq(EnvStrings)  BY <3>1, DelIs
    <3>3. ASSUME NEW m, m # s.name PROVE SameStrings(Del(e, k), e, m)
      <4>1. ~IsOf(e[k], m)  BY <3>1, <3>3 DEF IsOf
      <4>2. NumberOf(Del(e, k), m) = NumberOf(e, m) - IF IsOf(e[k], m) THEN 1 ELSE 0  BY <3>1, DelCounts
      <4>3. Said(Del(e, k), m) = Said(e, m)  BY <3>1, <4>1, DelCounts
      <4>4. NumberOf(e, m) \in Nat  BY WhereIsFinite
      <4>5. NumberOf(Del(e, k), m) = NumberOf(e, m)  BY <4>1, <4>2, <4>4
      <4> QED  BY <4>3, <4>5 DEF SameStrings
    <3>4. ASSUME NumberOf(e, s.name) <= 1 PROVE NumberOf(Del(e, k), s.name) = 0
      <4>1. NumberOf(Del(e, k), s.name) = NumberOf(e, s.name) - 1  BY <3>1, DelCounts
      <4>2. NumberOf(Del(e, k), s.name) \in Nat  BY <3>2, WhereIsFinite
      <4>3. NumberOf(e, s.name) \in Nat  BY WhereIsFinite
      <4> QED  BY <3>4, <4>1, <4>2, <4>3
    <3> QED  BY <2>2, <3>2, <3>3, <3>4
  <2> QED  BY <2>1, <2>2
<1>3. Assign(e, s) = IF s.value = NoValue THEN rest ELSE Append(rest, s)  BY DEF Assign, k
<1> HIDE DEF rest
<1>4. CASE s.value = NoValue
  <2>1. NumberOf(rest, s.name) = 0 => EnvGet(rest, s.name) = NoValue  BY <1>2, GetOnce
  <2> QED  BY <1>2, <1>3, <1>4, <2>1
<1>5. CASE s.value # NoValue
  <2>1. PICK d \in Seq(EnvStrings) : d = Append(rest, s)  BY <1>2, AppendCounts
  <2>2. /\ NumberOf(d, n) = NumberOf(rest, n) + IF IsOf(s, n) THEN 1 ELSE 0
        /\ Said(d, n) = Said(rest, n) \cup IF IsOf(s, n) THEN {s.value} ELSE {}
    BY <1>2, <2>1, AppendCounts
  <2>3. ASSUME n # s.name PROVE SameStrings(d, e, n)
    <3>1. ~IsOf(s, n) /\ SameStrings(rest, e, n) /\ NumberOf(rest, n) \in Nat
      BY <1>2, <2>3, WhereIsFinite DEF IsOf
    <3>2. NumberOf(d, n) = NumberOf(rest, n)  BY <2>2, <3>1
    <3> QED  BY <2>2, <3>1, <3>2 DEF SameStrings
  <2>4. ASSUME n = s.name, NumberOf(e, n) <= 1 PROVE NumberOf(d, n) <= 1 /\ EnvGet(d, n) = s.value
    <3>1. IsOf(s, n) /\ NumberOf(rest, n) = 0  BY <1>2, <1>5, <2>4 DEF IsOf
    <3>2. Said(rest, n) = {}
      <4>1. Where(rest, n) = {}  BY <1>2, <3>1, WhereIsFinite, FS_EmptySet
      <4> QED  BY <4>1 DEF Said
    <3>3. NumberOf(d, n) = 1 /\ Said(d, n) = {s.value}  BY <2>2, <3>1, <3>2
    <3>4. Said(d, n) = {EnvGet(d, n)}  BY <3>3, GetOnce
    <3>5. EnvGet(d, n) = s.value  BY <3>3, <3>4
    <3> QED  BY <3>3, <3>5
  <2> QED  BY <1>3, <1>5, <2>1, <2>3, <2>4
<1> QED  BY <1>4, <1>5

\* w has what the last of the first k assignments of ss to the name n says, or what e has
LastSays(w, e, ss, k, n) ==
  \/ (\A j \in 1 .. k : ss[j].name # n) /\ EnvGet(w, n) = EnvGet(e, n)
  \/ \E j \in 1 .. k : /\ ss[j].name = n /\ \A i \in j + 1 .. k : ss[i].name # n
                       /\ EnvGet(w, n) = ss[j].value

\* w is e with the first k assignments made
Made(w, e, ss, k) ==
  /\ w \in Seq(EnvStrings)
  /\ \A n : NumberOf(e, n) <= 1 => NumberOf(w, n) <= 1 /\ LastSays(w, e, ss, k, n)

LEMMA MakeOneMore ==
  ASSUME NEW e \in Seq(EnvStrings), NEW ss \in Seq(EnvStrings), NEW k \in 1 .. Len(ss),
         NEW w, Made(w, e, ss, k - 1)
  PROVE  Made(Assign(w, ss[k]), e, ss, k)
<1>1. w \in Seq(EnvStrings) /\ ss[k] \in EnvStrings /\ k \in Nat \ {0}
  <2>1. Len(ss) \in Nat  BY LenProperties
  <2> QED  BY <2>1, ElementOfSeq DEF Made
<1>2. PICK d \in Seq(EnvStrings) : d = Assign(w, ss[k])  BY <1>1, AssignDoes
<1>3. \A j \in 1 .. k : j = k \/ j \in 1 .. k - 1  BY <1>1
<1>4. ASSUME NEW n, NumberOf(e, n) <= 1 PROVE NumberOf(d, n) <= 1 /\ LastSays(d, e, ss, k, n)
  <2>1. NumberOf(w, n) <= 1 /\ LastSays(w, e, ss, k - 1, n)  BY <1>4 DEF Made
  <2>2. CASE n = ss[k].name
    <3>1. NumberOf(d, n) <= 1 /\ EnvGet(d, n) = ss[k].value  BY <1>1, <1>2, <2>1, <2>2, AssignDoes
    <3>2. k \in 1 .. k /\ \A i \in k + 1 .. k : ss[i].name # n  BY <1>1
    <3> QED  BY <2>2, <3>1, <3>2 DEF LastSays
  <2>3. CASE n # ss[k].name
    <3>1. SameStrings(d, w, n)  BY <1>1, <1>2, <2>3, AssignDoes
    <3>2. EnvGet(d, n) = EnvGet(w, n) /\ NumberOf(d, n) <= 1
      BY <1>1, <2>1, <3>1, SameGet DEF SameStrings
    <3>3. CASE (\A j \in 1 .. k - 1 : ss[j].name # n) /\ EnvGet(w, n) = EnvGet(e, n)
      BY <1>3, <2>3, <3>2, <3>3 DEF LastSays
    <3>4. ASSUME NEW j \in 1 .. k - 1, ss[j].name = n, \A i \in j + 1 .. k - 1 : ss[i].name # n,
                 EnvGet(w, n) = ss[j].value
          PROVE  LastSays(d, e, ss, k, n)
      <4>1. j \in 1 .. k /\ \A i \in j + 1 .. k : i = k \/ i \in j + 1 .. k - 1  BY <1>1
      <4>2. \A i \in j + 1 .. k : ss[i].name # n  BY <2>3, <3>4, <4>1
      <4> QED  BY <3>2, <3>4, <4>1, <4>2 DEF LastSays
    <3>5. LastSays(d, e, ss, k, n)  BY <2>1, <3>3, <3>4 DEF LastSays
    <3> QED  BY <3>2, <3>5
  <2> QED  BY <2>2, <2>3
<1> QED  BY <1>2, <1>4 DEF Made

LEMMA AssignedIsMade ==
  ASSUME NEW e \in Seq(EnvStrings), NEW ss \in Seq(EnvStrings)
  PROVE  Made(Assigned(e, ss), e, ss, Len(ss))
<1> DEFINE S == Seq(EnvStrings)
           l == Len(ss)
           turn == [a \in S \X (1 .. l) |-> Assign(a[1], ss[a[2]])]
           Is(f) == f = [k \in 0 .. l |-> IF k = 0 THEN e ELSE Assign(f[k - 1], ss[k])]
           f == CHOOSE f : Is(f)
<1>1. l \in Nat /\ \A k \in 1 .. l : ss[k] \in EnvStrings  BY LenProperties, ElementOfSeq
<1>2. \A r \in S, k \in 1 .. l : Assign(r, ss[k]) \in S  BY <1>1, AssignDoes
<1>3. turn \in [S \X (1 .. l) -> S]
  <2> HIDE DEF l, S
  <2> QED  BY <1>2
<1>4. PICK g : Turns(g, l, e, turn, S)
  <2> HIDE DEF turn, l
  <2> QED  BY <1>1, <1>3, TurnsExist
<1>5. g[0] = e /\ g \in [0 .. l -> S] /\ \A k \in 1 .. l : g[k] = Assign(g[k - 1], ss[k])
  <2>1. \A k \in 1 .. l : g[k - 1] \in S
    <3>1. \A k \in 1 .. l : k - 1 \in 0 .. l  BY <1>1
    <3> HIDE DEF l, S, turn
    <3> QED  BY <1>4, <3>1 DEF Turns
  <2>2. \A k \in 1 .. l : g[k] = turn[<<g[k - 1], k>>]  BY <1>4 DEF Turns
  <2>3. \A r \in S, k \in 1 .. l : turn[<<r, k>>] = Assign(r, ss[k])  OBVIOUS
  <2> QED  BY <1>4, <2>1, <2>2, <2>3 DEF Turns
<1>6. Is(g)
  <2>1. \A k \in 0 .. l : k = 0 \/ k \in 1 .. l  BY <1>1
  <2> HIDE DEF l
  <2> QED  BY <1>5, <2>1
<1>7. PICK h : h = f /\ Is(h)
  <2> HIDE DEF Is
  <2> QED  BY <1>6
<1>8. h[0] = e /\ \A k \in 1 .. l : h[k] = Assign(h[k - 1], ss[k])
  <2>1. 0 \in 0 .. l /\ \A k \in 1 .. l : k \in 0 .. l /\ k # 0  BY <1>1
  <2> HIDE DEF l
  <2> QED  BY <1>7, <2>1
<1> DEFINE T == {k \in 0 .. l : Made(h[k], e, ss, k)}
<1>9. 0 \in T
  <2>1. \A j \in 1 .. 0 : FALSE  OBVIOUS
  <2> QED  BY <1>1, <1>8, <2>1 DEF Made, LastSays
<1>10. \A k \in 1 .. l : k - 1 \in T => k \in T
  <2>1. \A k \in 1 .. l : k \in 0 .. l  BY <1>1
  <2> QED  BY <1>8, <2>1, MakeOneMore
<1>11. l \in T
  <2>1. l \in 0 .. l  BY <1>1
  <2> HIDE DEF T, l
  <2> QED  BY <1>1, <1>9, <1>10, <2>1, Induct
<1>12. Assigned(e, ss) = f[l]  BY DEF Assigned
<1> HIDE DEF f, l, Is
<1> QED  BY <1>7, <1>11, <1>12 DEF l

Outcomes == {"ok", "ENOENT", "EACCES", "EOTHER"}

\* What holds while PATH is searched: the directories behind, and what is remembered of
\* them.
Searching ==
  /\ dirs # <<>> /\ Len(tried) + Len(dirs) = Len(SearchPath)
  /\ \A k \in DOMAIN tried : tried[k] \in {"ENOENT", "EACCES"}
  /\ saved \in {"none", "EACCES"}
  /\ saved = "none" <=> \A k \in DOMAIN tried : tried[k] = "ENOENT"

ProgramInv ==
  /\ environ \in Seq(EnvStrings) /\ plus \in Seq(EnvStrings)
  /\ dirs \in Seq(Dirs) /\ tried \in Seq(Outcomes)
  /\ pstep \in {"idle", "direct", "search", "gone"}
  /\ pstep # "idle" => child = Assigned(environ, plus)
  /\ pstep = "direct" => tried = <<>>
  /\ pstep = "search" => Searching
  /\ SearchTellsWhy

LEMMA PathIsSeq ==
  ASSUME environ \in Seq(EnvStrings)
  PROVE  SearchPath \in Seq(Dirs) \ {<<>>}
<1> DEFINE p == EnvGet(environ, PATH)
<1>1. ASSUME p # NoValue PROVE p \in Values
  <2>1. p \in Said(environ, PATH)  BY <1>1, GetIs
  <2>2. PICK k \in DOMAIN environ : p = environ[k].value  BY <2>1 DEF Said, Where
  <2>3. environ[k] \in EnvStrings  BY <2>2, ElementOfSeq, LenProperties
  <2> QED  BY <1>1, <2>2, <2>3 DEF EnvStrings
<1> QED  BY <1>1, PathExecAssumption DEF SearchPath

\* The child has what the last assignment says.
LEMMA ChildIsRight == ProgramInv => ChildHasAssignments
<1> SUFFICES ASSUME ProgramInv, pstep # "idle", NEW n \in Names, NumberOf(environ, n) <= 1
             PROVE  LET last == SelectLastInSeq(plus, LAMBDA s : s.name = n)
                    IN  /\ EnvGet(child, n) = IF last = 0 THEN EnvGet(environ, n) ELSE plus[last].value
                        /\ NumberOf(child, n) <= 1
  BY DEF ChildHasAssignments
<1> DEFINE last == SelectLastInSeq(plus, LAMBDA s : s.name = n)
           A == {i \in 1 .. Len(plus) : plus[i].name = n}
<1>1. PICK l \in Nat : l = Len(plus)  BY LenProperties DEF ProgramInv
<1>2. Made(child, environ, plus, l)  BY <1>1, AssignedIsMade DEF ProgramInv
<1>3. NumberOf(child, n) <= 1 /\ LastSays(child, environ, plus, l, n)  BY <1>2 DEF Made
<1>4. last = IF A # {} THEN Max(A) ELSE 0  BY DEF SelectLastInSeq
<1>5. ASSUME \A j \in 1 .. l : plus[j].name # n, EnvGet(child, n) = EnvGet(environ, n)
      PROVE  EnvGet(child, n) = (IF last = 0 THEN EnvGet(environ, n) ELSE plus[last].value)
  <2>1. A = {}  BY <1>1, <1>5
  <2> HIDE DEF last, A
  <2> QED  BY <1>4, <1>5, <2>1
<1>6. ASSUME NEW j \in 1 .. l, plus[j].name = n, \A i \in j + 1 .. l : plus[i].name # n,
             EnvGet(child, n) = plus[j].value
      PROVE  EnvGet(child, n) = (IF last = 0 THEN EnvGet(environ, n) ELSE plus[last].value)
  <2>1. j \in A /\ A \subseteq 1 .. l  BY <1>1, <1>6
  <2>2. \A i \in A : i <= j
    <3> SUFFICES ASSUME NEW i \in A, i > j PROVE FALSE  BY <1>1, <2>1
    <3>1. i \in j + 1 .. l /\ plus[i].name = n  BY <1>1
    <3> QED  BY <1>6, <3>1
  <2> HIDE DEF A
  <2>3. Max(A) = j
    <3>1. \E x \in A : \A y \in A : x >= y  BY <2>1, <2>2
    <3>2. Max(A) \in A /\ \A y \in A : Max(A) >= y  BY <3>1 DEF Max
    <3>3. Max(A) \in 1 .. l /\ Max(A) >= j /\ Max(A) <= j  BY <2>1, <2>2, <3>2
    <3>4. PICK x \in Nat : x = Max(A) /\ x >= j /\ x <= j  BY <3>3
    <3> QED  BY <3>4
  <2>4. j # 0  BY <1>1
  <2>5. last = j  BY <1>4, <2>1, <2>3
  <2> HIDE DEF last
  <2> QED  BY <1>6, <2>4, <2>5
<1> HIDE DEF last
<1>7. EnvGet(child, n) = IF last = 0 THEN EnvGet(environ, n) ELSE plus[last].value
  <2>1. \/ (\A j \in 1 .. l : plus[j].name # n) /\ EnvGet(child, n) = EnvGet(environ, n)
        \/ \E j \in 1 .. l : /\ plus[j].name = n /\ \A i \in j + 1 .. l : plus[i].name # n
                             /\ EnvGet(child, n) = plus[j].value
    BY <1>3 DEF LastSays
  <2> QED  BY <1>5, <1>6, <2>1
<1> QED  BY <1>3, <1>7 DEF last

\* One directory more
LEMMA SearchKeeps ==
  ASSUME ProgramInv, NEW e \in Outcomes, Search(e)
  PROVE  ProgramInv'
<1>1. /\ pstep = "search" /\ Searching /\ SearchPath' = SearchPath
      /\ tried' = Append(tried, e) /\ dirs' = Tail(dirs)
      /\ UNCHANGED <<environ, plus, child>>
  BY DEF ProgramInv, Search, SearchPath, envVars
<1>2. PICK t \in Nat, d \in Nat \ {0} : t = Len(tried) /\ d = Len(dirs) /\ DOMAIN tried = 1 .. t
                                       /\ t + d = Len(SearchPath)
  BY <1>1, LenProperties, EmptySeq DEF ProgramInv, Searching
<1>3. /\ tried' \in Seq(Outcomes) /\ Len(tried') = t + 1 /\ DOMAIN tried' = 1 .. t + 1
      /\ tried'[t + 1] = e /\ \A k \in 1 .. t : tried'[k] = tried[k]
  <2>1. tried \in Seq(Outcomes)  BY DEF ProgramInv
  <2>2. tried' \in Seq(Outcomes) /\ Len(tried') = t + 1 /\ tried'[t + 1] = e
        /\ \A k \in 1 .. t : tried'[k] = tried[k]
    BY <1>1, <1>2, <2>1, AppendProperties
  <2> QED  BY <2>2, LenProperties
<1>4. dirs' \in Seq(Dirs) /\ Len(dirs') = d - 1 /\ (dirs' = <<>> => d = 1)
  <2>1. dirs \in Seq(Dirs) /\ dirs # <<>>  BY <1>1 DEF ProgramInv, Searching
  <2>2. dirs' \in Seq(Dirs) /\ Len(dirs') = d - 1  BY <1>1, <1>2, <2>1, HeadTailProperties
  <2>3. dirs' = <<>> => Len(dirs') = 0  OBVIOUS
  <2> QED  BY <2>2, <2>3
<1>5. \A k \in 1 .. t + 1 : k = t + 1 \/ k \in 1 .. t  BY <1>2
<1>6. t + 1 \in 1 .. t + 1 /\ \A k \in 1 .. t : k \in 1 .. t + 1  BY <1>2
<1>7. CASE e = "ok"
  <2>1. pstep' = "gone"  BY <1>7 DEF Search
  <2>2. SearchTellsWhy'  BY <2>1 DEF SearchTellsWhy
  <2> QED  BY <1>1, <1>3, <1>4, <2>1, <2>2 DEF ProgramInv
<1>8. CASE e = "EOTHER"
  <2>1. pstep' = "idle" /\ errno' = e  BY <1>8 DEF Search
  <2>2. SearchTellsWhy'
    <3>1. ~ \A k \in DOMAIN tried' : tried'[k] = "ENOENT"  BY <1>3, <1>6, <1>8
    <3>2. tried'[Len(tried')] = "EOTHER"  BY <1>3, <1>8
    <3> QED  BY <1>8, <2>1, <3>1, <3>2 DEF SearchTellsWhy
  <2> QED  BY <1>1, <1>3, <1>4, <2>1, <2>2 DEF ProgramInv
<1>9. CASE e \in {"ENOENT", "EACCES"}
  <2>1. /\ saved' = IF e = "ENOENT" THEN saved ELSE e
        /\ IF Len(dirs) = 1
           THEN pstep' = "idle" /\ errno' = IF saved' = "none" THEN e ELSE saved'
           ELSE pstep' = pstep /\ errno' = e
    BY <1>9 DEF Search
  <2>2. \A k \in DOMAIN tried' : tried'[k] \in {"ENOENT", "EACCES"}
    BY <1>1, <1>2, <1>3, <1>5, <1>9 DEF Searching
  <2>3. saved' \in {"none", "EACCES"}  BY <1>1, <1>9, <2>1 DEF Searching
  <2>4. saved' = "none" <=> \A k \in DOMAIN tried' : tried'[k] = "ENOENT"
    <3>1. CASE e = "ENOENT"
      <4>1. (\A k \in DOMAIN tried' : tried'[k] = "ENOENT") <=> \A k \in DOMAIN tried : tried[k] = "ENOENT"
        BY <1>2, <1>3, <1>5, <1>6, <3>1
      <4> QED  BY <1>1, <2>1, <3>1, <4>1 DEF Searching
    <3>2. CASE e = "EACCES"
      <4>1. ~ \A k \in DOMAIN tried' : tried'[k] = "ENOENT"  BY <1>3, <1>6, <3>2
      <4> QED  BY <2>1, <3>2, <4>1
    <3> QED  BY <1>9, <3>1, <3>2
  <2>5. CASE d = 1
    <3>1. pstep' = "idle" /\ errno' = IF saved' = "none" THEN e ELSE saved'  BY <1>2, <2>1, <2>5
    <3>2. errno' \in {"ENOENT", "EACCES"} /\ (errno' = "ENOENT" <=> saved' = "none")
      BY <1>9, <2>1, <2>3, <3>1
    <3>3. tried'[Len(tried')] # "EOTHER"  BY <1>3, <1>9
    <3>4. Len(tried') = Len(SearchPath)  BY <1>2, <1>3, <2>5
    <3>5. SearchTellsWhy'  BY <1>1, <2>4, <3>2, <3>3, <3>4 DEF SearchTellsWhy
    <3> QED  BY <1>1, <1>3, <1>4, <3>1, <3>5 DEF ProgramInv
  <2>6. CASE d # 1
    <3>1. pstep' = "search"  BY <1>1, <1>2, <2>1, <2>6
    <3>2. dirs' # <<>> /\ Len(tried') + Len(dirs') = Len(SearchPath)  BY <1>2, <1>3, <1>4, <2>6
    <3>3. Searching'  BY <1>1, <2>2, <2>3, <2>4, <3>2 DEF Searching
    <3>4. SearchTellsWhy'  BY <3>1 DEF SearchTellsWhy
    <3> QED  BY <1>1, <1>3, <1>4, <3>1, <3>3, <3>4 DEF ProgramInv
  <2> QED  BY <2>5, <2>6
<1> QED  BY <1>7, <1>8, <1>9 DEF Outcomes

LEMMA ProgramSteps == ProgramInv /\ [PathExecNext]_programs => ProgramInv'
<1> SUFFICES ASSUME ProgramInv, [PathExecNext]_programs PROVE ProgramInv'
  OBVIOUS
<1>1. ASSUME NEW ss \in Seq(EnvStrings), Queue(ss) PROVE ProgramInv'
  <2>1. plus' \in Seq(EnvStrings)  BY <1>1, ConcatProperties DEF Queue, ProgramInv
  <2> QED  BY <1>1, <2>1 DEF Queue, ProgramInv, SearchTellsWhy, SearchPath, envVars
<1>2. ASSUME NEW n \in Names, NEW v \in Values \cup {NoValue}
      PROVE  <<String(n, v)>> \in Seq(EnvStrings)
  BY DEF String, EnvStrings
<1>3. ASSUME NEW n \in Names, NEW v \in Values
      PROVE  <<String(n, v), String(PATH, NoValue)>> \in Seq(EnvStrings)
  BY PathExecAssumption DEF String, EnvStrings
<1>4. ASSUME NEW slash \in BOOLEAN, PathExec(slash) PROVE ProgramInv'
  <2>1. /\ pstep = "idle" /\ tried' = <<>> /\ saved' = "none"
        /\ UNCHANGED <<environ, plus>> /\ SearchPath' = SearchPath
    BY <1>4 DEF PathExec, envVars, SearchPath
  <2>2. <<>> \in Seq(Outcomes) /\ Len(<<>>) = 0 /\ DOMAIN <<>> = {}  OBVIOUS
  <2>3. SearchTellsWhy'  BY <2>1 DEF SearchTellsWhy
  <2>4. CASE errno' = "ENOMEM" /\ child' = <<>> /\ UNCHANGED <<pstep, dirs>>
    BY <2>1, <2>2, <2>3, <2>4 DEF ProgramInv
  <2>5. CASE /\ child' = Assigned(environ, plus)
             /\ pstep' = IF slash THEN "direct" ELSE "search"
             /\ dirs' = SearchPath /\ errno' = "none"
    <3>1. dirs' \in Seq(Dirs) /\ dirs' # <<>>  BY <2>5, PathIsSeq DEF ProgramInv
    <3>2. Len(dirs') \in Nat  BY <3>1, LenProperties
    <3>3. Searching'  BY <2>1, <2>2, <2>5, <3>1, <3>2 DEF Searching
    <3> QED  BY <2>1, <2>2, <2>3, <2>5, <3>1, <3>3 DEF ProgramInv
  <2> QED  BY <1>4, <2>4, <2>5 DEF PathExec
<1>5. ASSUME NEW e \in Outcomes, Direct(e) PROVE ProgramInv'
  <2>1. /\ pstep = "direct" /\ tried = <<>> /\ pstep' \in {"gone", "idle"}
        /\ UNCHANGED <<environ, plus, child, dirs, tried>>
    BY <1>5 DEF Direct, ProgramInv, envVars
  <2>2. SearchTellsWhy'  BY <2>1 DEF SearchTellsWhy
  <2> QED  BY <2>1, <2>2 DEF ProgramInv
<1>6. CASE NameFails
  <2>1. /\ pstep' = "idle" /\ errno' = "ENOMEM"
        /\ UNCHANGED <<environ, plus, dirs, tried>>
    BY <1>6 DEF NameFails, envVars
  <2>2. SearchTellsWhy'  BY <2>1 DEF SearchTellsWhy
  <2> QED  BY <2>1, <2>2 DEF ProgramInv
<1>7. CASE UNCHANGED programs
  BY <1>7 DEF programs, envVars, pathVars, ProgramInv, Searching, SearchTellsWhy, SearchPath
<1> QED  BY <1>1, <1>2, <1>3, <1>4, <1>5, <1>6, <1>7, SearchKeeps DEF PathExecNext, Outcomes

\* A program runs with the environment put together for it, and a search that finds none
\* says why, for any environment, assignments and PATH.
THEOREM ProgramsAreRun == ProgramsSpec => []ProgramIsRun
<1>1. EnvStart /\ PathStart => ProgramInv
  <2> SUFFICES ASSUME EnvStart, PathStart PROVE ProgramInv  OBVIOUS
  <2>1. environ \in Seq(EnvStrings)  BY EnvAssumption DEF EnvStart
  <2> QED  BY <2>1 DEF PathStart, ProgramInv, SearchTellsWhy
<1>2. ProgramInv => ProgramIsRun  BY ChildIsRight DEF ProgramInv, ProgramIsRun
<1> QED  BY <1>1, <1>2, ProgramSteps, PTL DEF ProgramsSpec
-----------------------------------------------------------------------------
(***************************************************************************)
(* Options of a command line                                               *)
(***************************************************************************)
Results == [option : Letters, arg : Seq(Letters), word : Nat, problem : {"none", "illegal", "requires"}]

\* what an option adds to what has been given
Piece(r) == <<r.option>> \o r.arg

TrueOf(r) ==
  /\ r.problem = "illegal" <=> r.option \notin Plain \cup WithArg
  /\ r.problem = "none" /\ r.option \in WithArg => r.arg # <<>> \/ r.word # 0

\* what the word i adds to what was taken of the words a, when the calls returned g
Told(a, g, i) == IF \E k \in DOMAIN g : g[k].word = i THEN a[i] ELSE SubSeq(a[i], 2, Len(a[i]))

Words(a, g, n) == [i \in 1 .. n |-> Told(a, g, i)]

\* the words up to n, and p characters of the next one, are all that calls returned
UpTo(w, p) == IF p = 0 THEN <<>> ELSE SubSeq(w, 2, p)

ReadTo(a, g, n, p, all) == FlattenSeq(Words(a, g, n)) \o UpTo(a[n + 1], p) = all

OptionTypes ==
  /\ argv \in Seq(Seq(Letters)) /\ got \in Seq(Results)
  /\ optind \in 1 .. Len(argv) + 1 /\ optpos \in Nat /\ finished \in {"no", "operand", "dashes"}
  /\ optpos > 0 => finished = "no" /\ optind \in 1 .. Len(argv) /\ optpos <= Len(argv[optind])
  /\ finished = "dashes" => optind >= 2

\* Once an argument is missing no word is left.
OptionInv ==
  /\ OptionTypes
  /\ \A k \in 1 .. Len(got) : /\ TrueOf(got[k]) /\ got[k].word < optind
                              /\ got[k].problem = "requires" => k = Len(got) /\ optind > Len(argv)
  /\ ReadTo(argv, got, optind - (IF finished = "dashes" THEN 2 ELSE 1), optpos, Returned)
  /\ finished = "operand" /\ optind <= Len(argv) => argv[optind] = <<>> \/ argv[optind][1] # Dash \/ Len(argv[optind]) = 1

LEMMA PieceIs ==
  ASSUME NEW r \in Results
  PROVE  Piece(r) \in Seq(Letters)
<1>1. r.option \in Letters /\ r.arg \in Seq(Letters)  BY DEF Results
<1>2. PICK a \in Seq(Letters), o \in Seq(Letters) : a = r.arg /\ o = <<r.option>>  BY <1>1, OneElement
<1> QED  BY <1>2, ConcatProperties DEF Piece

LEMMA PiecesAre ==
  ASSUME NEW n \in Nat, NEW g \in [1 .. n -> Results]
  PROVE  \E s \in Seq(Seq(Letters)) : s = [k \in DOMAIN g |-> <<g[k].option>> \o g[k].arg] /\ Len(s) = n
                                      /\ \A k \in 1 .. n : s[k] = Piece(g[k])
<1> DEFINE f == [k \in 1 .. n |-> Piece(g[k])]
<1>1. f \in [1 .. n -> Seq(Letters)]  BY PieceIs
<1>2. PICK s \in Seq(Seq(Letters)) : s = f /\ Len(s) = n /\ \A k \in 1 .. n : s[k] = f[k]
  <2> HIDE DEF f
  <2> QED  BY <1>1, AsSeq
<1>3. [k \in DOMAIN g |-> <<g[k].option>> \o g[k].arg] = f  BY DEF Piece
<1> QED  BY <1>2, <1>3

LEMMA ReturnedIs ==
  ASSUME got \in Seq(Results)
  PROVE  Returned \in Seq(Letters)
<1>1. PICK n \in Nat : n = Len(got) /\ got \in [1 .. n -> Results]  BY LenProperties, SeqDef
<1>2. PICK s \in Seq(Seq(Letters)) : s = [k \in DOMAIN got |-> <<got[k].option>> \o got[k].arg]
  BY <1>1, PiecesAre
<1> QED  BY <1>2, FlattenIsSeq DEF Returned

\* A result adds its option and its argument to what was returned.
LEMMA ReturnedGrows ==
  ASSUME got \in Seq(Results), NEW r \in Results, got' = Append(got, r)
  PROVE  Returned' = Returned \o Piece(r)
<1>1. PICK n \in Nat : n = Len(got) /\ got \in [1 .. n -> Results]  BY LenProperties, SeqDef
<1>2. PICK g \in Seq(Results) : g = Append(got, r) /\ Len(g) = n + 1 /\ DOMAIN g = 1 .. n + 1
                                /\ g[n + 1] = r /\ \A k \in 1 .. n : g[k] = got[k]
  <2>1. PICK g \in Seq(Results) : IsAppend(g, got, n, r)  BY <1>1, Appended
  <2> QED  BY <2>1 DEF IsAppend
<1>3. n + 1 \in Nat /\ g \in [1 .. n + 1 -> Results]  BY <1>1, <1>2, ElementOfSeq, LenProperties, SeqDef
<1>4. PICK s \in Seq(Seq(Letters)) : s = [k \in DOMAIN got |-> <<got[k].option>> \o got[k].arg] /\ Len(s) = n
                                     /\ \A k \in 1 .. n : s[k] = Piece(got[k])
  BY <1>1, PiecesAre
<1>5. PICK u \in Seq(Seq(Letters)) : u = [k \in DOMAIN g |-> <<g[k].option>> \o g[k].arg] /\ Len(u) = n + 1
                                     /\ \A k \in 1 .. n + 1 : u[k] = Piece(g[k])
  BY <1>3, PiecesAre
<1>6. PICK e \in Seq(Letters) : e = Piece(r)  BY PieceIs
<1>7. PICK t \in Seq(Seq(Letters)) : t = Append(s, e) /\ Len(t) = n + 1 /\ t[n + 1] = e /\ \A k \in 1 .. n : t[k] = s[k]
  <2>1. PICK t \in Seq(Seq(Letters)) : IsAppend(t, s, n, e)  BY <1>4, Appended
  <2> QED  BY <2>1 DEF IsAppend
<1>8. u = t
  <2>1. \A k \in 1 .. n + 1 : u[k] = t[k]
    <3> SUFFICES ASSUME NEW k \in 1 .. n + 1 PROVE u[k] = t[k]  OBVIOUS
    <3>1. CASE k = n + 1  BY <1>2, <1>5, <1>6, <1>7, <3>1
    <3>2. CASE k \in 1 .. n  BY <1>2, <1>4, <1>5, <1>7, <3>2
    <3> QED  BY <3>1, <3>2
  <2>2. Len(u) = Len(t) /\ \A k \in 1 .. Len(u) : u[k] = t[k]  BY <1>5, <1>7, <2>1
  <2> QED  BY <2>2, SeqEqual
<1>9. Returned' = FlattenSeq(u)
  <2>1. got' = g  BY <1>2
  <2> QED  BY <1>5, <2>1 DEF Returned
<1>10. Returned = FlattenSeq(s)  BY <1>4 DEF Returned
<1> QED  BY <1>4, <1>6, <1>7, <1>8, <1>9, <1>10, FlattenAppend

LEMMA WordsAre ==
  ASSUME NEW a \in Seq(Seq(Letters)), NEW g, NEW n \in 0 .. Len(a)
  PROVE  \E s \in Seq(Seq(Letters)) : s = Words(a, g, n) /\ Len(s) = n /\ \A i \in 1 .. n : s[i] = Told(a, g, i)
<1>1. n \in Nat /\ \A i \in 1 .. n : i \in 1 .. Len(a)  BY LenProperties
<1>2. \A i \in 1 .. n : Told(a, g, i) \in Seq(Letters)
  <2> SUFFICES ASSUME NEW i \in 1 .. n PROVE Told(a, g, i) \in Seq(Letters)  OBVIOUS
  <2>1. PICK w \in Seq(Letters) : w = a[i]  BY <1>1, ElementOfSeq
  <2>2. SubSeq(w, 2, Len(w)) \in Seq(Letters)
    <3>1. Len(w) \in Nat /\ \A j \in 2 .. Len(w) : w[j] \in Letters  BY LenProperties, ElementOfSeq
    <3> QED  BY <3>1, SubSeqProperties
  <2> QED  BY <2>1, <2>2 DEF Told
<1>3. PICK f \in [1 .. n -> Seq(Letters)] : f = Words(a, g, n)  BY <1>2 DEF Words
<1>4. PICK s \in Seq(Seq(Letters)) : s = f /\ Len(s) = n  BY <1>1, AsSeq
<1>5. \A i \in 1 .. n : s[i] = Told(a, g, i)  BY <1>3, <1>4 DEF Words
<1> QED  BY <1>3, <1>4, <1>5

\* A result that takes none of the words leaves them as they are.
LEMMA WordsSame ==
  ASSUME NEW a, NEW n, NEW g \in Seq(Results), NEW r \in Results, r.word \notin 1 .. n
  PROVE  Words(a, Append(g, r), n) = Words(a, g, n)
<1>1. PICK m \in Nat : m = Len(g) /\ DOMAIN g = 1 .. m  BY LenProperties
<1>2. PICK h \in Seq(Results) : IsAppend(h, g, m, r)  BY <1>1, Appended
<1>3. Append(g, r) = h /\ DOMAIN h = 1 .. m + 1 /\ h[m + 1] = r /\ \A k \in 1 .. m : h[k] = g[k]
  BY <1>2 DEF IsAppend
<1>4. ASSUME NEW i \in 1 .. n PROVE Told(a, h, i) = Told(a, g, i)
  <2>1. (\E k \in 1 .. m + 1 : h[k].word = i) <=> (\E k \in 1 .. m : g[k].word = i)
    <3>1. h[m + 1].word # i  BY <1>3
    <3>2. \A k \in 1 .. m : h[k].word = g[k].word  BY <1>3
    <3>3. \A k \in 1 .. m + 1 : k = m + 1 \/ k \in 1 .. m  BY <1>1
    <3>4. \A k \in 1 .. m : k \in 1 .. m + 1  BY <1>1
    <3> QED  BY <3>1, <3>2, <3>3, <3>4
  <2> QED  BY <1>1, <1>3, <2>1 DEF Told
<1> QED  BY <1>3, <1>4 DEF Words

\* The words up to the next one
LEMMA OneWordMore ==
  ASSUME NEW a \in Seq(Seq(Letters)), NEW g, NEW n \in Nat, n < Len(a)
  PROVE  /\ FlattenSeq(Words(a, g, n)) \in Seq(Letters) /\ Told(a, g, n + 1) \in Seq(Letters)
         /\ FlattenSeq(Words(a, g, n + 1)) = FlattenSeq(Words(a, g, n)) \o Told(a, g, n + 1)
<1>1. PICK l \in Nat : l = Len(a) /\ n < l  BY LenProperties
<1>2. n \in 0 .. l /\ n + 1 \in 0 .. l  BY <1>1
<1>3. PICK s \in Seq(Seq(Letters)) : s = Words(a, g, n) /\ Len(s) = n /\ \A i \in 1 .. n : s[i] = Told(a, g, i)
  BY <1>1, <1>2, WordsAre
<1>4. PICK t \in Seq(Seq(Letters)) : t = Words(a, g, n + 1) /\ Len(t) = n + 1 /\ \A i \in 1 .. n + 1 : t[i] = Told(a, g, i)
  BY <1>1, <1>2, WordsAre
<1>5. PICK e \in Seq(Letters) : e = Told(a, g, n + 1)
  <2>1. n + 1 \in 1 .. n + 1 /\ n + 1 \in 1 .. Len(t)  BY <1>4
  <2>2. t[n + 1] \in Seq(Letters)  BY <2>1, ElementOfSeq
  <2> QED  BY <1>4, <2>1, <2>2
<1>6. PICK u \in Seq(Seq(Letters)) : IsAppend(u, s, n, e)  BY <1>3, <1>5, Appended
<1>7. u = t
  <2>1. \A i \in 1 .. n + 1 : i = n + 1 \/ i \in 1 .. n  OBVIOUS
  <2>2. Len(u) = Len(t) /\ \A i \in 1 .. Len(u) : u[i] = t[i]
    BY <1>3, <1>4, <1>5, <1>6, <2>1 DEF IsAppend
  <2> QED  BY <2>2, SeqEqual
<1>8. FlattenSeq(Append(s, e)) = FlattenSeq(s) \o e  BY <1>3, <1>5, FlattenAppend
<1>9. FlattenSeq(s) \in Seq(Letters)  BY FlattenIsSeq
<1> QED  BY <1>3, <1>4, <1>5, <1>6, <1>7, <1>8, <1>9 DEF IsAppend

\* A word cut into its first character, what is behind it up to p, the character at p,
\* and the rest
LEMMA WordCut ==
  ASSUME NEW w \in Seq(Letters), NEW p \in Nat \ {0}, p < Len(w)
  PROVE  /\ SubSeq(w, 2, p) \in Seq(Letters) /\ SubSeq(w, 2, p + 1) = SubSeq(w, 2, p) \o <<w[p + 1]>>
         /\ SubSeq(w, p + 2, Len(w)) \in Seq(Letters) /\ w[p + 1] \in Letters
         /\ SubSeq(w, 2, Len(w)) = SubSeq(w, 2, p) \o (<<w[p + 1]>> \o SubSeq(w, p + 2, Len(w)))
<1>1. PICK n \in Nat : n = Len(w) /\ p < n  BY LenProperties
<1>2. PICK k \in Nat : k = p + 1 /\ k + 1 = p + 2 /\ k <= n /\ 2 <= k /\ k \in 1 .. n  BY <1>1
<1>3. /\ SubSeq(w, 2, p) \in Seq(Letters)
      /\ SubSeq(w, 2, k) = SubSeq(w, 2, p) \o SubSeq(w, p + 1, k)
  BY <1>1, <1>2, CutInTwo
<1>4. SubSeq(w, 2, n) = SubSeq(w, 2, p) \o SubSeq(w, p + 1, n)
  <2>1. p \in Nat /\ 2 \in Nat \ {0} /\ 2 <= p + 1 /\ p <= n /\ n <= Len(w)  BY <1>1
  <2> QED  BY <2>1, CutInTwo
<1>5. /\ SubSeq(w, k + 1, n) \in Seq(Letters)
      /\ SubSeq(w, k, n) = SubSeq(w, k, k) \o SubSeq(w, k + 1, n)
  <2>1. k \in Nat \ {0} /\ k <= k + 1  BY <1>2
  <2> QED  BY <1>1, <1>2, <2>1, CutInTwo
<1>6. SubSeq(w, k, k) = <<w[k]>> /\ w[k] \in Letters
  <2>1. k \in 1 .. Len(w)  BY <1>1, <1>2
  <2>2. w[k] \in Letters  BY <2>1, ElementOfSeq
  <2> QED  BY <2>1, <2>2, PartOfOne
<1> QED  BY <1>1, <1>2, <1>3, <1>4, <1>5, <1>6

\* Where a call begins: at a character, or in front of a word, with all in front of it read
LEMMA PlaceIs ==
  ASSUME OptionInv, finished = "no"
  PROVE  \E i \in Nat, p \in Nat :
           /\ Begin = <<i, p>> /\ optind <= i /\ i \in 1 .. Len(argv) + 1
           /\ p > 0 => i <= Len(argv) /\ p < Len(argv[i])
           /\ ReadTo(argv, got, i - 1, p, Returned)
<1>1. PICK n \in Nat, i \in Nat, p \in Nat : n = Len(argv) /\ i = optind /\ p = optpos /\ i \in 1 .. n + 1
  <2>1. Len(argv) \in Nat  BY LenProperties DEF OptionInv, OptionTypes
  <2>2. optind \in Nat /\ optpos \in Nat  BY <2>1 DEF OptionInv, OptionTypes
  <2> QED  BY <2>1, <2>2 DEF OptionInv, OptionTypes
<1>2. ReadTo(argv, got, i - 1, p, Returned) /\ argv \in Seq(Seq(Letters)) /\ got \in Seq(Results)
  BY <1>1 DEF OptionInv, OptionTypes
<1>3. CASE p = 0
  <2>1. Begin = <<i, p>>  BY <1>1, <1>3 DEF Begin
  <2> QED  BY <1>1, <1>2, <1>3, <2>1
<1>4. CASE p > 0
  <2>1. i \in 1 .. n /\ p <= Len(argv[i])  BY <1>1, <1>4 DEF OptionInv, OptionTypes
  <2>2. PICK w \in Seq(Letters), m \in Nat : w = argv[i] /\ m = Len(w) /\ p <= m
    <3>1. argv[i] \in Seq(Letters)  BY <1>1, <1>2, <2>1, ElementOfSeq
    <3> QED  BY <2>1, <3>1, LenProperties
  <2>3. CASE CharAt(i, p) # "nul"
    <3>1. p < m  BY <2>2, <2>3 DEF CharAt
    <3>2. Begin = <<i, p>>  BY <1>1, <1>4, <2>1, <2>3 DEF Begin
    <3> QED  BY <1>1, <1>2, <2>1, <2>2, <3>1, <3>2
  <2>4. CASE CharAt(i, p) = "nul"
    <3>1. p = m
      <4>1. SUFFICES ASSUME p < m PROVE FALSE  BY <2>2
      <4>2. p + 1 \in 1 .. Len(w)  BY <2>2, <4>1
      <4>3. w[p + 1] \in Letters  BY <4>2, ElementOfSeq
      <4>4. w[p + 1] = "nul"  BY <2>2, <2>4, <4>1 DEF CharAt
      <4> QED  BY <4>3, <4>4, GetoptAssumption
    <3>2. Begin = <<i + 1, 0>>  BY <1>1, <1>4, <2>1, <2>4 DEF Begin
    <3>3. Told(argv, got, i) = SubSeq(w, 2, m)
      <4>1. \A k \in DOMAIN got : got[k].word # i
        <5>1. DOMAIN got = 1 .. Len(got)  BY <1>2, LenProperties
        <5>2. \A k \in DOMAIN got : got[k].word \in Nat
          <6>1. \A k \in DOMAIN got : got[k] \in Results  BY <1>2, <5>1, ElementOfSeq
          <6> QED  BY <6>1 DEF Results
        <5>3. \A k \in DOMAIN got : got[k].word < i  BY <1>1, <5>1 DEF OptionInv
        <5> QED  BY <5>2, <5>3
      <4> QED  BY <2>2, <4>1 DEF Told
    <3>4. PICK j \in Nat : i = j + 1 /\ j < n /\ i - 1 = j /\ i + 1 - 1 = i
      <4>1. i - 1 \in Nat /\ i = (i - 1) + 1 /\ i - 1 < n /\ i + 1 - 1 = i  BY <1>1, <2>1
      <4> QED  BY <4>1
    <3>5. /\ FlattenSeq(Words(argv, got, i)) = FlattenSeq(Words(argv, got, j)) \o Told(argv, got, i)
          /\ FlattenSeq(Words(argv, got, j)) \in Seq(Letters) /\ Told(argv, got, i) \in Seq(Letters)
      BY <1>1, <1>2, <3>4, OneWordMore
    <3>6. FlattenSeq(Words(argv, got, i)) = Returned
      <4>1. ReadTo(argv, got, j, p, Returned)  BY <1>2, <3>4
      <4>2. FlattenSeq(Words(argv, got, j)) \o UpTo(argv[j + 1], p) = Returned  BY <4>1 DEF ReadTo
      <4>3. argv[j + 1] = w  BY <2>2, <3>4
      <4>4. UpTo(w, p) = SubSeq(w, 2, p)  BY <1>4 DEF UpTo
      <4> QED  BY <3>1, <3>3, <3>5, <4>2, <4>3, <4>4
    <3>7. PICK f \in Seq(Letters) : f = FlattenSeq(Words(argv, got, i))
      <4>1. FlattenSeq(Words(argv, got, i)) \in Seq(Letters)  BY <3>5, ConcatProperties
      <4> QED  BY <4>1
    <3>8. f \o <<>> = f  BY ConcatEmptySeq
    <3>9. ReadTo(argv, got, i + 1 - 1, 0, Returned)  BY <3>4, <3>6, <3>7, <3>8 DEF ReadTo, UpTo
    <3>10. i + 1 \in Nat /\ 0 \in Nat /\ i <= i + 1 /\ i + 1 \in 1 .. n + 1 /\ ~(0 > 0)  BY <2>1
    <3> QED  BY <1>1, <3>2, <3>9, <3>10
  <2> QED  BY <2>3, <2>4
<1> QED  BY <1>1, <1>3, <1>4

\* A result keeps the invariant when it tells the truth and all in front of the place
\* behind it has been read.
LEMMA ResultKeeps ==
  ASSUME OptionInv, finished = "no", NEW j \in Nat, NEW q \in Nat, NEW r \in Results,
         optind <= Len(argv), optind <= j, j \in 1 .. Len(argv) + 1,
         q > 0 => j <= Len(argv) /\ q <= Len(argv[j]),
         optind' = j, optpos' = q, got' = Append(got, r), UNCHANGED <<argv, finished>>,
         TrueOf(r), r.word < j, r.problem = "requires" => j > Len(argv),
         ReadTo(argv, got', j - 1, q, Returned \o Piece(r))
  PROVE  OptionInv'
<1>1. PICK m \in Nat, n \in Nat, o \in Nat : m = Len(got) /\ n = Len(argv) /\ o = optind /\ o <= n /\ o <= j
  <2>1. Len(got) \in Nat /\ Len(argv) \in Nat  BY LenProperties DEF OptionInv, OptionTypes
  <2>2. optind \in Nat  BY <2>1 DEF OptionInv, OptionTypes
  <2> QED  BY <2>1, <2>2
<1>2. argv' = argv /\ finished' = "no" /\ got \in Seq(Results) /\ argv \in Seq(Seq(Letters))  BY DEF OptionInv, OptionTypes
<1>3. PICK g \in Seq(Results) : IsAppend(g, got, m, r)  BY <1>1, <1>2, Appended
<1>4. g = got' /\ Len(g) = m + 1 /\ g[m + 1] = r /\ \A k \in 1 .. m : g[k] = got[k]
  BY <1>3 DEF IsAppend
<1>5. OptionTypes'  BY <1>1, <1>2, <1>4 DEF OptionTypes
<1>6. ASSUME NEW k \in 1 .. m + 1
      PROVE  TrueOf(g[k]) /\ g[k].word < j /\ (g[k].problem = "requires" => k = m + 1 /\ j > n)
  <2>1. CASE k = m + 1  BY <1>1, <1>4, <2>1
  <2>2. CASE k \in 1 .. m
    <3>1. TrueOf(got[k]) /\ got[k].word < optind /\ got[k].problem # "requires"
      BY <1>1, <2>2 DEF OptionInv
    <3>2. got[k].word \in Nat
      <4>1. got[k] \in Results  BY <1>1, <1>2, <2>2, ElementOfSeq
      <4> QED  BY <4>1 DEF Results
    <3>3. g[k] = got[k]  BY <1>4, <2>2
    <3> QED  BY <1>1, <3>1, <3>2, <3>3
  <2> QED  BY <1>1, <2>1, <2>2
<1>7. Returned' = Returned \o Piece(r)  BY <1>2, ReturnedGrows
<1>8. ReadTo(argv, got, optind - (IF finished = "dashes" THEN 2 ELSE 1), optpos, Returned)'
  BY <1>2, <1>7
<1>9. \A k \in 1 .. Len(got') : /\ TrueOf(got'[k]) /\ got'[k].word < optind'
                                /\ got'[k].problem = "requires" => k = Len(got') /\ optind' > Len(argv')
  BY <1>1, <1>2, <1>4, <1>6
<1>10. (\A k \in 1 .. Len(got) : /\ TrueOf(got[k]) /\ got[k].word < optind
                                 /\ got[k].problem = "requires" => k = Len(got) /\ optind > Len(argv))'
  BY <1>9 DEF TrueOf
<1> QED  BY <1>2, <1>5, <1>8, <1>10 DEF OptionInv

LEMMA ReadToWord ==
  ASSUME NEW a \in Seq(Seq(Letters)), NEW g, NEW n \in 0 .. Len(a), NEW all,
         FlattenSeq(Words(a, g, n)) = all
  PROVE  ReadTo(a, g, n, 0, all)
<1>1. PICK s \in Seq(Seq(Letters)) : s = Words(a, g, n)  BY WordsAre
<1>2. FlattenSeq(Words(a, g, n)) \in Seq(Letters)  BY <1>1, FlattenIsSeq
<1>3. FlattenSeq(Words(a, g, n)) \o <<>> = FlattenSeq(Words(a, g, n))  BY <1>2, ConcatEmptySeq
<1> QED  BY <1>3 DEF ReadTo, UpTo

\* What is returned for the option at p of the word i
LEMMA OptionKeeps ==
  ASSUME OptionInv, finished = "no", NEW i \in Nat, NEW p \in Nat \ {0}, optind <= i,
         i \in 1 .. Len(argv), p < Len(argv[i]), ReadTo(argv, got, i - 1, p, Returned), Option(i, p)
  PROVE  OptionInv'
<1>1. argv \in Seq(Seq(Letters)) /\ got \in Seq(Results)  BY DEF OptionInv, OptionTypes
<1>2. PICK n \in Nat, o \in Nat, b \in Nat : n = Len(argv) /\ o = optind /\ o <= i /\ i <= n /\ i = b + 1 /\ b = i - 1 /\ i + 1 - 1 = i
  <2>1. Len(argv) \in Nat  BY <1>1, LenProperties
  <2>2. optind \in Nat  BY <2>1 DEF OptionInv, OptionTypes
  <2>3. i - 1 \in Nat /\ i = (i - 1) + 1 /\ i + 1 - 1 = i  BY <2>1
  <2> QED  BY <2>1, <2>2, <2>3
<1>3. PICK w \in Seq(Letters), m \in Nat : w = argv[i] /\ m = Len(w) /\ p < m
  <2>1. argv[i] \in Seq(Letters)  BY <1>1, ElementOfSeq
  <2> QED  BY <2>1, LenProperties
<1>4. PICK c \in Letters, h \in Seq(Letters), rest \in Seq(Letters) :
        c = w[p + 1] /\ h = SubSeq(w, 2, p) /\ rest = SubSeq(w, p + 2, m)
  BY <1>3, WordCut
<1>5. PICK one \in Seq(Letters) : one = <<c>>  BY OneElement
<1>6. PICK y \in Seq(Letters) : y = one \o rest  BY ConcatProperties
<1>7. SubSeq(w, 2, p + 1) = h \o one /\ SubSeq(w, 2, m) = h \o y  BY <1>3, <1>4, <1>5, <1>6, WordCut
<1>8. CharAt(i, p) = c  BY <1>3, <1>4 DEF CharAt
<1>9. PICK f \in Seq(Letters) : /\ f = FlattenSeq(Words(argv, got, b))
                                /\ FlattenSeq(Words(argv, got, i)) = f \o Told(argv, got, i)
  <2>1. b < Len(argv)  BY <1>2
  <2>2. /\ FlattenSeq(Words(argv, got, b)) \in Seq(Letters)
        /\ FlattenSeq(Words(argv, got, b + 1)) = FlattenSeq(Words(argv, got, b)) \o Told(argv, got, b + 1)
    BY <1>1, <2>1, OneWordMore
  <2> QED  BY <1>2, <2>2
<1>10. PICK all \in Seq(Letters) : all = Returned  BY <1>1, ReturnedIs
<1>11. f \o h = all
  <2>1. ReadTo(argv, got, b, p, Returned)  BY <1>2
  <2>2. FlattenSeq(Words(argv, got, b)) \o UpTo(argv[b + 1], p) = Returned  BY <2>1 DEF ReadTo
  <2>3. argv[b + 1] = w  BY <1>2, <1>3
  <2>4. UpTo(w, p) = h  BY <1>4 DEF UpTo
  <2> QED  BY <1>9, <1>10, <2>2, <2>3, <2>4
<1>12. Told(argv, got, i) = h \o y
  <2>1. \A k \in DOMAIN got : got[k].word # i
    <3>1. DOMAIN got = 1 .. Len(got)  BY <1>1, LenProperties
    <3>2. \A k \in DOMAIN got : got[k].word \in Nat
      <4>1. \A k \in DOMAIN got : got[k] \in Results  BY <1>1, <3>1, ElementOfSeq
      <4> QED  BY <4>1 DEF Results
    <3>3. \A k \in DOMAIN got : got[k].word < o  BY <1>2, <3>1 DEF OptionInv
    <3> QED  BY <1>2, <3>2, <3>3
  <2> QED  BY <1>3, <1>7, <2>1 DEF Told
<1>13. FlattenSeq(Words(argv, got, i)) = all \o y
  <2>1. (f \o h) \o y = f \o (h \o y)
    <3>1. Regroups(f, h, y)  BY Regrouped
    <3> QED  BY <3>1 DEF Regroups
  <2> QED  BY <1>9, <1>11, <1>12, <2>1
<1>14. PICK e \in Seq(Letters) : e = <<>>  BY EmptySeq
<1>15. one \o e = one /\ (rest = e => y = one)
  <2>1. one \o <<>> = one  BY ConcatEmptySeq
  <2> QED  BY <1>6, <1>14, <2>1
\* the option alone
<1>16. ASSUME NEW v \in {"none", "illegal"}, Result(i, p + 1, CharAt(i, p), <<>>, 0, v),
              v = "illegal" <=> c \notin Plain \cup WithArg, c \notin WithArg
       PROVE  OptionInv'
  <2>1. PICK r \in Results : r = [option |-> c, arg |-> e, word |-> 0, problem |-> v]  BY DEF Results
  <2>2. optind' = i /\ optpos' = p + 1 /\ got' = Append(got, r) /\ UNCHANGED <<argv, finished>>
    BY <1>8, <1>14, <1>16, <2>1 DEF Result
  <2>3. Piece(r) = one  BY <1>5, <1>15, <2>1 DEF Piece
  <2>4. Words(argv, Append(got, r), b) = Words(argv, got, b)
    <3>1. r.word \notin 1 .. b  BY <2>1
    <3> QED  BY <1>1, <3>1, WordsSame
  <2>5. ReadTo(argv, got', i - 1, p + 1, Returned \o Piece(r))
    <3>1. UpTo(argv[b + 1], p + 1) = h \o one
      <4>1. argv[b + 1] = w  BY <1>2, <1>3
      <4>2. p + 1 # 0  OBVIOUS
      <4>3. UpTo(w, p + 1) = SubSeq(w, 2, p + 1)  BY <4>2 DEF UpTo
      <4> QED  BY <1>7, <4>1, <4>3
    <3>2. (f \o h) \o one = f \o (h \o one)
      <4>1. Regroups(f, h, one)  BY Regrouped
      <4> QED  BY <4>1 DEF Regroups
    <3>3. FlattenSeq(Words(argv, got', b)) = f  BY <1>9, <2>2, <2>4
    <3>4. FlattenSeq(Words(argv, got', b)) \o UpTo(argv[b + 1], p + 1) = all \o one  BY <1>11, <3>1, <3>2, <3>3
    <3>5. ReadTo(argv, got', b, p + 1, Returned \o Piece(r))  BY <1>10, <2>3, <3>4 DEF ReadTo
    <3> QED  BY <1>2, <3>5
  <2>6. TrueOf(r) /\ r.word < i /\ r.problem # "requires"  BY <1>2, <1>16, <2>1 DEF TrueOf
  <2>7. p + 1 \in Nat /\ p + 1 <= Len(argv[i]) /\ optind <= Len(argv)  BY <1>2, <1>3
  <2>8. i \in 1 .. Len(argv) + 1 /\ i <= Len(argv)  BY <1>2
  <2> QED  BY <2>2, <2>5, <2>6, <2>7, <2>8, ResultKeeps
\* the rest of the word as its argument, or no word left
<1>17. ASSUME NEW v \in {"none", "requires"}, Result(i + 1, 0, CharAt(i, p), rest, 0, v), c \in WithArg,
              v = "none" => rest # <<>>, v = "requires" => i = n
       PROVE  OptionInv'
  <2>1. PICK r \in Results : r = [option |-> c, arg |-> rest, word |-> 0, problem |-> v]  BY DEF Results
  <2>2. optind' = i + 1 /\ optpos' = 0 /\ got' = Append(got, r) /\ UNCHANGED <<argv, finished>>
    BY <1>8, <1>17, <2>1 DEF Result
  <2>3. Piece(r) = y  BY <1>5, <1>6, <2>1 DEF Piece
  <2>4. Words(argv, Append(got, r), i) = Words(argv, got, i)
    <3>1. r.word \notin 1 .. i  BY <2>1
    <3> QED  BY <1>1, <3>1, WordsSame
  <2>5. ReadTo(argv, got', i + 1 - 1, 0, Returned \o Piece(r))
    <3>1. FlattenSeq(Words(argv, got', i)) = Returned \o Piece(r)  BY <1>10, <1>13, <2>2, <2>3, <2>4
    <3>2. i \in 0 .. Len(argv)  BY <1>2
    <3>3. ReadTo(argv, got', i, 0, Returned \o Piece(r))  BY <1>1, <3>1, <3>2, ReadToWord
    <3> QED  BY <1>2, <3>3
  <2>6. TrueOf(r) /\ r.word < i + 1 /\ (r.problem = "requires" => i + 1 > Len(argv))
    BY <1>2, <1>17, <2>1 DEF TrueOf
  <2>7. i + 1 \in Nat /\ 0 \in Nat /\ ~(0 > 0) /\ optind <= Len(argv) /\ optind <= i + 1 /\ i + 1 \in 1 .. Len(argv) + 1  BY <1>2
  <2> QED  BY <2>2, <2>5, <2>6, <2>7, ResultKeeps
\* the next word as its argument
<1>18. ASSUME Result(i + 2, 0, CharAt(i, p), argv[i + 1], i + 1, "none"), c \in WithArg, rest = <<>>, i < n
       PROVE  OptionInv'
  <2>0. i + 1 \in 1 .. Len(argv)  BY <1>2, <1>18
  <2>1. PICK x \in Seq(Letters) : x = argv[i + 1]
    <3>1. argv[i + 1] \in Seq(Letters)  BY <1>1, <2>0, ElementOfSeq
    <3> QED  BY <3>1
  <2>2. PICK r \in Results : r = [option |-> c, arg |-> x, word |-> i + 1, problem |-> "none"]
    <3>1. i + 1 \in Nat  OBVIOUS
    <3>2. [option |-> c, arg |-> x, word |-> i + 1, problem |-> "none"] \in Results  BY <3>1 DEF Results
    <3> QED  BY <3>2
  <2>3. optind' = i + 2 /\ optpos' = 0 /\ got' = Append(got, r) /\ UNCHANGED <<argv, finished>>
    BY <1>8, <1>18, <2>1, <2>2 DEF Result
  <2>4. PICK z \in Seq(Letters) : z = one \o x  BY ConcatProperties
  <2>5. Piece(r) = z  BY <1>5, <2>2, <2>4 DEF Piece
  <2>6. PICK g \in Seq(Results) : g = got' /\ DOMAIN g = 1 .. Len(got) + 1 /\ g[Len(got) + 1] = r
    <3>1. PICK g \in Seq(Results) : IsAppend(g, got, Len(got), r)  BY <1>1, Appended
    <3> QED  BY <2>3, <3>1 DEF IsAppend
  <2>7. FlattenSeq(Words(argv, g, i)) = all \o one
    <3>1. Words(argv, Append(got, r), i) = Words(argv, got, i)
      <4>1. r.word \notin 1 .. i  BY <2>2
      <4> QED  BY <1>1, <4>1, WordsSame
    <3> QED  BY <1>13, <1>14, <1>15, <1>18, <2>3, <2>6, <3>1
  <2>8. Told(argv, g, i + 1) = x
    <3>1. Len(got) + 1 \in DOMAIN g /\ g[Len(got) + 1].word = i + 1
      <4>1. Len(got) \in Nat  BY <1>1, LenProperties
      <4> QED  BY <2>2, <2>6, <4>1
    <3> QED  BY <2>1, <3>1 DEF Told
  <2>9. FlattenSeq(Words(argv, g, i + 1)) = all \o z
    <3>1. FlattenSeq(Words(argv, g, i + 1)) = FlattenSeq(Words(argv, g, i)) \o Told(argv, g, i + 1)
      <4>1. i < Len(argv)  BY <1>2, <1>18
      <4> QED  BY <1>1, <4>1, OneWordMore
    <3>2. (all \o one) \o x = all \o (one \o x)
      <4>1. Regroups(all, one, x)  BY Regrouped
      <4> QED  BY <4>1 DEF Regroups
    <3> QED  BY <2>4, <2>7, <2>8, <3>1, <3>2
  <2>10. ReadTo(argv, got', i + 2 - 1, 0, Returned \o Piece(r))
    <3>1. FlattenSeq(Words(argv, g, i + 1)) = Returned \o Piece(r)  BY <1>10, <2>5, <2>9
    <3>2. i + 1 \in 0 .. Len(argv) /\ i + 2 - 1 = i + 1  BY <1>2, <2>0
    <3>3. ReadTo(argv, g, i + 1, 0, Returned \o Piece(r))  BY <1>1, <3>1, <3>2, ReadToWord
    <3> QED  BY <2>6, <3>2, <3>3
  <2>11. TrueOf(r) /\ r.word < i + 2 /\ r.problem # "requires"
    <3>1. c \in Plain \cup WithArg /\ i + 1 # 0 /\ i + 1 < i + 2  BY <1>18
    <3> QED  BY <2>2, <3>1 DEF TrueOf
  <2>12. i + 2 \in Nat /\ 0 \in Nat /\ ~(0 > 0) /\ optind <= Len(argv) /\ optind <= i + 2 /\ i + 2 \in 1 .. Len(argv) + 1
    BY <1>2, <1>18
  <2>13. PICK j \in Nat : j = i + 2  BY <2>12
  <2>14. optind' = j /\ optpos' = 0 /\ got' = Append(got, r) /\ UNCHANGED <<argv, finished>>  BY <2>3, <2>13
  <2>15. ReadTo(argv, got', j - 1, 0, Returned \o Piece(r))  BY <2>10, <2>13
  <2>16. TrueOf(r) /\ r.word < j /\ (r.problem = "requires" => j > Len(argv))  BY <2>11, <2>13
  <2>17. optind <= Len(argv) /\ optind <= j /\ j \in 1 .. Len(argv) + 1 /\ 0 \in Nat /\ ~(0 > 0)  BY <2>12, <2>13
  <2>18. OptionInv /\ finished = "no"  BY <1>1
  <2> HIDE DEF OptionInv, TrueOf, ReadTo, Piece
  <2> QED  BY <2>14, <2>15, <2>16, <2>17, <2>18, ResultKeeps
<1>19. CASE c \in Plain
  <2>1. c \notin WithArg  BY <1>19, GetoptAssumption
  <2>2. Result(i, p + 1, CharAt(i, p), <<>>, 0, "none")  BY <1>8, <1>19, <2>1 DEF Option
  <2> QED  BY <1>16, <1>19, <2>1, <2>2
<1>20. CASE c \in WithArg
  <2>1. c \notin Plain  BY <1>20, GetoptAssumption
  <2>5. SubSeq(argv[i], p + 2, Len(argv[i])) = rest  BY <1>3, <1>4
  <2>2. CASE rest # <<>>
    <3>1. Result(i + 1, 0, CharAt(i, p), rest, 0, "none")  BY <1>3, <1>4, <1>8, <1>20, <2>1, <2>2 DEF Option
    <3> QED  BY <1>17, <1>20, <2>2, <3>1
  <2>3. CASE rest = <<>> /\ i < n
    <3>1. Result(i + 2, 0, CharAt(i, p), argv[i + 1], i + 1, "none")
      <4>1. i < Len(argv)  BY <1>2, <2>3
      <4> QED  BY <1>8, <1>20, <2>1, <2>3, <2>5, <4>1 DEF Option
    <3> QED  BY <1>18, <1>20, <2>3, <3>1
  <2>4. CASE rest = <<>> /\ i = n
    <3>1. Result(i + 1, 0, CharAt(i, p), <<>>, 0, Complaint(i + 1))
      <4>1. i = Len(argv) /\ ~(i < Len(argv))  BY <1>2, <2>4
      <4> QED  BY <1>8, <1>20, <2>1, <2>4, <2>5, <4>1 DEF Option
    <3>2. Complaint(i + 1) = "requires"  BY <1>2, <2>4 DEF Complaint
    <3> QED  BY <1>17, <1>20, <2>4, <3>1, <3>2
  <2> QED  BY <1>2, <2>2, <2>3, <2>4
<1>21. CASE c \notin Plain \cup WithArg
  <2>1. Result(i, p + 1, CharAt(i, p), <<>>, 0, Complaint(i))  BY <1>8, <1>21 DEF Option
  <2>2. Complaint(i) = "illegal"  BY <1>2 DEF Complaint
  <2> QED  BY <1>16, <1>21, <2>1, <2>2
<1> QED  BY <1>19, <1>20, <1>21

\* The calls are over: what was read is all.
LEMMA DoneKeeps ==
  ASSUME OptionInv, finished = "no", NEW i \in Nat, i \in 1 .. Len(argv) + 1, optind <= i,
         NEW why \in {"operand", "dashes"}, NEW j \in Nat, j \in 1 .. Len(argv) + 1, Done(j, why),
         j = IF why = "dashes" THEN i + 1 ELSE i,
         ReadTo(argv, got, i - 1, 0, Returned),
         why = "operand" /\ i <= Len(argv) => argv[i] = <<>> \/ argv[i][1] # Dash \/ Len(argv[i]) = 1
  PROVE  OptionInv'
<1>1. optind' = j /\ optpos' = 0 /\ finished' = why /\ argv' = argv /\ got' = got  BY DEF Done
<1>2. PICK n \in Nat, o \in Nat : n = Len(argv) /\ o = optind /\ o <= j
  <2>1. Len(argv) \in Nat  BY LenProperties DEF OptionInv, OptionTypes
  <2>2. optind \in Nat  BY <2>1 DEF OptionInv, OptionTypes
  <2> QED  BY <2>1, <2>2
<1>3. OptionTypes'  BY <1>1, <1>2 DEF OptionInv, OptionTypes
<1>4. got \in Seq(Results)  BY DEF OptionInv, OptionTypes
<1>5. ASSUME NEW k \in 1 .. Len(got)
      PROVE  /\ TrueOf(got[k]) /\ got[k].word < j
             /\ got[k].problem = "requires" => k = Len(got) /\ j > Len(argv)
  <2>1. got[k].word \in Nat
    <3>1. got[k] \in Results  BY <1>4, ElementOfSeq
    <3> QED  BY <3>1 DEF Results
  <2>2. /\ TrueOf(got[k]) /\ got[k].word < optind
        /\ got[k].problem = "requires" => k = Len(got) /\ optind > Len(argv)
    BY DEF OptionInv
  <2> QED  BY <1>2, <2>1, <2>2
<1>6. (\A k \in 1 .. Len(got) : /\ TrueOf(got[k]) /\ got[k].word < optind
                                /\ got[k].problem = "requires" => k = Len(got) /\ optind > Len(argv))'
  BY <1>1, <1>5 DEF TrueOf
<1>7. ReadTo(argv, got, optind - (IF finished = "dashes" THEN 2 ELSE 1), optpos, Returned)'
  <2>1. j - (IF why = "dashes" THEN 2 ELSE 1) = i - 1  BY <1>2
  <2>2. Returned' = Returned  BY <1>1 DEF Returned
  <2> QED  BY <1>1, <2>1, <2>2
<1>8. (finished = "operand" /\ optind <= Len(argv) => argv[optind] = <<>> \/ argv[optind][1] # Dash \/ Len(argv[optind]) = 1)'
  BY <1>1
<1> QED  BY <1>3, <1>6, <1>7, <1>8 DEF OptionInv

LEMMA OptionSteps == OptionInv /\ [Subgetopt]_getoptVars => OptionInv'
<1>1. CASE OptionInv /\ UNCHANGED getoptVars
  <2>1. Returned' = Returned  BY <1>1 DEF getoptVars, Returned
  <2>2. OptionTypes'  BY <1>1 DEF getoptVars, OptionInv, OptionTypes
  <2> QED  BY <1>1, <2>1, <2>2 DEF getoptVars, OptionInv, TrueOf
<1>2. CASE OptionInv /\ Subgetopt
  <2>1. finished = "no" /\ OptionInv  BY <1>2 DEF Subgetopt
  <2>2. PICK i \in Nat, p \in Nat :
           /\ Begin = <<i, p>> /\ optind <= i /\ i \in 1 .. Len(argv) + 1
           /\ p > 0 => i <= Len(argv) /\ p < Len(argv[i])
           /\ ReadTo(argv, got, i - 1, p, Returned)
    BY <2>1, PlaceIs
  <2>3. PICK n \in Nat : n = Len(argv)  BY <2>1, LenProperties DEF OptionInv, OptionTypes
  <2>4. Begin[1] = i /\ Begin[2] = p  BY <2>2
  <2>5. CASE i > n
    <3>1. p = 0 /\ ~(i <= n)  BY <2>2, <2>3, <2>5
    <3>2. Done(i, "operand")  BY <1>2, <2>3, <2>4, <2>5, <3>1 DEF Subgetopt
    <3> QED  BY <2>1, <2>2, <2>3, <3>1, <3>2, DoneKeeps
  <2>6. CASE i <= n /\ p > 0
    <3>1. Option(i, p)
      <4>1. i <= Len(argv) /\ ~(i > Len(argv)) /\ p # 0  BY <2>3, <2>6
      <4> QED  BY <1>2, <2>4, <2>6, <4>1 DEF Subgetopt
    <3>2. p \in Nat \ {0} /\ i \in 1 .. Len(argv) /\ p < Len(argv[i])  BY <2>2, <2>3, <2>6
    <3> QED  BY <2>1, <2>2, <3>1, <3>2, OptionKeeps
  <2>7. CASE i <= n /\ p = 0
    <3>1. PICK w \in Seq(Letters), m \in Nat : w = argv[i] /\ m = Len(w)
      <4>1. i \in 1 .. Len(argv)  BY <2>2, <2>3, <2>7
      <4>2. argv[i] \in Seq(Letters)  BY <2>1, <4>1, ElementOfSeq DEF OptionInv, OptionTypes
      <4> QED  BY <4>2, LenProperties
    <3>2. /\ CharAt(i, 0) = IF 0 < m THEN w[1] ELSE "nul"
          /\ CharAt(i, 1) = IF 1 < m THEN w[2] ELSE "nul"
      BY <3>1 DEF CharAt
    <3>3. (1 < m => w[2] # "nul") /\ (m = 0 => w = <<>>)
      <4>1. 1 < m => w[2] \in Letters
        <5>1. 1 < m => 2 \in 1 .. Len(w)  BY <3>1
        <5> QED  BY <5>1, ElementOfSeq
      <4>2. m = 0 => w = <<>>  BY <3>1, EmptySeq
      <4> QED  BY <4>1, <4>2, GetoptAssumption
    <3>4. IF CharAt(i, 0) # Dash \/ CharAt(i, 1) = "nul" THEN Done(i, "operand")
          ELSE IF CharAt(i, 1) = Dash THEN Done(i + 1, "dashes")
          ELSE Option(i, 1)
      BY <1>2, <2>3, <2>4, <2>7 DEF Subgetopt
    <3>5. CASE CharAt(i, 0) # Dash \/ CharAt(i, 1) = "nul"
      <4>1. w = <<>> \/ w[1] # Dash \/ m = 1
        <5>1. CASE CharAt(i, 1) = "nul"
          <6>1. ~(1 < m)
            <7>1. SUFFICES ASSUME 1 < m PROVE FALSE  OBVIOUS
            <7>2. CharAt(i, 1) = w[2]  BY <3>2, <7>1
            <7> QED  BY <3>3, <5>1, <7>1, <7>2
          <6>2. m = 0 \/ m = 1  BY <6>1
          <6> QED  BY <3>3, <6>2
        <5>2. CASE CharAt(i, 0) # Dash  BY <3>1, <3>2, <3>3, <5>2
        <5> QED  BY <3>5, <5>1, <5>2
      <4>2. Done(i, "operand")  BY <3>4, <3>5
      <4>3. i = IF "operand" = "dashes" THEN i + 1 ELSE i  OBVIOUS
      <4> QED  BY <2>1, <2>2, <2>7, <3>1, <4>1, <4>2, <4>3, DoneKeeps
    <3>6. CASE CharAt(i, 0) = Dash /\ CharAt(i, 1) # "nul" /\ CharAt(i, 1) = Dash
      <4>1. Done(i + 1, "dashes")  BY <3>4, <3>6
      <4>2. i + 1 \in Nat /\ i + 1 \in 1 .. Len(argv) + 1  BY <2>2, <2>3, <2>7
      <4>3. i + 1 = IF "dashes" = "dashes" THEN i + 1 ELSE i  OBVIOUS
      <4> QED  BY <2>1, <2>2, <2>7, <4>1, <4>2, <4>3, DoneKeeps
    <3>7. CASE CharAt(i, 0) = Dash /\ CharAt(i, 1) # "nul" /\ CharAt(i, 1) # Dash
      <4>1. Option(i, 1)  BY <3>4, <3>7
      <4>2. 1 < Len(argv[i])  BY <3>1, <3>2, <3>7
      <4>3. ReadTo(argv, got, i - 1, 1, Returned)
        <5>1. SubSeq(argv[i - 1 + 1], 2, 1) = <<>>  BY SubSeqEmpty
        <5>2. ReadTo(argv, got, i - 1, 0, Returned)  BY <2>2, <2>7
        <5> QED  BY <5>1, <5>2 DEF ReadTo, UpTo
      <4>4. 1 \in Nat \ {0} /\ i \in 1 .. Len(argv)  BY <2>2, <2>3, <2>7
      <4> QED  BY <2>1, <2>2, <4>1, <4>2, <4>3, <4>4, OptionKeeps
    <3> QED  BY <3>5, <3>6, <3>7
  <2>8. i > n \/ (i <= n /\ p > 0) \/ (i <= n /\ p = 0)  OBVIOUS
  <2> QED  BY <2>5, <2>6, <2>7, <2>8
<1> QED  BY <1>1, <1>2

LEMMA OptionBegins == GetoptInit => OptionInv
<1> SUFFICES ASSUME GetoptInit PROVE OptionInv  OBVIOUS
<1>1. /\ argv \in Seq(Seq(Letters)) /\ optind = 1 /\ optpos = 0 /\ got = <<>> /\ finished = "no"
  BY GetoptAssumption DEF GetoptInit
<1>2. got \in Seq(Results) /\ Len(got) = 0  BY <1>1, EmptySeq
<1>3. PICK n \in Nat : n = Len(argv)  BY <1>1, LenProperties
<1>4. OptionTypes  BY <1>1, <1>2, <1>3 DEF OptionTypes
<1>5. ReadTo(argv, got, 0, 0, Returned)
  <2>1. PICK s \in Seq(Seq(Letters)) : s = Words(argv, got, 0) /\ Len(s) = 0
    <3>1. 0 \in 0 .. Len(argv)  BY <1>3
    <3> QED  BY <1>1, <3>1, WordsAre
  <2>2. PICK t \in Seq(Seq(Letters)) : t = [k \in DOMAIN got |-> <<got[k].option>> \o got[k].arg] /\ Len(t) = 0
    <3>1. got \in [1 .. 0 -> Results]  BY <1>2, SeqDef
    <3> QED  BY <3>1, PiecesAre
  <2>3. s = t  BY <2>1, <2>2, SeqEqual
  <2>4. FlattenSeq(Words(argv, got, 0)) = Returned  BY <2>1, <2>2, <2>3 DEF Returned
  <2>5. 0 \in 0 .. Len(argv)  BY <1>3
  <2> QED  BY <1>1, <2>4, <2>5, ReadToWord
<1> QED  BY <1>1, <1>2, <1>4, <1>5 DEF OptionInv

LEMMA OptionsTold == OptionInv => OptionsAreWords
<1> SUFFICES ASSUME OptionInv PROVE OptionsAreWords  OBVIOUS
<1>1. DOMAIN got = 1 .. Len(got)  BY LenProperties DEF OptionInv, OptionTypes
<1>2. PICK n \in Nat : n = optind - (IF finished = "dashes" THEN 2 ELSE 1) /\ (optpos # 0 => n + 1 = optind)
  <2>1. Len(argv) \in Nat  BY LenProperties DEF OptionInv, OptionTypes
  <2>2. optind \in Nat /\ optind >= 1 /\ (finished = "dashes" => optind >= 2 /\ optpos = 0) /\ optpos \in Nat
    BY <2>1 DEF OptionInv, OptionTypes
  <2>3. optind - (IF finished = "dashes" THEN 2 ELSE 1) \in Nat  BY <2>2
  <2>4. optpos # 0 => (optind - (IF finished = "dashes" THEN 2 ELSE 1)) + 1 = optind  BY <2>2
  <2> QED  BY <2>3, <2>4
<1>3. WordsRead(n) = Words(argv, got, n)  BY DEF WordsRead, Words, Told, IsArgument
<1>4. Begun(optind, optpos) = UpTo(argv[n + 1], optpos)  BY <1>2 DEF Begun, UpTo
<1>5. FlattenSeq(WordsRead(n)) \o Begun(optind, optpos) = Returned
  <2>1. ReadTo(argv, got, n, optpos, Returned)  BY <1>2 DEF OptionInv
  <2> QED  BY <1>3, <1>4, <2>1 DEF ReadTo
<1>6. \A k \in DOMAIN got : TrueOf(got[k]) /\ (got[k].problem = "requires" => k = Len(got) /\ optind > Len(argv))
  BY <1>1 DEF OptionInv
<1> QED  BY <1>2, <1>5, <1>6 DEF OptionsAreWords, TrueOf, OptionInv

\* Options and arguments are the characters of the words, and what is said of them is true.
THEOREM OptionsRead == OptionsSpec => []OptionsAreWords
<1>1. OptionsSpec => []OptionInv
  <2>1. GetoptInit => OptionInv  BY OptionBegins
  <2>2. OptionInv /\ [Subgetopt]_getoptVars => OptionInv'  BY OptionSteps
  <2> QED  BY <2>1, <2>2, PTL DEF OptionsSpec
<1> QED  BY <1>1, OptionsTold, PTL

-----------------------------------------------------------------------------
(***************************************************************************)
(* Quotients and remainders                                                *)
(***************************************************************************)
\* division with a remainder
LEMMA Division ==
  ASSUME NEW d \in Nat \ {0}, NEW n \in Nat
  PROVE  /\ n \div d \in Nat /\ n % d \in 0 .. d - 1
         /\ n = d * (n \div d) + (n % d)
<1> DEFINE q == n \div d
           r == n % d
<1>1. q \in Int /\ r \in 0 .. d - 1 /\ n = d * q + r  OBVIOUS
<1> HIDE DEF q, r
<1>2. ~(q < 0)
  <2> SUFFICES ASSUME q < 0 PROVE FALSE  OBVIOUS
  <2>1. d * q + d <= d * 0  BY <1>1, Apart
  <2> DEFINE x == d * q
  <2>2. x \in Int /\ n = x + r  BY <1>1
  <2>3. d * 0 = 0  OBVIOUS
  <2>4. x + d <= 0  BY <2>1, <2>3
  <2> HIDE DEF x
  <2> QED  BY <1>1, <2>2, <2>4
<1> QED  BY <1>1, <1>2 DEF q, r

\* there is one quotient and one remainder only
LEMMA OneQuotient ==
  ASSUME NEW d \in Nat \ {0}, NEW q \in Nat, NEW r \in 0 .. d - 1
  PROVE  (d * q + r) \div d = q /\ (d * q + r) % d = r
<1> DEFINE n == d * q + r
           p == n \div d
           s == n % d
<1>1. n \in Nat /\ d * q \in Nat  OBVIOUS
<1>2. p \in Nat /\ s \in 0 .. d - 1 /\ n = d * p + s
  <2> HIDE DEF n
  <2> QED  BY <1>1, Division
<1>3. n = d * q + r  OBVIOUS
<1> HIDE DEF n, p, s
<1>4. ~(p < q)
  <2> SUFFICES ASSUME p < q PROVE FALSE  OBVIOUS
  <2>1. d * p + d <= d * q  BY <1>2, Apart
  <2>2. d * p \in Nat  BY <1>2
  <2> QED  BY <1>1, <1>2, <1>3, <2>1, <2>2
<1>5. ~(q < p)
  <2> SUFFICES ASSUME q < p PROVE FALSE  OBVIOUS
  <2>1. d * q + d <= d * p  BY <1>2, Apart
  <2>2. d * p \in Nat  BY <1>2
  <2> QED  BY <1>1, <1>2, <1>3, <2>1, <2>2
<1>6. p = q  BY <1>2, <1>4, <1>5
<1>7. s = r  BY <1>1, <1>2, <1>3, <1>6
<1> QED  BY <1>6, <1>7 DEF n, p, s

\* quotients keep the order
LEMMA Quotients ==
  ASSUME NEW d \in Nat \ {0}, NEW a \in Nat, NEW b \in Nat, a <= b
  PROVE  a \div d <= b \div d
<1>1. /\ a \div d \in Nat /\ a % d \in 0 .. d - 1 /\ a = d * (a \div d) + (a % d)
      /\ b \div d \in Nat /\ b % d \in 0 .. d - 1 /\ b = d * (b \div d) + (b % d)
  BY Division
<1> SUFFICES ASSUME b \div d < a \div d PROVE FALSE  BY <1>1
<1>2. d * (b \div d) + d <= d * (a \div d)  BY <1>1, Apart
<1> DEFINE p == d * (a \div d)
           q == d * (b \div d)
<1>3. p \in Nat /\ q \in Nat  BY <1>1
<1> HIDE DEF p, q
<1>4. q + d <= p /\ a = p + (a % d) /\ b = q + (b % d)  BY <1>1, <1>2 DEF p, q
<1> QED  BY <1>1, <1>3, <1>4

-----------------------------------------------------------------------------
(***************************************************************************)
(* Times and ticks                                                         *)
(***************************************************************************)
\* What is known of the constants, one by one.
LEMMA Constants ==
  /\ TicksPerSec \in Nat \ {0} /\ PerTick \in Nat \ {0} /\ PerMs \in Nat \ {0}
  /\ Slack \in Nat \ {0} /\ CapMs \in Nat \ {0} /\ Epoch \in Nat
  /\ StartMax \in Nat /\ MaxClock \in Nat /\ MaxFails \in Nat /\ WaitsMax \in Nat
  /\ ULong \in Nat /\ Base \in Nat \ {0} /\ 2 * Base <= ULong
  /\ Base = TicksPerSec * PerTick
  /\ Timeouts \subseteq Nat
  /\ \A s \in Timeouts : StartMax + s * TicksPerSec < MaxClock
  /\ Epoch + MaxClock \div TicksPerSec < ULong
BY DeadlinesAssumption, TaiaAssumption

\* half a tick
Half == PerTick \div 2

\* the nanoseconds of a number of ticks below a second
LEMMA Nanos ==
  ASSUME NEW r \in 0 .. TicksPerSec - 1
  PROVE  /\ PerTick * r \in Nat /\ Half \in Nat
         /\ PerTick * r + Half < Base
<1>1. /\ TicksPerSec \in Nat \ {0} /\ PerTick \in Nat \ {0} /\ Base \in Nat
      /\ Base = TicksPerSec * PerTick
  BY Constants
<1>2. Half \in Nat /\ Half < PerTick  BY <1>1 DEF Half
<1>3. PerTick * r + PerTick <= PerTick * TicksPerSec  BY <1>1, Apart
<1>4. PerTick * TicksPerSec = Base  BY <1>1
<1>5. PerTick * r \in Nat  BY <1>1
<1> QED  BY <1>1, <1>2, <1>3, <1>4, <1>5

\* The seconds do not wrap while the clock is looked at.
LEMMA Now ==
  ASSUME NEW c \in 0 .. MaxClock
  PROVE  /\ TaiaNow(c).sec = Epoch + c \div TicksPerSec
         /\ TaiaNow(c).nano = PerTick * (c % TicksPerSec) + Half
         /\ TaiaNow(c).atto = 0
         /\ TaiaNow(c).sec \in 0 .. ULong - 1 /\ TaiaNow(c).nano \in 0 .. Base - 1
         /\ c \div TicksPerSec \in Nat /\ c % TicksPerSec \in 0 .. TicksPerSec - 1
         /\ c = TicksPerSec * (c \div TicksPerSec) + (c % TicksPerSec)
<1>1. /\ TicksPerSec \in Nat \ {0} /\ Epoch \in Nat /\ MaxClock \in Nat /\ ULong \in Nat
      /\ Epoch + MaxClock \div TicksPerSec < ULong /\ Base \in Nat /\ PerTick \in Nat
  BY Constants
<1>2. c \in Nat /\ c <= MaxClock  BY <1>1
<1>3. /\ c \div TicksPerSec \in Nat /\ c % TicksPerSec \in 0 .. TicksPerSec - 1
      /\ c = TicksPerSec * (c \div TicksPerSec) + (c % TicksPerSec)
  BY <1>1, <1>2, Division
<1>4. c \div TicksPerSec <= MaxClock \div TicksPerSec  BY <1>1, <1>2, Quotients
<1>5. MaxClock \div TicksPerSec \in Nat  BY <1>1, Division
<1> DEFINE e == Epoch + c \div TicksPerSec
<1>6. e \in 0 .. ULong - 1  BY <1>1, <1>3, <1>4, <1>5
<1>7. e % ULong = e
  <2> HIDE DEF e
  <2> QED  BY <1>1, <1>6
<1>8. PerTick * (c % TicksPerSec) \in Nat /\ Half \in Nat /\ PerTick * (c % TicksPerSec) + Half < Base
  BY <1>3, Nanos
<1>9. /\ TaiaNow(c).sec = e % ULong /\ TaiaNow(c).atto = 0
      /\ TaiaNow(c).nano = PerTick * (c % TicksPerSec) + Half
  BY DEF TaiaNow, Half
<1>10. TaiaNow(c).nano \in 0 .. Base - 1  BY <1>1, <1>8, <1>9
<1> QED  BY <1>3, <1>6, <1>7, <1>9, <1>10

\* Comparing times is comparing ticks.
LEMMA Order ==
  ASSUME NEW a \in 0 .. MaxClock, NEW b \in 0 .. MaxClock
  PROVE  TaiaLess(TaiaNow(a), TaiaNow(b)) <=> a < b
<1>1. /\ TicksPerSec \in Nat \ {0} /\ Epoch \in Nat /\ MaxClock \in Nat /\ PerTick \in Nat \ {0}
  BY Constants
<1> DEFINE qa == a \div TicksPerSec
           ra == a % TicksPerSec
           qb == b \div TicksPerSec
           rb == b % TicksPerSec
<1>2. /\ qa \in Nat /\ ra \in 0 .. TicksPerSec - 1 /\ a = TicksPerSec * qa + ra
      /\ qb \in Nat /\ rb \in 0 .. TicksPerSec - 1 /\ b = TicksPerSec * qb + rb
  <2>1. a \in Nat /\ b \in Nat  BY <1>1
  <2> QED  BY <1>1, <2>1, Division
<1>3. /\ TaiaNow(a).sec = Epoch + qa /\ TaiaNow(a).nano = PerTick * ra + Half /\ TaiaNow(a).atto = 0
      /\ TaiaNow(b).sec = Epoch + qb /\ TaiaNow(b).nano = PerTick * rb + Half /\ TaiaNow(b).atto = 0
  BY Now
<1> HIDE DEF qa, ra, qb, rb
<1> DEFINE less == \/ Epoch + qa < Epoch + qb
                   \/ Epoch + qa = Epoch + qb /\ PerTick * ra + Half < PerTick * rb + Half
<1>4. TaiaLess(TaiaNow(a), TaiaNow(b)) <=> less  BY <1>3 DEF TaiaLess
<1>5. less <=> (qa < qb \/ (qa = qb /\ ra < rb))
  <2>1. PerTick * ra \in Nat /\ PerTick * rb \in Nat /\ Half \in Nat  BY <1>2, Nanos
  <2>2. ra < rb => PerTick * ra + PerTick <= PerTick * rb  BY <1>1, <1>2, Apart
  <2>3. ~(ra < rb) => ra = rb \/ PerTick * rb + PerTick <= PerTick * ra  BY <1>1, <1>2, Apart
  <2>4. ra = rb => PerTick * ra = PerTick * rb  OBVIOUS
  <2> DEFINE x == PerTick * ra
             y == PerTick * rb
  <2>5. /\ x \in Nat /\ y \in Nat /\ (ra < rb => x + PerTick <= y)
        /\ (~(ra < rb) => x = y \/ y + PerTick <= x)
    BY <2>1, <2>2, <2>3, <2>4
  <2> HIDE DEF x, y
  <2>6. (x + Half < y + Half) <=> ra < rb  BY <1>1, <1>2, <2>1, <2>5
  <2>7. (Epoch + qa < Epoch + qb <=> qa < qb) /\ (Epoch + qa = Epoch + qb <=> qa = qb)
    BY <1>1, <1>2
  <2> QED  BY <2>6, <2>7 DEF x, y
<1>6. qa < qb => a < b
  <2> SUFFICES ASSUME qa < qb PROVE a < b  OBVIOUS
  <2>1. TicksPerSec * qa + TicksPerSec <= TicksPerSec * qb  BY <1>1, <1>2, Apart
  <2> DEFINE x == TicksPerSec * qa
             y == TicksPerSec * qb
  <2>2. x \in Nat /\ y \in Nat /\ x + TicksPerSec <= y /\ a = x + ra /\ b = y + rb
    BY <1>1, <1>2, <2>1
  <2> HIDE DEF x, y
  <2> QED  BY <1>1, <1>2, <2>2
<1>7. qb < qa => b < a
  <2> SUFFICES ASSUME qb < qa PROVE b < a  OBVIOUS
  <2>1. TicksPerSec * qb + TicksPerSec <= TicksPerSec * qa  BY <1>1, <1>2, Apart
  <2> DEFINE x == TicksPerSec * qa
             y == TicksPerSec * qb
  <2>2. x \in Nat /\ y \in Nat /\ y + TicksPerSec <= x /\ a = x + ra /\ b = y + rb
    BY <1>1, <1>2, <2>1
  <2> HIDE DEF x, y
  <2> QED  BY <1>1, <1>2, <2>2
<1>8. qa = qb => (a < b <=> ra < rb)
  <2> SUFFICES ASSUME qa = qb PROVE a < b <=> ra < rb  OBVIOUS
  <2> DEFINE x == TicksPerSec * qa
  <2>1. x \in Nat /\ a = x + ra /\ b = x + rb  BY <1>1, <1>2
  <2> HIDE DEF x
  <2> QED  BY <1>1, <1>2, <2>1
<1>9. a \in Nat /\ b \in Nat  BY <1>1
<1> QED  BY <1>2, <1>4, <1>5, <1>6, <1>7, <1>8, <1>9

\* the seconds and nanoseconds of a difference of times, and whether one is borrowed
Nano(d, s) == Minus(d.nano, s.nano)
Sec(d, s) == Minus(d.sec, s.sec)

\* taia_sub of a stamp from a deadline, into the cell of the stamp
LEMMA Subtraction ==
  ASSUME NEW d, NEW s, s = [sec |-> s.sec, nano |-> s.nano, atto |-> 0], d.atto = 0,
         Minus(0, 0) = 0
  PROVE  TaiaSub([t |-> s, d |-> d], "t", "d", "t").t =
           [sec |-> IF Nano(d, s) > d.nano THEN Minus(Sec(d, s), 1) ELSE Sec(d, s),
            nano |-> IF Nano(d, s) > d.nano THEN Plus(Nano(d, s), Base) ELSE Nano(d, s),
            atto |-> 0]
<1> DEFINE m == [t |-> s, d |-> d]
           m1 == [m EXCEPT !["t"].sec = Minus(m["d"].sec, m["t"].sec)]
           m2 == [m1 EXCEPT !["t"].nano = Minus(d.nano, m1["t"].nano)]
           m3 == [m2 EXCEPT !["t"].atto = Minus(d.atto, m2["t"].atto)]
<1>1. m["t"] = s /\ m["d"] = d /\ m = [t |-> s, d |-> d]  OBVIOUS
<1>2. m1["t"] = [sec |-> Sec(d, s), nano |-> s.nano, atto |-> 0] /\ "t" \in DOMAIN m1
  BY <1>1 DEF Sec
<1> HIDE DEF m1
<1>3. m2["t"] = [sec |-> Sec(d, s), nano |-> Nano(d, s), atto |-> 0] /\ "t" \in DOMAIN m2
  BY <1>2 DEF Nano
<1> HIDE DEF m2
<1>4. m3["t"] = [sec |-> Sec(d, s), nano |-> Nano(d, s), atto |-> 0] /\ "t" \in DOMAIN m3
  BY <1>3
<1> HIDE DEF m3
<1> DEFINE borrow1 == m3["t"].atto > d.atto
           nano == IF borrow1 THEN Minus(m3["t"].nano, 1) ELSE m3["t"].nano
           borrow2 == nano > d.nano
           new == [sec |-> IF borrow2 THEN Minus(m3["t"].sec, 1) ELSE m3["t"].sec,
                   nano |-> IF borrow2 THEN Plus(nano, Base) ELSE nano,
                   atto |-> IF borrow1 THEN Plus(m3["t"].atto, Base) ELSE m3["t"].atto]
<1>5. TaiaSub(m, "t", "d", "t").t = new
  BY <1>1, <1>4 DEF TaiaSub, m1, m2, m3
<1>6. ~borrow1 /\ nano = Nano(d, s)  BY <1>4
<1> QED  BY <1>4, <1>5, <1>6

\* arithmetic of an unsigned long
LEMMA Wrap ==
  ASSUME NEW a \in Int
  PROVE  /\ a \in 0 .. ULong - 1 => a % ULong = a
         /\ a \in -ULong .. -1 => a % ULong = a + ULong
         /\ a \in ULong .. 2 * ULong - 1 => a % ULong = a - ULong
<1>1. ULong \in Nat \ {0}  BY Constants
<1> DEFINE q == a \div ULong
           r == a % ULong
<1>2. q \in Int /\ r \in 0 .. ULong - 1 /\ a = ULong * q + r  BY <1>1
<1> HIDE DEF q, r
<1>3. q < -1 => ULong * q + ULong <= ULong * (-1)  BY <1>1, <1>2, Apart
<1>4. q < 0 => ULong * q + ULong <= ULong * 0  BY <1>1, <1>2, Apart
<1>5. q > 0 => ULong * 0 + ULong <= ULong * q  BY <1>1, <1>2, Apart
<1>6. q > 1 => ULong * 1 + ULong <= ULong * q  BY <1>1, <1>2, Apart
<1> DEFINE x == ULong * q
<1>7. x \in Int /\ a = x + r  BY <1>1, <1>2
<1>8. /\ q < -1 => x + ULong <= -ULong
      /\ q < 0 => x + ULong <= 0
      /\ q > 0 => ULong <= x
      /\ q > 1 => 2 * ULong <= x
  BY <1>1, <1>3, <1>4, <1>5, <1>6
<1>9. (q = -1 => x = -ULong) /\ (q = 0 => x = 0) /\ (q = 1 => x = ULong)  BY <1>1
<1> HIDE DEF x
<1>10. a \in 0 .. ULong - 1 => r = a  BY <1>1, <1>2, <1>7, <1>8, <1>9
<1>11. a \in -ULong .. -1 => r = a + ULong  BY <1>1, <1>2, <1>7, <1>8, <1>9
<1>12. a \in ULong .. 2 * ULong - 1 => r = a - ULong  BY <1>1, <1>2, <1>7, <1>8, <1>9
<1> QED  BY <1>10, <1>11, <1>12 DEF r

\* the time between a stamp and a deadline that is not before it
LEMMA TimeLeft ==
  ASSUME NEW D \in 0 .. MaxClock, NEW n \in 0 .. MaxClock, n <= D
  PROVE  TaiaApprox(TaiaSub([t |-> TaiaNow(n), d |-> TaiaNow(D)], "t", "d", "t").t)
           = ((D - n) * PerTick) * Base
<1> DEFINE d == TaiaNow(D)
           s == TaiaNow(n)
           qd == D \div TicksPerSec
           rd == D % TicksPerSec
           qn == n \div TicksPerSec
           rn == n % TicksPerSec
<1>1. /\ TicksPerSec \in Nat \ {0} /\ Epoch \in Nat /\ MaxClock \in Nat /\ PerTick \in Nat \ {0}
      /\ ULong \in Nat /\ Base \in Nat \ {0} /\ 2 * Base <= ULong /\ Base = TicksPerSec * PerTick
  BY Constants
<1>2. D \in Nat /\ n \in Nat  BY <1>1
<1>3. /\ qd \in Nat /\ rd \in 0 .. TicksPerSec - 1 /\ D = TicksPerSec * qd + rd
      /\ qn \in Nat /\ rn \in 0 .. TicksPerSec - 1 /\ n = TicksPerSec * qn + rn
  BY <1>1, <1>2, Division
<1>4. d.sec = Epoch + qd /\ d.nano = PerTick * rd + Half /\ d.atto = 0 /\ d.sec \in 0 .. ULong - 1
  BY Now
<1>5. s.sec = Epoch + qn /\ s.nano = PerTick * rn + Half /\ s.atto = 0 /\ s.sec \in 0 .. ULong - 1
  BY Now
<1>6. s = [sec |-> s.sec, nano |-> s.nano, atto |-> 0]  BY DEF TaiaNow
<1>7. qn <= qd  BY <1>1, <1>2, Quotients
<1>8. Minus(0, 0) = 0  BY <1>1, Wrap DEF Minus
<1>9. PICK r : /\ r = TaiaSub([t |-> s, d |-> d], "t", "d", "t").t
               /\ r = [sec |-> IF Nano(d, s) > d.nano THEN Minus(Sec(d, s), 1) ELSE Sec(d, s),
                       nano |-> IF Nano(d, s) > d.nano THEN Plus(Nano(d, s), Base) ELSE Nano(d, s),
                       atto |-> 0]
  BY <1>4, <1>6, <1>8, Subtraction
<1> HIDE DEF d, s, qd, rd, qn, rn
<1>10. Sec(d, s) = qd - qn /\ qd - qn \in 0 .. ULong - 1
  <2>1. d.sec - s.sec = qd - qn /\ qd - qn \in 0 .. ULong - 1  BY <1>1, <1>3, <1>4, <1>5, <1>7
  <2>2. Sec(d, s) = (d.sec - s.sec) % ULong  BY DEF Sec, Minus
  <2>3. qd - qn \in Int  BY <1>3
  <2> QED  BY <2>1, <2>2, <2>3, Wrap
<1> DEFINE x == PerTick * rd
           y == PerTick * rn
<1>11. /\ x \in Nat /\ y \in Nat /\ Half \in Nat /\ x + Half < Base /\ y + Half < Base
       /\ d.nano = x + Half /\ s.nano = y + Half
  BY <1>3, <1>4, <1>5, Nanos
<1>12. Nano(d, s) = (x - y) % ULong
  <2>1. d.nano - s.nano = x - y  BY <1>11
  <2> QED  BY <2>1 DEF Nano, Minus
<1>13. (rn <= rd => y <= x) /\ (rd < rn => x < y)
  <2>1. rd < rn => PerTick * rd + PerTick <= PerTick * rn  BY <1>1, <1>3, Apart
  <2>2. rn < rd => PerTick * rn + PerTick <= PerTick * rd  BY <1>1, <1>3, Apart
  <2>3. rn = rd => x = y  OBVIOUS
  <2> QED  BY <1>1, <1>3, <1>11, <2>1, <2>2, <2>3
<1>14. (D - n) * PerTick = (qd - qn) * Base + (x - y)
  <2>1. D - n = TicksPerSec * (qd - qn) + (rd - rn)  BY <1>1, <1>3
  <2>2. (D - n) * PerTick = (TicksPerSec * (qd - qn)) * PerTick + (rd - rn) * PerTick
    BY <1>1, <1>3, <2>1
  <2>3. (TicksPerSec * (qd - qn)) * PerTick = (qd - qn) * Base  BY <1>1, <1>3
  <2>4. (rd - rn) * PerTick = x - y  BY <1>1, <1>3
  <2> QED  BY <2>2, <2>3, <2>4
<1> HIDE DEF x, y
<1>15. r.sec * Base + r.nano = (qd - qn) * Base + (x - y)
  <2>1. CASE y <= x
    <3>1. x - y \in 0 .. ULong - 1 /\ x - y \in Int  BY <1>1, <1>11, <2>1
    <3>2. Nano(d, s) = x - y  BY <1>12, <3>1, Wrap
    <3>3. ~(Nano(d, s) > d.nano)  BY <1>11, <3>2
    <3>4. r.sec = qd - qn /\ r.nano = x - y  BY <1>9, <1>10, <3>2, <3>3
    <3> QED  BY <3>4
  <2>2. CASE x < y
    <3>1. x - y \in -ULong .. -1 /\ x - y \in Int  BY <1>1, <1>11, <2>2
    <3>2. Nano(d, s) = x - y + ULong  BY <1>12, <3>1, Wrap
    <3>3. Nano(d, s) > d.nano  BY <1>1, <1>11, <3>2
    <3>4. qn # qd
      <4> SUFFICES ASSUME qn = qd PROVE FALSE  OBVIOUS
      <4>1. rd < rn  BY <1>3, <1>11, <1>13, <2>2
      <4> DEFINE z == TicksPerSec * qd
      <4>2. z \in Nat /\ D = z + rd /\ n = z + rn  BY <1>1, <1>3
      <4> HIDE DEF z
      <4> QED  BY <1>1, <1>3, <4>1, <4>2
    <3>5. r.sec = qd - qn - 1
      <4>1. qd - qn - 1 \in 0 .. ULong - 1 /\ qd - qn - 1 \in Int  BY <1>1, <1>3, <1>7, <1>10, <3>4
      <4>2. r.sec = (qd - qn - 1) % ULong  BY <1>9, <1>10, <3>3 DEF Minus
      <4> QED  BY <4>1, <4>2, Wrap
    <3>6. r.nano = x - y + Base
      <4> DEFINE a == x - y + ULong + Base
      <4>1. a \in Int /\ a \in ULong .. 2 * ULong - 1 /\ a - ULong = x - y + Base
        BY <1>1, <1>11, <2>2
      <4>2. r.nano = a % ULong  BY <1>9, <3>2, <3>3 DEF Plus
      <4> HIDE DEF a
      <4> QED  BY <4>1, <4>2, Wrap
    <3>7. (qd - qn - 1) * Base = (qd - qn) * Base - Base  BY <1>1, <1>3
    <3>8. (qd - qn) * Base \in Int  BY <1>1, <1>3
    <3> QED  BY <1>1, <1>11, <3>5, <3>6, <3>7, <3>8
  <2> QED  BY <1>11, <2>1, <2>2
<1>16. TaiaApprox(r) = (r.sec * Base + r.nano) * Base + 0  BY <1>9 DEF TaiaApprox
<1>17. TaiaApprox(r) = ((D - n) * PerTick) * Base + 0  BY <1>14, <1>15, <1>16
<1>18. ((D - n) * PerTick) * Base \in Int  BY <1>1, <1>2
<1> QED  BY <1>9, <1>17, <1>18 DEF d, s

-----------------------------------------------------------------------------
(***************************************************************************)
(* How long a poll waits                                                   *)
(***************************************************************************)
\* milliseconds in ticks, without a remainder
LEMMA InTicks ==
  \E q \in Nat \ {0} : PerMs = PerTick * q /\ \A ms \in Nat : Ticks(ms) = ms * q
<1>1. PerTick \in Nat \ {0} /\ PerMs \in Nat \ {0}  BY Constants
<1> DEFINE q == PerMs \div PerTick
<1>2. PerMs % PerTick = 0  BY DeadlinesAssumption
<1>3. q \in Nat /\ PerMs = PerTick * q + (PerMs % PerTick)  BY <1>1, Division
<1> HIDE DEF q
<1>4. PerMs = PerTick * q /\ q \in Nat \ {0}  BY <1>1, <1>2, <1>3
<1>5. ASSUME NEW ms \in Nat PROVE Ticks(ms) = ms * q
  <2>1. ms * PerMs = PerTick * (ms * q) + 0  BY <1>1, <1>4
  <2>2. ms * q \in Nat /\ 0 \in 0 .. PerTick - 1  BY <1>1, <1>4
  <2>3. (PerTick * (ms * q) + 0) \div PerTick = ms * q  BY <1>1, <2>2, OneQuotient
  <2> QED  BY <2>1, <2>3 DEF Ticks
<1> QED  BY <1>4, <1>5

\* A poll that is begun before the deadline lasts to behind it, or as long as a poll
\* may: the slack makes up for what is lost by rounding to milliseconds.
LEMMA HowLong ==
  ASSUME NEW D \in 0 .. MaxClock, NEW n \in 0 .. MaxClock
  PROVE  /\ Ticks(Millisecs(TaiaNow(D), TaiaNow(n))) \in Nat
         /\ n <= D => \/ Ticks(Millisecs(TaiaNow(D), TaiaNow(n))) > D - n
                      \/ Ticks(Millisecs(TaiaNow(D), TaiaNow(n))) >= Ticks(CapMs)
<1>1. /\ MaxClock \in Nat /\ PerTick \in Nat \ {0} /\ PerMs \in Nat \ {0} /\ Base \in Nat \ {0}
      /\ Slack \in Nat \ {0} /\ CapMs \in Nat \ {0}
  BY Constants
<1>2. D \in Nat /\ n \in Nat  BY <1>1
<1>3. PICK q \in Nat \ {0} : PerMs = PerTick * q /\ \A ms \in Nat : Ticks(ms) = ms * q
  BY InTicks
<1> DEFINE ms == Millisecs(TaiaNow(D), TaiaNow(n))
<1>4. CASE D < n
  <2>1. TaiaLess(TaiaNow(D), TaiaNow(n))  BY <1>4, Order
  <2>2. ms = 0  BY <2>1 DEF Millisecs
  <2> HIDE DEF ms
  <2>3. Ticks(ms) = 0 * q  BY <1>3, <2>2
  <2>4. Ticks(ms) = 0  BY <1>3, <2>3
  <2> QED  BY <1>2, <1>4, <2>4 DEF ms
<1>5. CASE n <= D
  <2> DEFINE k == D - n
             left == (k * PerTick) * Base
             cap == CapMs * PerMs * Base
             d == PerMs * Base
  <2>1. ~TaiaLess(TaiaNow(D), TaiaNow(n))  BY <1>2, <1>5, Order
  <2>2. TaiaApprox(TaiaSub([t |-> TaiaNow(n), d |-> TaiaNow(D)], "t", "d", "t").t) = left
    BY <1>5, TimeLeft
  <2>3. ms = ((IF left > cap THEN cap ELSE left) \div d) + Slack
    BY <2>1, <2>2 DEF Millisecs
  <2>4. k \in Nat /\ left \in Nat /\ d \in Nat \ {0}
    <3>1. k \in Nat  BY <1>2, <1>5
    <3>2. k * PerTick \in Nat  BY <1>1, <3>1
    <3> QED  BY <1>1, <3>1, <3>2
  <2>5. CASE left > cap
    <3>1. cap = d * CapMs + 0 /\ 0 \in 0 .. d - 1  BY <1>1, <2>4
    <3>2. cap \div d = CapMs
      <4> HIDE DEF cap, d
      <4> QED  BY <1>1, <2>4, <3>1, OneQuotient
    <3>3. ms = CapMs + Slack  BY <2>3, <2>5, <3>2
    <3> HIDE DEF ms
    <3>4. ms \in Nat /\ Ticks(ms) = (CapMs + Slack) * q /\ Ticks(CapMs) = CapMs * q
      BY <1>1, <1>3, <3>3
    <3>5. (CapMs + Slack) * q = CapMs * q + Slack * q /\ CapMs * q \in Nat /\ Slack * q \in Nat
      BY <1>1, <1>3
    <3>6. Ticks(ms) \in Nat /\ Ticks(ms) >= Ticks(CapMs)  BY <3>4, <3>5
    <3> QED  BY <3>6 DEF ms
  <2>6. CASE ~(left > cap)
    <3> DEFINE a == left \div d
               r == left % d
    <3>1. a \in Nat /\ r \in 0 .. d - 1 /\ left = d * a + r
      <4> HIDE DEF left, d
      <4> QED  BY <2>4, Division
    <3>2. ms = a + Slack  BY <2>3, <2>6
    <3> HIDE DEF ms, a, r
    <3>3. ms \in Nat /\ Ticks(ms) = (a + Slack) * q  BY <1>1, <1>3, <3>1, <3>2
    <3>4. Ticks(ms) >= q * a + q
      <4>1. (a + Slack) * q = q * a + q * Slack  BY <1>1, <1>3, <3>1
      <4>2. q * 0 + q <= q * Slack  BY <1>1, <1>3, Apart
      <4>3. q * a \in Nat /\ q * Slack \in Nat /\ q * 0 = 0  BY <1>1, <1>3, <3>1
      <4> QED  BY <1>3, <3>3, <4>1, <4>2, <4>3
    <3>5. k < q * a + q
      <4> DEFINE e == PerTick * Base
                 b == q * a + q
      <4>1. e \in Nat \ {0} /\ b \in Nat
        <5>1. q * a \in Nat  BY <1>3, <3>1
        <5> QED  BY <1>1, <1>3, <5>1
      <4>2. left = e * k  BY <1>1, <2>4
      <4>3. d * a + d = e * b
        <5>1. d = e * q  BY <1>1, <1>3
        <5>2. d * a = e * (q * a)  BY <1>1, <1>3, <3>1, <5>1
        <5>3. e * b = e * (q * a) + e * q  BY <1>1, <1>3, <3>1
        <5> QED  BY <5>1, <5>2, <5>3
      <4>4. left < d * a + d
        <5> DEFINE z == d * a
        <5>1. z \in Nat  BY <2>4, <3>1
        <5>2. left = z + r /\ r < d /\ r \in Nat  BY <2>4, <3>1
        <5> HIDE DEF z, left, d
        <5> QED  BY <2>4, <5>1, <5>2 DEF z
      <4>5. e * k < e * b  BY <4>2, <4>3, <4>4
      <4> HIDE DEF e, b, left, d, k
      <4>6. k < b
        <5> SUFFICES ASSUME ~(k < b) PROVE FALSE  OBVIOUS
        <5>1. b = k \/ b < k  BY <2>4, <4>1
        <5>2. b < k => e * b + e <= e * k  BY <2>4, <4>1, Apart
        <5>3. e * b \in Nat /\ e * k \in Nat  BY <2>4, <4>1
        <5>4. b = k => e * b = e * k  OBVIOUS
        <5> QED  BY <4>1, <4>5, <5>1, <5>2, <5>3, <5>4
      <4> QED  BY <4>6 DEF b
    <3>6. Ticks(ms) \in Nat
      <4>1. (a + Slack) * q \in Nat  BY <1>1, <1>3, <3>1
      <4> QED  BY <3>3, <4>1
    <3>7. q * a \in Nat  BY <1>3, <3>1
    <3> HIDE DEF k, left, d
    <3>8. Ticks(ms) > k  BY <1>3, <2>4, <3>4, <3>5, <3>6, <3>7
    <3> QED  BY <3>6, <3>8 DEF ms, k
  <2> QED  BY <2>5, <2>6
<1> QED  BY <1>2, <1>4, <1>5

-----------------------------------------------------------------------------
(***************************************************************************)
(* The inductive invariant.  For the states of the loop it says which tick *)
(* the deadline is, which tick the last stamp, and how much time the polls *)
(* that ended without an event have taken at least.                        *)
(***************************************************************************)
\* ticks of the longest poll, and how many of them the timeout has room for
Cap == Ticks(CapMs)
MostPolls == (seconds * TicksPerSec) \div Cap

\* when the deadline is tick D and it is tick t, the polls have each taken the longest
\* time; or one that was shorter has ended behind the deadline
Waited(D, t) ==
  \/ waits * Cap <= t - (D - seconds * TicksPerSec) /\ waits <= MostPolls
  \/ t > D /\ waits <= MostPolls + 1

\* in the loop, with the deadline at tick D and the last stamp at tick n
Looping(D, n) ==
  /\ deadline = TaiaNow(D) /\ now = TaiaNow(n)
  /\ seconds * TicksPerSec <= D /\ D < MaxClock
  /\ D - seconds * TicksPerSec <= n /\ n <= clock
  /\ step = "stamp" => Waited(D, clock)
  /\ step \in {"poll", "wait"} => Waited(D, n)
  /\ step = "wait" => until >= n + Ticks(Millisecs(deadline, now))
  /\ step = "check" => IF n > D THEN late \/ fails > 0 ELSE Waited(D, clock)

DeadlinesTypeOK ==
  /\ clock \in 0 .. MaxClock /\ nonblock \in BOOLEAN /\ late \in BOOLEAN
  /\ until \in Int /\ {seconds, waits, fails} \subseteq Nat
  /\ op \in {"none", "read", "write", "conn"}
  /\ step \in {"idle", "stamp", "poll", "wait", "check", "io", "connecting", "connected", "off"}
  /\ rc \in {"none", "timeout", "done", "failed"}
  /\ step # "idle" => rc = "none"

\* what the loop knows of time
TimeInv ==
  /\ waits <= MostPolls + 2
  /\ step \in {"stamp", "poll", "wait", "check"} => \E D, n \in 0 .. MaxClock : Looping(D, n)
  /\ rc = "timeout" => /\ \E D \in 0 .. MaxClock : deadline = TaiaNow(D) /\ D < clock
                       /\ late \/ fails > 0

\* what the steps behind the loop know of the descriptor
ConnInv ==
  /\ step = "io" => op # "conn"
  /\ step \in {"connecting", "connected", "off"} => op = "conn"
  /\ step = "off" => fd \in {"established", "reset"}
  /\ ConnectedMeansEstablished

DeadlinesInv == DeadlinesTypeOK /\ TimeInv /\ ConnInv

\* a deadline is a tick that the clock passes while it is looked at
LEMMA DeadlineIs ==
  ASSUME NEW c \in 0 .. StartMax, NEW s \in Timeouts
  PROVE  /\ c + s * TicksPerSec \in 0 .. MaxClock /\ c + s * TicksPerSec < MaxClock
         /\ c \in 0 .. MaxClock /\ s \in Nat /\ s * TicksPerSec \in Nat
         /\ TaiaAdd([now |-> TaiaNow(c), d |-> TaiaUint(s)], "d", "now", "d").d
              = TaiaNow(c + s * TicksPerSec)
<1>1. /\ TicksPerSec \in Nat \ {0} /\ Epoch \in Nat /\ MaxClock \in Nat /\ StartMax \in Nat
      /\ ULong \in Nat /\ Base \in Nat \ {0} /\ 2 * Base <= ULong /\ s \in Nat
      /\ StartMax + s * TicksPerSec < MaxClock /\ Epoch + MaxClock \div TicksPerSec < ULong
  BY Constants
<1> DEFINE D == c + s * TicksPerSec
           q == c \div TicksPerSec
           r == c % TicksPerSec
<1>2. c \in Nat /\ s * TicksPerSec \in Nat  BY <1>1
<1>3. D \in 0 .. MaxClock /\ D < MaxClock /\ c \in 0 .. MaxClock  BY <1>1, <1>2
<1>4. q \in Nat /\ r \in 0 .. TicksPerSec - 1 /\ c = TicksPerSec * q + r  BY <1>1, <1>2, Division
<1>5. D \div TicksPerSec = q + s /\ D % TicksPerSec = r
  <2> HIDE DEF q, r
  <2>1. D = TicksPerSec * (q + s) + r /\ q + s \in Nat  BY <1>1, <1>4
  <2> HIDE DEF D
  <2> QED  BY <1>1, <1>4, <2>1, OneQuotient
<1>6. /\ TaiaNow(c).sec = Epoch + q /\ TaiaNow(c).atto = 0 /\ TaiaNow(c).nano \in 0 .. Base - 1
      /\ TaiaNow(c).nano = PerTick * r + Half
  BY <1>3, Now
<1>7. /\ TaiaNow(D).sec = Epoch + (q + s) /\ TaiaNow(D).atto = 0
      /\ TaiaNow(D).nano = PerTick * r + Half /\ TaiaNow(D).sec \in 0 .. ULong - 1
  BY <1>3, <1>5, Now
<1>8. TaiaNow(D) = [sec |-> TaiaNow(D).sec, nano |-> TaiaNow(D).nano, atto |-> 0]
  BY DEF TaiaNow
<1> DEFINE x == TaiaNow(c)
           y == TaiaUint(s)
           z == TaiaNow(D)
           m == [now |-> x, d |-> y]
<1>9. y.sec = s /\ y.nano = 0 /\ y.atto = 0
  <2>1. s \in 0 .. ULong - 1  BY <1>1, <1>4, <1>7
  <2>2. s % ULong = s  BY <1>1, <2>1, Wrap
  <2> QED  BY <2>2 DEF TaiaUint
<1>10. x.sec = Epoch + q /\ x.atto = 0 /\ x.nano \in 0 .. Base - 1 /\ x.nano = z.nano
  BY <1>6, <1>7
<1>11. z.sec = Epoch + q + s /\ z.sec \in 0 .. ULong - 1 /\ z = [sec |-> z.sec, nano |-> z.nano, atto |-> 0]
  BY <1>1, <1>4, <1>7, <1>8
<1> HIDE DEF x, y, z, D, q, r
<1>12. Plus(x.atto, y.atto) = 0 /\ ~(0 > Base - 1)
  <2>1. 0 % ULong = 0  BY <1>1, Wrap
  <2>2. Plus(x.atto, y.atto) = (0 + 0) % ULong  BY <1>9, <1>10 DEF Plus
  <2> QED  BY <1>1, <2>1, <2>2
<1>13. Plus(x.nano, y.nano) = z.nano /\ ~(z.nano > Base - 1)
  <2>1. x.nano \in Int /\ x.nano \in 0 .. ULong - 1 /\ x.nano + 0 = x.nano  BY <1>1, <1>10
  <2>2. Plus(x.nano, y.nano) = x.nano % ULong  BY <1>9, <2>1 DEF Plus
  <2> QED  BY <1>1, <1>10, <2>1, <2>2, Wrap
<1>14. Plus(x.sec, y.sec) = z.sec
  <2>1. Plus(x.sec, y.sec) = z.sec % ULong  BY <1>9, <1>10, <1>11 DEF Plus
  <2>2. z.sec \in Int  BY <1>1, <1>11
  <2> QED  BY <1>11, <2>1, <2>2, Wrap
<1>15. m["now"] = x /\ m["d"] = y  OBVIOUS
<1>16. TaiaAdd(m, "d", "now", "d") = [m EXCEPT !["d"] = [sec |-> z.sec, nano |-> z.nano, atto |-> 0]]
  BY <1>12, <1>13, <1>14, <1>15 DEF TaiaAdd
<1>17. TaiaAdd(m, "d", "now", "d").d = z  BY <1>11, <1>16
<1> QED  BY <1>1, <1>2, <1>3, <1>17 DEF x, y, z, D

-----------------------------------------------------------------------------
(***************************************************************************)
(* Each step keeps the invariant                                           *)
(***************************************************************************)
\* the longest poll takes time
LEMMA CapFacts == Cap \in Nat \ {0} /\ (seconds \in Nat => MostPolls \in Nat /\ seconds * TicksPerSec \in Nat)
<1>1. PICK q \in Nat \ {0} : \A ms \in Nat : Ticks(ms) = ms * q  BY InTicks
<1>2. CapMs \in Nat \ {0} /\ TicksPerSec \in Nat  BY Constants
<1>3. Cap \in Nat \ {0}
  <2>1. CapMs * q \in Nat /\ CapMs * q # 0
    <3>1. q * 0 + q <= q * CapMs  BY <1>2, Apart
    <3>2. q * CapMs \in Nat /\ q * CapMs = CapMs * q /\ q * 0 = 0  BY <1>2
    <3> QED  BY <3>1, <3>2
  <2> QED  BY <1>1, <1>2, <2>1 DEF Cap
<1>4. ASSUME seconds \in Nat PROVE MostPolls \in Nat /\ seconds * TicksPerSec \in Nat
  <2>1. seconds * TicksPerSec \in Nat  BY <1>2, <1>4
  <2> QED  BY <1>3, <2>1, Division DEF MostPolls
<1> QED  BY <1>3, <1>4

\* what has been waited for stays so when time passes
LEMMA Later ==
  ASSUME DeadlinesTypeOK, NEW D \in Nat, NEW t \in Nat, NEW u \in Nat, t <= u, Waited(D, t)
  PROVE  Waited(D, u)
<1>1. seconds \in Nat /\ waits \in Nat  BY DEF DeadlinesTypeOK
<1>2. Cap \in Nat /\ seconds * TicksPerSec \in Nat  BY <1>1, CapFacts
<1> DEFINE a == waits * Cap
           b == seconds * TicksPerSec
<1>3. a \in Nat /\ b \in Nat  BY <1>1, <1>2
<1>4. (a <= t - (D - b) /\ waits <= MostPolls) \/ (t > D /\ waits <= MostPolls + 1)
  BY DEF Waited
<1> HIDE DEF a, b
<1>5. (a <= u - (D - b) /\ waits <= MostPolls) \/ (u > D /\ waits <= MostPolls + 1)
  BY <1>3, <1>4
<1> QED  BY <1>5 DEF Waited, a, b

\* A poll that ends without an event has taken as long as a poll may, or has ended behind
\* the deadline.
LEMMA OneMore ==
  ASSUME DeadlinesTypeOK, NEW D \in Nat, NEW n \in Nat, NEW w \in Nat, NEW t \in Nat,
         Waited(D, n), n <= D, seconds * TicksPerSec <= D, n <= t,
         w > D - n \/ w >= Cap, t >= n + w \/ t > D
  PROVE  \/ (waits + 1) * Cap <= t - (D - seconds * TicksPerSec) /\ waits + 1 <= MostPolls
         \/ t > D /\ waits + 1 <= MostPolls + 1
<1>1. seconds \in Nat /\ waits \in Nat  BY DEF DeadlinesTypeOK
<1>2. Cap \in Nat \ {0} /\ seconds * TicksPerSec \in Nat /\ MostPolls \in Nat  BY <1>1, CapFacts
<1> DEFINE a == waits * Cap
           b == seconds * TicksPerSec
<1>3. a \in Nat /\ b \in Nat /\ (waits + 1) * Cap = a + Cap  BY <1>1, <1>2
<1>4. (a <= n - (D - b) /\ waits <= MostPolls) \/ (n > D /\ waits <= MostPolls + 1)
  BY DEF Waited
<1>5. CASE t > D
  BY <1>1, <1>2, <1>4, <1>5
<1>6. CASE ~(t > D)
  <2> HIDE DEF a, b
  <2>1. b <= D  BY DEF b
  <2>2. a + Cap <= t - (D - b) /\ a + Cap <= b  BY <1>2, <1>3, <1>4, <1>6, <2>1
  <2>3. waits + 1 <= MostPolls
    <3>1. (a + Cap) \div Cap <= b \div Cap  BY <1>2, <1>3, <2>2, Quotients
    <3>2. a + Cap = Cap * (waits + 1) + 0 /\ waits + 1 \in Nat /\ 0 \in 0 .. Cap - 1
      BY <1>1, <1>2 DEF a
    <3>3. (a + Cap) \div Cap = waits + 1  BY <1>2, <3>2, OneQuotient
    <3> QED  BY <3>1, <3>3 DEF b, MostPolls
  <2> QED  BY <1>3, <2>2, <2>3 DEF b
<1> QED  BY <1>5, <1>6

\* the ticks of the loop
LEMMA Ticking ==
  ASSUME DeadlinesInv, step \in {"stamp", "poll", "wait", "check"}
  PROVE  \E D, n \in Nat : /\ D \in 0 .. MaxClock /\ n \in 0 .. MaxClock
                           /\ Looping(D, n) /\ D < MaxClock /\ n <= clock /\ clock \in Nat
<1>1. PICK D, n \in 0 .. MaxClock : Looping(D, n)  BY DEF DeadlinesInv, TimeInv
<1>2. MaxClock \in Nat /\ clock \in 0 .. MaxClock  BY Constants DEF DeadlinesInv, DeadlinesTypeOK
<1>3. D \in Nat /\ n \in Nat /\ clock \in Nat  BY <1>2
<1>4. D < MaxClock /\ n <= clock  BY <1>1 DEF Looping
<1> QED  BY <1>1, <1>3, <1>4

\* A step that changes no time and leaves the loop.
LEMMA LeavesLoop ==
  ASSUME DeadlinesInv, DeadlinesTypeOK',
         UNCHANGED <<deadline, seconds, waits, fails, late>>, clock' = clock \/ clock' = clock + 1,
         step' \notin {"stamp", "poll", "wait", "check"}, rc' = "timeout" => rc = "timeout"
  PROVE  TimeInv'
<1>1. (waits <= MostPolls + 2)'  BY DEF DeadlinesInv, TimeInv, MostPolls, Cap
<1>2. ASSUME rc' = "timeout"
      PROVE  \E D \in 0 .. MaxClock : deadline' = TaiaNow(D) /\ D < clock'
  <2>1. PICK D \in 0 .. MaxClock : deadline = TaiaNow(D) /\ D < clock
    BY <1>2 DEF DeadlinesInv, TimeInv
  <2>2. D \in Int /\ clock \in Int  BY Constants DEF DeadlinesInv, DeadlinesTypeOK
  <2>3. D < clock'  BY <2>1, <2>2
  <2> QED  BY <2>1, <2>3
<1>3. rc' = "timeout" => (late \/ fails > 0)'  BY DEF DeadlinesInv, TimeInv
<1> QED  BY <1>1, <1>2, <1>3 DEF TimeInv

\* A step within the loop.
LEMMA Continues ==
  ASSUME DeadlinesInv, (waits <= MostPolls + 2)', rc' # "timeout",
         NEW D \in 0 .. MaxClock, NEW n \in 0 .. MaxClock, Looping(D, n)'
  PROVE  TimeInv'
BY DEF TimeInv

LEMMA StampKeeps ==
  ASSUME DeadlinesInv, Stamp
  PROVE  DeadlinesInv'
<1>1. DeadlinesTypeOK'  BY DEF DeadlinesInv, DeadlinesTypeOK, Stamp
<1>2. PICK D, n \in Nat : /\ D \in 0 .. MaxClock /\ n \in 0 .. MaxClock
                          /\ Looping(D, n) /\ D < MaxClock /\ n <= clock /\ clock \in Nat
  BY Ticking DEF Stamp
<1>3. clock \in 0 .. MaxClock  BY DEF DeadlinesInv, DeadlinesTypeOK
<1>4. Waited(D, clock)  BY <1>2 DEF Looping, Stamp
<1>5. Looping(D, clock)'
  <2>1. Waited(D, clock)'  BY <1>4 DEF Stamp, Waited, MostPolls, Cap
  <2>2. seconds * TicksPerSec <= D /\ D - seconds * TicksPerSec <= n /\ seconds * TicksPerSec \in Nat
    BY <1>2, CapFacts DEF Looping, DeadlinesInv, DeadlinesTypeOK
  <2>3. D - seconds * TicksPerSec <= clock
    <3> DEFINE b == seconds * TicksPerSec
    <3>1. b \in Nat /\ D - b <= n  BY <2>2
    <3> HIDE DEF b
    <3>2. D - b <= clock  BY <1>2, <3>1
    <3> QED  BY <3>2 DEF b
  <2> QED  BY <1>2, <2>1, <2>2, <2>3 DEF Looping, Stamp
<1>6. TimeInv'
  <2>1. (waits <= MostPolls + 2)' /\ rc' # "timeout"
    BY DEF DeadlinesInv, DeadlinesTypeOK, TimeInv, Stamp, MostPolls, Cap
  <2>2. \E e \in 0 .. MaxClock : Looping(D, e)'  BY <1>2, <1>3, <1>5 DEF Stamp
  <2> QED  BY <1>2, <2>1, <2>2 DEF TimeInv
<1>7. ConnInv'
  BY DEF DeadlinesInv, DeadlinesTypeOK, ConnInv, ConnectedMeansEstablished, Stamp
<1> QED  BY <1>1, <1>6, <1>7 DEF DeadlinesInv

LEMMA PollKeeps ==
  ASSUME DeadlinesInv, Poll
  PROVE  DeadlinesInv'
<1>1. PICK D, n \in Nat : /\ D \in 0 .. MaxClock /\ n \in 0 .. MaxClock
                          /\ Looping(D, n) /\ D < MaxClock /\ n <= clock /\ clock \in Nat
  BY Ticking DEF Poll
<1>2. deadline = TaiaNow(D) /\ now = TaiaNow(n)  BY <1>1 DEF Looping
<1> DEFINE w == Ticks(Millisecs(deadline, now))
<1>3. w \in Nat  BY <1>1, <1>2, HowLong
<1>4. until' = clock + w  BY DEF Poll
<1>5. until' >= n + w /\ until' \in Int
  <2> HIDE DEF w
  <2> QED  BY <1>1, <1>3, <1>4
<1>6. DeadlinesTypeOK'  BY <1>5 DEF DeadlinesInv, DeadlinesTypeOK, Poll
<1>7. Looping(D, n)'
  <2>1. Waited(D, n)'  BY <1>1 DEF Looping, Poll, Waited, MostPolls, Cap
  <2>2. (until >= n + Ticks(Millisecs(deadline, now)))'  BY <1>5 DEF Poll
  <2> QED  BY <1>1, <2>1, <2>2 DEF Looping, Poll
<1>8. TimeInv'
  <2>1. (waits <= MostPolls + 2)' /\ rc' # "timeout"
    BY DEF DeadlinesInv, DeadlinesTypeOK, TimeInv, Poll, MostPolls, Cap
  <2> QED  BY <1>1, <1>7, <2>1, Continues
<1>9. ConnInv'
  BY DEF DeadlinesInv, DeadlinesTypeOK, ConnInv, ConnectedMeansEstablished, Poll
<1> QED  BY <1>6, <1>8, <1>9 DEF DeadlinesInv

LEMMA PollReadyKeeps ==
  ASSUME DeadlinesInv, PollReady
  PROVE  DeadlinesInv'
<1>1. DeadlinesTypeOK'  BY DEF DeadlinesInv, DeadlinesTypeOK, PollReady
<1>2. TimeInv'  BY <1>1, LeavesLoop DEF PollReady
<1>3. ConnInv'
  BY DEF DeadlinesInv, DeadlinesTypeOK, ConnInv, ConnectedMeansEstablished, PollReady
<1> QED  BY <1>1, <1>2, <1>3 DEF DeadlinesInv

LEMMA PollQuietKeeps ==
  ASSUME DeadlinesInv, PollQuiet
  PROVE  DeadlinesInv'
<1>1. PICK D, n \in Nat : /\ D \in 0 .. MaxClock /\ n \in 0 .. MaxClock
                          /\ Looping(D, n) /\ D < MaxClock /\ n <= clock /\ clock \in Nat
  BY Ticking DEF PollQuiet
<1>2. deadline = TaiaNow(D) /\ now = TaiaNow(n) /\ clock \in 0 .. MaxClock
  BY <1>1 DEF Looping, DeadlinesInv, DeadlinesTypeOK
<1>3. late' \in BOOLEAN /\ (D < clock => late')
  <2>1. late' = TaiaLess(deadline, TaiaNow(clock))  BY DEF PollQuiet
  <2>2. TaiaLess(deadline, TaiaNow(clock)) \in BOOLEAN  BY DEF TaiaLess
  <2>3. D < clock => TaiaLess(deadline, TaiaNow(clock))  BY <1>1, <1>2, Order
  <2> QED  BY <2>1, <2>2, <2>3, Zenon
<1>4. DeadlinesTypeOK'
  <2>1. waits' \in Nat /\ late' \in BOOLEAN  BY <1>3 DEF DeadlinesInv, DeadlinesTypeOK, PollQuiet
  <2> QED  BY <2>1 DEF DeadlinesInv, DeadlinesTypeOK, PollQuiet
<1>5. seconds \in Nat /\ waits \in Nat /\ MostPolls \in Nat /\ seconds * TicksPerSec \in Nat /\ Cap \in Nat
  BY CapFacts DEF DeadlinesInv, DeadlinesTypeOK
<1>6. MostPolls' = MostPolls /\ (waits' = waits + 1 \/ waits' = waits)
  BY DEF PollQuiet, MostPolls, Cap
<1>7. Waited(D, n) /\ seconds * TicksPerSec <= D  BY <1>1 DEF Looping, PollQuiet
<1>8. waits <= MostPolls + 1  BY <1>5, <1>7 DEF Waited
<1>9. (waits <= MostPolls + 2)'  BY <1>5, <1>6, <1>8
<1>10. n <= D => Waited(D, clock)'
  <2> SUFFICES ASSUME n <= D PROVE Waited(D, clock)'  OBVIOUS
  <2> DEFINE w == Ticks(Millisecs(deadline, now))
  <2>1. w \in Nat /\ (w > D - n \/ w >= Cap)  BY <1>1, <1>2, HowLong DEF Cap
  <2>2. clock >= n + w \/ clock > D
    <3>1. until >= n + w /\ until \in Int
      BY <1>1 DEF Looping, PollQuiet, DeadlinesInv, DeadlinesTypeOK
    <3>2. clock >= until \/ clock = MaxClock  BY DEF PollQuiet
    <3> HIDE DEF w
    <3> QED  BY <1>1, <2>1, <3>1, <3>2, Constants
  <2>3. DeadlinesTypeOK  BY DEF DeadlinesInv
  <2> HIDE DEF w
  <2>4. \/ (waits + 1) * Cap <= clock - (D - seconds * TicksPerSec) /\ waits + 1 <= MostPolls
        \/ clock > D /\ waits + 1 <= MostPolls + 1
    BY <1>1, <1>7, <2>1, <2>2, <2>3, OneMore
  <2>5. seconds' = seconds /\ clock' = clock  BY DEF PollQuiet
  <2>6. Cap' = Cap  BY DEF Cap
  <2>7. CASE waits' = waits + 1
    BY <1>6, <2>4, <2>5, <2>6, <2>7 DEF Waited
  <2>8. CASE waits' = waits
    <3>1. Waited(D, clock)  BY <1>1, <1>7, <2>3, Later
    <3> QED  BY <1>6, <2>5, <2>6, <2>8, <3>1 DEF Waited
  <2> QED  BY <1>6, <2>7, <2>8
<1>11. Looping(D, n)'
  <2>1. n > D => D < clock  BY <1>1
  <2>2. ~(n > D) => Waited(D, clock)'  BY <1>1, <1>10
  <2>3. n > D => late'  BY <1>3, <2>1
  <2> QED  BY <1>1, <2>2, <2>3 DEF Looping, PollQuiet
<1>12. rc' # "timeout"  BY DEF DeadlinesInv, DeadlinesTypeOK, PollQuiet
<1>13. TimeInv'  BY <1>1, <1>9, <1>11, <1>12, Continues
<1>14. ConnInv'
  BY DEF DeadlinesInv, DeadlinesTypeOK, ConnInv, ConnectedMeansEstablished, PollQuiet
<1> QED  BY <1>4, <1>13, <1>14 DEF DeadlinesInv

LEMMA PollFailsKeeps ==
  ASSUME DeadlinesInv, PollFails
  PROVE  DeadlinesInv'
<1>1. PICK D, n \in Nat : /\ D \in 0 .. MaxClock /\ n \in 0 .. MaxClock
                          /\ Looping(D, n) /\ D < MaxClock /\ n <= clock /\ clock \in Nat
  BY Ticking DEF PollFails
<1>2. DeadlinesTypeOK /\ fails' = fails + 1 /\ fails' \in Nat /\ fails' > 0
  BY DEF DeadlinesInv, DeadlinesTypeOK, PollFails
<1>3. DeadlinesTypeOK'  BY <1>2 DEF DeadlinesTypeOK, PollFails
<1>4. Waited(D, clock)
  <2>1. Waited(D, n)  BY <1>1 DEF Looping, PollFails
  <2> QED  BY <1>1, <1>2, <2>1, Later
<1>5. Looping(D, n)'
  <2>1. Waited(D, clock)'  BY <1>4 DEF PollFails, Waited, MostPolls, Cap
  <2> QED  BY <1>1, <1>2, <2>1 DEF Looping, PollFails
<1>6. TimeInv'
  <2>1. (waits <= MostPolls + 2)' /\ rc' # "timeout"
    BY DEF DeadlinesInv, DeadlinesTypeOK, TimeInv, PollFails, MostPolls, Cap
  <2> QED  BY <1>1, <1>5, <2>1, Continues
<1>7. ConnInv'
  BY DEF DeadlinesInv, DeadlinesTypeOK, ConnInv, ConnectedMeansEstablished, PollFails
<1> QED  BY <1>3, <1>6, <1>7 DEF DeadlinesInv

LEMMA CheckKeeps ==
  ASSUME DeadlinesInv, Check
  PROVE  DeadlinesInv'
<1>1. PICK D, n \in Nat : /\ D \in 0 .. MaxClock /\ n \in 0 .. MaxClock
                          /\ Looping(D, n) /\ D < MaxClock /\ n <= clock /\ clock \in Nat
  BY Ticking DEF Check
<1>2. DeadlinesTypeOK'  BY DEF DeadlinesInv, DeadlinesTypeOK, Check
<1>3. (waits <= MostPolls + 2)'  BY DEF DeadlinesInv, TimeInv, Check, MostPolls, Cap
<1>4. TaiaLess(deadline, now) <=> D < n
  BY <1>1, Order DEF Looping
<1>5. TimeInv'
  <2>1. CASE D < n
    <3>1. step' = "idle" /\ rc' = "timeout"  BY <1>4, <2>1 DEF Check
    <3>2. late \/ fails > 0  BY <1>1, <2>1 DEF Looping, Check
    <3>3. deadline' = TaiaNow(D) /\ D < clock'  BY <1>1, <2>1 DEF Looping, Check
    <3> QED  BY <1>1, <1>3, <3>1, <3>2, <3>3 DEF TimeInv, Check
  <2>2. CASE ~(D < n)
    <3>1. step' = "stamp" /\ rc' # "timeout"
      BY <1>4, <2>2 DEF Check, DeadlinesInv, DeadlinesTypeOK
    <3>2. Waited(D, clock)'
      <4>1. Waited(D, clock)  BY <1>1, <2>2 DEF Looping, Check
      <4> QED  BY <4>1 DEF Check, Waited, MostPolls, Cap
    <3>3. Looping(D, n)'  BY <1>1, <3>1, <3>2 DEF Looping, Check
    <3> QED  BY <1>1, <1>3, <3>1, <3>3, Continues
  <2> QED  BY <2>1, <2>2
<1>6. ConnInv'
  BY DEF DeadlinesInv, DeadlinesTypeOK, ConnInv, ConnectedMeansEstablished, Check
<1> QED  BY <1>2, <1>5, <1>6 DEF DeadlinesInv

\* the steps behind the loop
LEMMA ReturnKeeps ==
  ASSUME DeadlinesInv, Io \/ ConnectEnds \/ Connected \/ Off \/ Interrupted
  PROVE  DeadlinesInv'
<1> USE DEF Io, FillsRoom, ConnectEnds, Connected, Off, Interrupted, InKernel, Usable, Returns, callVars
<1>1. DeadlinesTypeOK'
  BY DEF DeadlinesInv, DeadlinesTypeOK
<1>2. TimeInv'
  BY <1>1, LeavesLoop DEF DeadlinesInv, DeadlinesTypeOK
<1>3. ConnInv'
  BY DEF DeadlinesInv, DeadlinesTypeOK, ConnInv, ConnectedMeansEstablished
<1> QED  BY <1>1, <1>2, <1>3 DEF DeadlinesInv

LEMMA TickKeeps ==
  ASSUME DeadlinesInv, Tick
  PROVE  DeadlinesInv'
<1>1. clock' = clock + 1 /\ clock' \in 0 .. MaxClock /\ clock \in Nat /\ clock' \in Nat
  BY Constants DEF DeadlinesInv, DeadlinesTypeOK, Tick
<1>2. DeadlinesTypeOK /\ DeadlinesTypeOK'
  BY <1>1 DEF DeadlinesInv, DeadlinesTypeOK, Tick, callVars
<1>3. TimeInv'
  <2>1. CASE step \in {"stamp", "poll", "wait", "check"}
    <3>1. PICK D, n \in Nat : /\ D \in 0 .. MaxClock /\ n \in 0 .. MaxClock
                              /\ Looping(D, n) /\ D < MaxClock /\ n <= clock
      BY <2>1, Ticking
    <3>2. Waited(D, clock) => Waited(D, clock')
      BY <1>1, <1>2, <3>1, Later
    <3>3. step = "stamp" => Waited(D, clock)'
      BY <3>1, <3>2 DEF Looping, Tick, callVars, Waited, MostPolls, Cap
    <3>4. step \in {"poll", "wait"} => Waited(D, n)'
      BY <3>1 DEF Looping, Tick, callVars, Waited, MostPolls, Cap
    <3>5. step = "check" => IF n > D THEN (late \/ fails > 0)' ELSE Waited(D, clock)'
      BY <3>1, <3>2 DEF Looping, Tick, callVars, Waited, MostPolls, Cap
    <3>6. n <= clock'  BY <1>1, <3>1
    <3>7. (step = "wait" => until >= n + Ticks(Millisecs(deadline, now)))'
      BY <3>1 DEF Looping, Tick, callVars
    <3>8. /\ deadline' = TaiaNow(D) /\ now' = TaiaNow(n)
          /\ seconds' * TicksPerSec <= D /\ D - seconds' * TicksPerSec <= n
      BY <3>1 DEF Looping, Tick, callVars
    <3>9. step' = step  BY DEF Tick, callVars
    <3>10. Looping(D, n)'
      BY <3>1, <3>3, <3>4, <3>5, <3>6, <3>7, <3>8, <3>9 DEF Looping
    <3>11. (waits <= MostPolls + 2)' /\ rc' # "timeout"
      BY <2>1 DEF DeadlinesInv, DeadlinesTypeOK, TimeInv, Tick, callVars, MostPolls, Cap
    <3> QED  BY <3>1, <3>10, <3>11, Continues
  <2>2. CASE step \notin {"stamp", "poll", "wait", "check"}
    BY <1>1, <1>2, <2>2, LeavesLoop DEF Tick, callVars
  <2> QED  BY <2>1, <2>2
<1>4. ConnInv'
  BY DEF DeadlinesInv, DeadlinesTypeOK, ConnInv, ConnectedMeansEstablished, Tick, callVars
<1> QED  BY <1>2, <1>3, <1>4 DEF DeadlinesInv

LEMMA PeerActsKeeps ==
  ASSUME DeadlinesInv, PeerActs
  PROVE  DeadlinesInv'
<1>1. DeadlinesTypeOK'
  BY DEF DeadlinesInv, DeadlinesTypeOK, PeerActs, callVars
<1>2. TimeInv'
  <2>1. UNCHANGED <<clock, step, deadline, now, until, rc, seconds, waits, fails, late>>
    BY DEF PeerActs, callVars
  <2> QED  BY <2>1 DEF DeadlinesInv, TimeInv, Looping, Waited, MostPolls, Cap
<1>3. ConnInv'
  <2>1. UNCHANGED <<step, op, rc>> /\ step # "idle" /\ rc = "none"
    BY DEF PeerActs, callVars, DeadlinesInv, DeadlinesTypeOK
  <2>2. step = "off" => fd' \in {"established", "reset"}
    BY DEF PeerActs, DeadlinesInv, ConnInv
  <2> QED  BY <2>1, <2>2 DEF DeadlinesInv, ConnInv, ConnectedMeansEstablished
<1> QED  BY <1>1, <1>2, <1>3 DEF DeadlinesInv

LEMMA AnotherKeeps ==
  ASSUME DeadlinesInv, Another
  PROVE  DeadlinesInv'
<1>1. DeadlinesTypeOK'
  BY DEF DeadlinesInv, DeadlinesTypeOK, Another
<1>2. TimeInv'
  BY <1>1, LeavesLoop DEF Another
<1>3. ConnInv'
  BY DEF DeadlinesInv, DeadlinesTypeOK, ConnInv, ConnectedMeansEstablished, Another
<1> QED  BY <1>1, <1>2, <1>3 DEF DeadlinesInv

\* A call fixes its deadline.
LEMMA Begins ==
  ASSUME DeadlinesInv, NEW s \in Timeouts, clock <= StartMax, SetDeadline(s), rc' = "none",
         clock' = clock
  PROVE  TimeInv' /\ seconds' \in Nat
<1>1. PICK c \in Nat : c = clock /\ c \in 0 .. StartMax
  BY Constants DEF DeadlinesInv, DeadlinesTypeOK
<1>2. PICK b \in Nat : b = s * TicksPerSec /\ s \in Nat  BY <1>1, DeadlineIs
<1>3. PICK D \in Nat : D = c + b  OBVIOUS
<1>4. D \in 0 .. MaxClock /\ D < MaxClock /\ c \in 0 .. MaxClock  BY <1>1, <1>2, <1>3, DeadlineIs
<1>5. /\ deadline' = TaiaNow(D) /\ now' = TaiaNow(c) /\ seconds' = s /\ waits' = 0
      /\ step' = "stamp" /\ clock' = c
  BY <1>1, <1>2, <1>3, DeadlineIs DEF SetDeadline
<1>6. PICK k \in Nat : k = Cap /\ k # 0  BY CapFacts
<1>7. PICK p \in Nat : p = b \div k  BY <1>6, Division
<1>8. MostPolls' = p  BY <1>2, <1>5, <1>6, <1>7 DEF MostPolls, Cap
<1>9. (seconds * TicksPerSec)' = b  BY <1>2, <1>5
<1>10. Waited(D, c)'
  <2>1. 0 * k = 0 /\ 0 <= c - (D - b) /\ 0 <= p  BY <1>3, <1>6
  <2>2. Cap' = k  BY <1>6 DEF Cap
  <2> QED  BY <1>5, <1>8, <1>9, <2>1, <2>2 DEF Waited
<1>11. Looping(D, c)'
  <2>1. b <= D /\ D - b <= c /\ c <= c  BY <1>3
  <2>2. Waited(D, clock)'  BY <1>5, <1>10 DEF Waited
  <2> QED  BY <1>4, <1>5, <1>9, <2>1, <2>2 DEF Looping
<1>12. (waits <= MostPolls + 2)'  BY <1>5, <1>7, <1>8
<1> QED  BY <1>2, <1>4, <1>5, <1>11, <1>12 DEF TimeInv

LEMMA CallIoKeeps ==
  ASSUME DeadlinesInv, NEW s \in Timeouts, NEW o \in {"read", "write"}, CallIo(o, s)
  PROVE  DeadlinesInv'
<1>1. TimeInv' /\ seconds' \in Nat  BY Begins DEF CallIo
<1>2. DeadlinesTypeOK'
  <2>1. late' \in BOOLEAN /\ nonblock' \in BOOLEAN
    BY Zenon DEF DeadlinesInv, DeadlinesTypeOK, CallIo, SetDeadline
  <2>2. /\ op' = o /\ step' = "stamp" /\ rc' = "none" /\ waits' = 0 /\ fails' = 0
        /\ UNCHANGED <<clock, until>>
    BY DEF CallIo, SetDeadline
  <2> QED  BY <1>1, <2>1, <2>2 DEF DeadlinesInv, DeadlinesTypeOK
<1>3. ConnInv'
  BY DEF DeadlinesInv, ConnInv, ConnectedMeansEstablished, CallIo, SetDeadline
<1> QED  BY <1>1, <1>2, <1>3 DEF DeadlinesInv

LEMMA CallConnKeeps ==
  ASSUME DeadlinesInv, NEW s \in Timeouts, CallConn(s)
  PROVE  DeadlinesInv'
<1>1. CASE nonblock /\ fd' = "quiet" /\ SetDeadline(s) /\ rc' = "none"
  <2>1. TimeInv' /\ seconds' \in Nat  BY <1>1, Begins DEF CallConn
  <2>2. UNCHANGED <<clock, nonblock, until>> /\ op' = "conn"  BY DEF CallConn
  <2>3. DeadlinesTypeOK'
    <3>1. late' \in BOOLEAN /\ nonblock' \in BOOLEAN
      BY <1>1, <2>2, Zenon DEF DeadlinesInv, DeadlinesTypeOK, SetDeadline
    <3>2. step' = "stamp" /\ waits' = 0 /\ fails' = 0  BY <1>1 DEF SetDeadline
    <3> QED  BY <1>1, <2>1, <2>2, <3>1, <3>2 DEF DeadlinesInv, DeadlinesTypeOK
  <2>4. ConnInv'
    BY <1>1 DEF ConnInv, ConnectedMeansEstablished, SetDeadline
  <2> QED  BY <2>1, <2>3, <2>4 DEF DeadlinesInv
<1>2. CASE /\ UNCHANGED <<deadline, now, seconds, waits, fails, late>>
           /\ \/ fd' = "established" /\ step' = "off" /\ rc' = "none"
              \/ fd' = "refused" /\ step' = "idle" /\ rc' = "failed"
              \/ fd' = "quiet" /\ step' = "connecting" /\ rc' = "none"
  <2>1. UNCHANGED <<clock, nonblock, until>> /\ op' = "conn"  BY DEF CallConn
  <2>2. DeadlinesTypeOK'  BY <1>2, <2>1 DEF DeadlinesInv, DeadlinesTypeOK
  <2>3. TimeInv'  BY <1>2, <2>1, <2>2, LeavesLoop
  <2>4. ConnInv'  BY <1>2, <2>1 DEF ConnInv, ConnectedMeansEstablished
  <2> QED  BY <2>2, <2>3, <2>4 DEF DeadlinesInv
<1> QED  BY <1>1, <1>2 DEF CallConn

LEMMA NothingKeeps ==
  ASSUME DeadlinesInv, UNCHANGED deadlineVars
  PROVE  DeadlinesInv'
BY DEF DeadlinesInv, DeadlinesTypeOK, TimeInv, Looping, Waited, MostPolls, Cap, ConnInv,
       ConnectedMeansEstablished, deadlineVars, callVars

LEMMA DeadlinesStart == DeadlinesInit => DeadlinesInv
<1> SUFFICES ASSUME DeadlinesInit PROVE DeadlinesInv  OBVIOUS
<1>1. DeadlinesTypeOK
  <2>1. late \in BOOLEAN /\ nonblock \in BOOLEAN  BY Zenon DEF DeadlinesInit
  <2>2. 0 \in 0 .. MaxClock  BY Constants
  <2> QED  BY <2>1, <2>2 DEF DeadlinesInit, DeadlinesTypeOK
<1>2. waits <= MostPolls + 2  BY CapFacts DEF DeadlinesInit
<1>3. TimeInv  BY <1>2 DEF DeadlinesInit, TimeInv
<1>4. ConnInv  BY DEF DeadlinesInit, ConnInv, ConnectedMeansEstablished
<1> QED  BY <1>1, <1>3, <1>4 DEF DeadlinesInv

\* What the invariant says of a call that has returned, and of the polls so far.
LEMMA InvIsTimely == DeadlinesInv => TimelyAndTrue
<1> SUFFICES ASSUME DeadlinesInv PROVE TimelyAndTrue  OBVIOUS
<1>1. TimeoutIsLate
  <2> SUFFICES ASSUME rc = "timeout"
               PROVE  TaiaLess(deadline, TaiaNow(clock)) /\ (late \/ fails > 0)
    BY DEF TimeoutIsLate
  <2>1. PICK D \in 0 .. MaxClock : deadline = TaiaNow(D) /\ D < clock
    BY DEF DeadlinesInv, TimeInv
  <2>2. clock \in 0 .. MaxClock  BY DEF DeadlinesInv, DeadlinesTypeOK
  <2>3. TaiaLess(deadline, TaiaNow(clock))  BY <2>1, <2>2, Order
  <2>4. late \/ fails > 0  BY DEF DeadlinesInv, TimeInv
  <2> QED  BY <2>3, <2>4
<1>2. FewPolls  BY DEF DeadlinesInv, TimeInv, MostPolls, Cap, FewPolls
<1>3. ConnectedMeansEstablished  BY DEF DeadlinesInv, ConnInv
<1> QED  BY <1>1, <1>2, <1>3 DEF TimelyAndTrue

\* What a call with a deadline returns is true, whatever the clock, the descriptor and the
\* polls do: a timeout is late and has been preceded by a look behind the deadline, the
\* call has made no more quiet polls than its timeout has room for, and what is handed back as
\* connected is connected and blocks (timeout.c:16-62, timeoutconn.c:15-103, iopause.c:19-60).
THEOREM CallsAreTimely == DeadlinesSpec => []TimelyAndTrue
<1>1. DeadlinesInit => DeadlinesInv  BY DeadlinesStart
<1>2. DeadlinesInv /\ [DeadlinesNext]_deadlineVars => DeadlinesInv'
  <2> SUFFICES ASSUME DeadlinesInv, [DeadlinesNext]_deadlineVars PROVE DeadlinesInv'  OBVIOUS
  <2>1. CASE Step
    BY <2>1, StampKeeps, PollKeeps, PollReadyKeeps, PollQuietKeeps, PollFailsKeeps, CheckKeeps,
       ReturnKeeps DEF Step
  <2>2. CASE Tick  BY <2>2, TickKeeps
  <2>3. CASE PeerActs  BY <2>3, PeerActsKeeps
  <2>4. CASE Another  BY <2>4, AnotherKeeps
  <2>5. CASE Call  BY <2>5, CallConnKeeps, CallIoKeeps DEF Call
  <2>7. CASE Interrupted  BY <2>7, ReturnKeeps
  <2>6. CASE UNCHANGED deadlineVars  BY <2>6, NothingKeeps
  <2> QED  BY <2>1, <2>2, <2>3, <2>4, <2>5, <2>6, <2>7 DEF DeadlinesNext
<1> QED  BY <1>1, <1>2, InvIsTimely, PTL DEF DeadlinesSpec

-----------------------------------------------------------------------------
(***************************************************************************)
(* Arithmetic of times                                                     *)
(***************************************************************************)
\* the sum and the difference of two times, wherever they are stored
Sum(x, y) ==
  LET nano == Plus(x.nano, y.nano)
      atto == Plus(x.atto, y.atto)
      carry1 == atto > Base - 1
      nano1 == IF carry1 THEN Plus(nano, 1) ELSE nano
      carry2 == nano1 > Base - 1
      sec == Plus(x.sec, y.sec)
  IN  [sec |-> IF carry2 THEN Plus(sec, 1) ELSE sec,
       nano |-> IF carry2 THEN nano1 - Base ELSE nano1,
       atto |-> IF carry1 THEN atto - Base ELSE atto]

Difference(x, y) ==
  LET sec == Minus(x.sec, y.sec)
      nano1 == Minus(x.nano, y.nano)
      atto == Minus(x.atto, y.atto)
      borrow1 == atto > x.atto
      nano == IF borrow1 THEN Minus(nano1, 1) ELSE nano1
      borrow2 == nano > x.nano
  IN  [sec |-> IF borrow2 THEN Minus(sec, 1) ELSE sec,
       nano |-> IF borrow2 THEN Plus(nano, Base) ELSE nano,
       atto |-> IF borrow1 THEN Plus(atto, Base) ELSE atto]

LEMMA CellsDoNotMatter ==
  ASSUME NEW x \in Taias, NEW y \in Taias, NEW t \in {"u", "v", "t"}
  PROVE  /\ TaiaAdd([u |-> x, v |-> y, t |-> y], t, "u", "v")[t] = Sum(x, y)
         /\ TaiaSub([u |-> x, v |-> y, t |-> y], t, "u", "v")[t] = Difference(x, y)
<1> DEFINE m == [u |-> x, v |-> y, t |-> y]
           R == [sec : Int, nano : Int, atto : Int]
           m1 == [m EXCEPT ![t].sec = Minus(m["u"].sec, m["v"].sec)]
           m2 == [m1 EXCEPT ![t].nano = Minus(m["u"].nano, m1["v"].nano)]
           m3 == [m2 EXCEPT ![t].atto = Minus(m["u"].atto, m2["v"].atto)]
<1>1. m["u"] = x /\ m["v"] = y /\ t \in DOMAIN m /\ DOMAIN m = {"u", "v", "t"}  OBVIOUS
<1>2. TaiaAdd(m, t, "u", "v")[t] = Sum(x, y)
  <2> HIDE DEF m
  <2> QED  BY <1>1 DEF TaiaAdd, Sum
<1>3. TaiaSub(m, t, "u", "v")[t] = Difference(x, y)
  <2>1. x = [sec |-> x.sec, nano |-> x.nano, atto |-> x.atto] /\ y = [sec |-> y.sec, nano |-> y.nano, atto |-> y.atto]
    BY DEF Taias
  <2>2. m1["v"].nano = y.nano /\ m1["v"].atto = y.atto /\ DOMAIN m1 = DOMAIN m /\ DOMAIN m1[t] = {"sec", "nano", "atto"}
        /\ m1[t].sec = Minus(x.sec, y.sec)
    BY <1>1, <2>1 DEF m1
  <2>3. m2["v"].atto = y.atto /\ DOMAIN m2 = DOMAIN m /\ DOMAIN m2[t] = {"sec", "nano", "atto"}
        /\ m2[t].sec = Minus(x.sec, y.sec) /\ m2[t].nano = Minus(x.nano, y.nano)
    <3> HIDE DEF m1, m
    <3> QED  BY <1>1, <2>2 DEF m2
  <2>4. DOMAIN m3 = DOMAIN m
        /\ m3[t].sec = Minus(x.sec, y.sec) /\ m3[t].nano = Minus(x.nano, y.nano) /\ m3[t].atto = Minus(x.atto, y.atto)
    <3> HIDE DEF m2, m1, m
    <3> QED  BY <1>1, <2>3 DEF m3
  <2> DEFINE borrow1 == m3[t].atto > m["u"].atto
             nano == IF borrow1 THEN Minus(m3[t].nano, 1) ELSE m3[t].nano
             borrow2 == nano > m["u"].nano
             new == [sec |-> IF borrow2 THEN Minus(m3[t].sec, 1) ELSE m3[t].sec,
                     nano |-> IF borrow2 THEN Plus(nano, Base) ELSE nano,
                     atto |-> IF borrow1 THEN Plus(m3[t].atto, Base) ELSE m3[t].atto]
  <2>5. TaiaSub(m, t, "u", "v") = [m3 EXCEPT ![t] = new]
    <3> HIDE DEF m
    <3> QED  BY DEF TaiaSub, m1, m2, m3
  <2>6. new = Difference(x, y)  
    <3> HIDE DEF m3, m
    <3> QED  BY <1>1, <2>4 DEF Difference
  <2> HIDE DEF m3, new
  <2> QED  BY <1>1, <2>4, <2>5, <2>6
<1> QED  BY <1>2, <1>3

LEMMA RestIs ==
  ASSUME NEW w \in Nat \ {0}
  PROVE  /\ \A a, q \in Int, r \in 0 .. w - 1 : a = w * q + r => a % w = r
         /\ \A a \in Int : 0 <= a /\ a < w => a % w = a
         /\ \A a \in Int : -w <= a /\ a < 0 => a % w = a + w
         /\ \A a \in Int : w <= a /\ a < 2 * w => a % w = a - w
<1>1. \A a \in Int : a % w \in 0 .. w - 1 /\ a = w * (a \div w) + (a % w)  OBVIOUS
<1>2. \A a, q \in Int, r \in 0 .. w - 1 : a = w * q + r => a % w = r
  <2> SUFFICES ASSUME NEW a \in Int, NEW q \in Int, NEW r \in 0 .. w - 1, a = w * q + r PROVE a % w = r  OBVIOUS
  <2> DEFINE p == a \div w
             z == a % w
  <2>1. p \in Int /\ z \in 0 .. w - 1 /\ a = w * p + z
    <3>1. p \in Int  OBVIOUS
    <3>2. z \in 0 .. w - 1 /\ a = w * p + z  BY <1>1
    <3> QED  BY <3>1, <3>2
  <2> HIDE DEF p, z
  <2>2. w * (q - p) = z - r  BY <2>1
  <2>3. CASE p < q
    <3>1. w * p + w <= w * q  BY <2>1, <2>3, Apart
    <3> QED  BY <2>1, <2>2, <3>1
  <2>4. CASE q < p
    <3>1. w * q + w <= w * p  BY <2>1, <2>4, Apart
    <3> QED  BY <2>1, <2>2, <3>1
  <2>5. CASE p = q  BY <2>1, <2>2, <2>5
  <2>6. z = r  BY <2>1, <2>3, <2>4, <2>5
  <2> QED  BY <2>6 DEF z
<1>3. ASSUME NEW a \in Int, 0 <= a, a < w PROVE a % w = a
  <2>1. a = w * 0 + a /\ a \in 0 .. w - 1  BY <1>3
  <2> QED  BY <1>2, <2>1
<1>4. ASSUME NEW a \in Int, -w <= a, a < 0 PROVE a % w = a + w
  <2>1. a = w * (-1) + (a + w) /\ a + w \in 0 .. w - 1 /\ -1 \in Int  BY <1>4
  <2> QED  BY <1>2, <2>1
<1>5. ASSUME NEW a \in Int, w <= a, a < 2 * w PROVE a % w = a - w
  <2>1. a = w * 1 + (a - w) /\ a - w \in 0 .. w - 1  BY <1>5
  <2> QED  BY <1>2, <2>1
<1> QED  BY <1>2, <1>3, <1>4, <1>5

\* Sums and differences in a word.
LEMMA WordIs ==
  ASSUME ULong \in Nat \ {0}, NEW a \in Int, NEW b \in Int
  PROVE  /\ 0 <= a + b /\ a + b < ULong => Plus(a, b) = a + b
         /\ ULong <= a + b /\ a + b < 2 * ULong => Plus(a, b) = a + b - ULong
         /\ 0 <= a - b /\ a - b < ULong => Minus(a, b) = a - b
         /\ -ULong <= a - b /\ a - b < 0 => Minus(a, b) = a - b + ULong
<1>1. PICK s \in Int : s = a + b  OBVIOUS
<1>2. PICK d \in Int : d = a - b  OBVIOUS
<1>3. Plus(a, b) = s % ULong /\ Minus(a, b) = d % ULong  BY <1>1, <1>2 DEF Plus, Minus
<1>4. (0 <= s /\ s < ULong => s % ULong = s) /\ (ULong <= s /\ s < 2 * ULong => s % ULong = s - ULong)  BY RestIs
<1>5. (0 <= d /\ d < ULong => d % ULong = d) /\ (-ULong <= d /\ d < 0 => d % ULong = d + ULong)  BY RestIs
<1> QED  BY <1>1, <1>2, <1>3, <1>4, <1>5

\* z is what is left of n parts of a second or less with a carry out of it
Carried(n, z, c, w) == n = z + c * w /\ z \in 0 .. w - 1

\* The carries of a sum.
LEMMA SumCarries ==
  ASSUME NEW x \in Taias, NEW y \in Taias
  PROVE  \E c, d, e \in {0, 1} :
           /\ Carried(x.atto + y.atto, Sum(x, y).atto, c, Base)
           /\ Carried(x.nano + y.nano + c, Sum(x, y).nano, d, Base)
           /\ Carried(x.sec + y.sec + d, Sum(x, y).sec, e, ULong)
<1>1. /\ ULong \in Nat \ {0} /\ Base \in Nat \ {0} /\ 2 * Base <= ULong  BY TaiaAssumption
<1>2. /\ x.sec \in 0 .. ULong - 1 /\ x.nano \in 0 .. Base - 1 /\ x.atto \in 0 .. Base - 1
      /\ y.sec \in 0 .. ULong - 1 /\ y.nano \in 0 .. Base - 1 /\ y.atto \in 0 .. Base - 1
  BY DEF Taias
<1> DEFINE z == Sum(x, y)
           atto == x.atto + y.atto
           nano == x.nano + y.nano
<1>3. \A a, b \in Nat : a + b < ULong => Plus(a, b) = a + b  BY <1>1, WordIs
<1>4. Plus(x.atto, y.atto) = atto /\ Plus(x.nano, y.nano) = nano /\ atto \in Nat /\ nano \in Nat
      /\ atto <= 2 * Base - 2 /\ nano <= 2 * Base - 2 /\ Plus(nano, 1) = nano + 1
  BY <1>1, <1>2, <1>3
<1>5. PICK c \in {0, 1} : c = IF atto > Base - 1 THEN 1 ELSE 0  OBVIOUS
<1>6. PICK d \in {0, 1} : d = IF nano + c > Base - 1 THEN 1 ELSE 0  OBVIOUS
<1> HIDE DEF atto, nano
<1>7. /\ z.atto = IF c = 1 THEN atto - Base ELSE atto
      /\ z.nano = IF d = 1 THEN nano + c - Base ELSE nano + c
      /\ z.sec = IF d = 1 THEN Plus(Plus(x.sec, y.sec), 1) ELSE Plus(x.sec, y.sec)
  BY <1>1, <1>4, <1>5, <1>6 DEF Sum
<1> HIDE DEF z
<1>8. Carried(atto, z.atto, c, Base) /\ Carried(nano + c, z.nano, d, Base)
  BY <1>1, <1>4, <1>5, <1>6, <1>7 DEF Carried
<1>9. \E e \in {0, 1} : Carried(x.sec + y.sec + d, z.sec, e, ULong)
  <2> DEFINE s == x.sec + y.sec
  <2>1. s \in Nat /\ s <= 2 * ULong - 2  BY <1>1, <1>2
  <2>2. Plus(x.sec, y.sec) = IF s >= ULong THEN s - ULong ELSE s  BY <1>1, <1>2, <2>1, WordIs
  <2> HIDE DEF s
  <2>3. PICK r \in 0 .. ULong - 1 : r = Plus(x.sec, y.sec) /\ r = IF s >= ULong THEN s - ULong ELSE s
    BY <1>1, <2>1, <2>2
  <2>4. Plus(r, 1) = IF r + 1 = ULong THEN 0 ELSE r + 1
    <3>1. r \in Int /\ 1 \in Int /\ 0 <= r + 1 /\ r + 1 < 2 * ULong /\ (r + 1 = ULong \/ r + 1 < ULong)  BY <1>1, <2>3
    <3>2. r + 1 < ULong => Plus(r, 1) = r + 1  BY <1>1, <3>1, WordIs
    <3>3. ULong <= r + 1 => Plus(r, 1) = r + 1 - ULong  BY <1>1, <3>1, WordIs
    <3> QED  BY <1>1, <3>1, <3>2, <3>3
  <2> DEFINE e == IF s + d >= ULong THEN 1 ELSE 0
  <2>5. Carried(s + d, z.sec, e, ULong)  BY <1>1, <1>7, <2>1, <2>3, <2>4 DEF Carried
  <2> QED  BY <2>5 DEF s
<1> QED  BY <1>8, <1>9 DEF z, atto, nano

\* The borrows of a difference.
LEMMA DifferenceBorrows ==
  ASSUME NEW x \in Taias, NEW y \in Taias
  PROVE  \E c, d, e \in {0, 1} :
           /\ Carried(x.atto - y.atto, Difference(x, y).atto, -c, Base)
           /\ Carried(x.nano - y.nano - c, Difference(x, y).nano, -d, Base)
           /\ Carried(x.sec - y.sec - d, Difference(x, y).sec, -e, ULong)
<1>1. /\ ULong \in Nat \ {0} /\ Base \in Nat \ {0} /\ 2 * Base <= ULong  BY TaiaAssumption
<1>2. /\ x.sec \in 0 .. ULong - 1 /\ x.nano \in 0 .. Base - 1 /\ x.atto \in 0 .. Base - 1
      /\ y.sec \in 0 .. ULong - 1 /\ y.nano \in 0 .. Base - 1 /\ y.atto \in 0 .. Base - 1
  BY DEF Taias
<1> DEFINE z == Difference(x, y)
           atto == x.atto - y.atto
           nano == x.nano - y.nano
           sec == x.sec - y.sec
<1>3. \A a \in 0 .. ULong - 1, b \in 0 .. ULong - 1 : Minus(a, b) = IF a < b THEN a - b + ULong ELSE a - b
  BY <1>1, WordIs
<1>4. \A a \in 0 .. ULong - 1, b \in 0 .. ULong - 1 : Plus(a, b) = IF a + b >= ULong THEN a + b - ULong ELSE a + b
  BY <1>1, WordIs
<1>5. /\ atto \in Int /\ nano \in Int /\ sec \in Int
      /\ -Base < atto /\ atto < Base /\ -Base < nano /\ nano < Base /\ -ULong < sec /\ sec < ULong
      /\ Minus(x.atto, y.atto) = (IF atto < 0 THEN atto + ULong ELSE atto)
      /\ Minus(x.nano, y.nano) = (IF nano < 0 THEN nano + ULong ELSE nano)
      /\ Minus(x.sec, y.sec) = (IF sec < 0 THEN sec + ULong ELSE sec)
      /\ atto <= x.atto /\ x.atto < atto + Base /\ nano <= x.nano /\ x.nano < nano + Base
  <2>1. \A a \in 0 .. Base - 1 : a \in 0 .. ULong - 1  BY <1>1
  <2>2. Minus(x.atto, y.atto) = (IF x.atto < y.atto THEN atto + ULong ELSE atto)  BY <1>2, <1>3, <2>1
  <2>3. Minus(x.nano, y.nano) = (IF x.nano < y.nano THEN nano + ULong ELSE nano)  BY <1>2, <1>3, <2>1
  <2>4. Minus(x.sec, y.sec) = (IF x.sec < y.sec THEN sec + ULong ELSE sec)  BY <1>2, <1>3
  <2>5. /\ atto \in Int /\ -Base < atto /\ atto < Base /\ atto <= x.atto /\ x.atto < atto + Base
        /\ (x.atto < y.atto <=> atto < 0)
    BY <1>1, <1>2
  <2>6. /\ nano \in Int /\ -Base < nano /\ nano < Base /\ nano <= x.nano /\ x.nano < nano + Base
        /\ (x.nano < y.nano <=> nano < 0)
    BY <1>1, <1>2
  <2>7. sec \in Int /\ -ULong < sec /\ sec < ULong /\ (x.sec < y.sec <=> sec < 0)  BY <1>1, <1>2
  <2> HIDE DEF atto, nano, sec
  <2> QED  BY <2>2, <2>3, <2>4, <2>5, <2>6, <2>7
<1> HIDE DEF atto, nano, sec
<1>6. PICK c \in {0, 1} : c = IF atto < 0 THEN 1 ELSE 0  OBVIOUS
<1>7. PICK d \in {0, 1} : d = IF nano - c < 0 THEN 1 ELSE 0  OBVIOUS
<1>8. PICK e \in {0, 1} : e = IF sec - d < 0 THEN 1 ELSE 0  OBVIOUS
<1>9. PICK a1 \in 0 .. ULong - 1 : a1 = Minus(x.atto, y.atto) /\ a1 = IF atto < 0 THEN atto + ULong ELSE atto
  BY <1>1, <1>2, <1>5
<1>10. PICK n1 \in 0 .. ULong - 1 : n1 = Minus(x.nano, y.nano) /\ n1 = IF nano < 0 THEN nano + ULong ELSE nano
  BY <1>1, <1>2, <1>5
<1>11. PICK s1 \in 0 .. ULong - 1 : s1 = Minus(x.sec, y.sec) /\ s1 = IF sec < 0 THEN sec + ULong ELSE sec
  BY <1>1, <1>2, <1>5
<1>12. (a1 > x.atto <=> c = 1) /\ z.atto = IF c = 1 THEN Plus(a1, Base) ELSE a1
  <2>1. a1 > x.atto <=> c = 1  BY <1>1, <1>2, <1>5, <1>6, <1>9
  <2> QED  BY <1>9, <2>1 DEF Difference
<1>13. Carried(atto, z.atto, -c, Base)
  <2>1. c = 1 => Plus(a1, Base) = atto + Base  BY <1>1, <1>4, <1>5, <1>6, <1>9
  <2> QED  BY <1>1, <1>5, <1>6, <1>9, <1>12, <2>1 DEF Carried
<1>14. PICK n2 \in 0 .. ULong - 1 : n2 = (IF c = 1 THEN Minus(n1, 1) ELSE n1) /\ n2 = IF d = 1 THEN nano - c + ULong ELSE nano - c
  <2>1. 1 \in 0 .. ULong - 1  BY <1>1
  <2>2. Minus(n1, 1) = IF n1 < 1 THEN n1 - 1 + ULong ELSE n1 - 1  BY <1>3, <2>1
  <2>3. c = 1 => Minus(n1, 1) = IF nano - 1 < 0 THEN nano - 1 + ULong ELSE nano - 1  BY <1>1, <1>5, <1>10, <2>2
  <2> QED  BY <1>1, <1>5, <1>7, <1>10, <2>3
<1>15. (n2 > x.nano <=> d = 1) /\ z.nano = (IF d = 1 THEN Plus(n2, Base) ELSE n2)
       /\ z.sec = IF d = 1 THEN Minus(s1, 1) ELSE s1
  <2>1. n2 > x.nano <=> d = 1  BY <1>1, <1>2, <1>5, <1>7, <1>14
  <2> QED  BY <1>9, <1>10, <1>11, <1>12, <1>14, <2>1 DEF Difference
<1>16. Carried(nano - c, z.nano, -d, Base)
  <2>1. Base \in 0 .. ULong - 1  BY <1>1
  <2>2. Plus(n2, Base) = IF n2 + Base >= ULong THEN n2 + Base - ULong ELSE n2 + Base  BY <1>4, <2>1
  <2>3. d = 1 => Plus(n2, Base) = nano - c + Base  BY <1>1, <1>5, <1>14, <2>2
  <2> QED  BY <1>1, <1>5, <1>7, <1>14, <1>15, <2>3 DEF Carried
<1>17. Carried(sec - d, z.sec, -e, ULong)
  <2>1. 1 \in 0 .. ULong - 1  BY <1>1
  <2>2. Minus(s1, 1) = IF s1 < 1 THEN s1 - 1 + ULong ELSE s1 - 1  BY <1>3, <2>1
  <2> QED  BY <1>1, <1>5, <1>8, <1>11, <1>15, <2>2 DEF Carried
<1> QED  BY <1>13, <1>16, <1>17 DEF z, atto, nano, sec

\* What the parts of a number in base w, with a carry from each, say of the number.
LEMMA ValueIs ==
  ASSUME NEW n \in Taias, NEW a \in Int, NEW b \in Int, NEW s \in Int,
         NEW c \in Int, NEW d \in Int, NEW e \in Int,
         a = n.atto + c * Base, b + c = n.nano + d * Base, s + d = n.sec + e * ULong
  PROVE  (s * Base + b) * Base + a = TaiaApprox(n) + e * (ULong * (Base * Base))
<1>1. ULong \in Nat /\ Base \in Nat /\ n.atto \in Int /\ n.nano \in Int /\ n.sec \in Int
  BY TaiaAssumption DEF Taias
<1>2. b = n.nano + d * Base - c /\ s = n.sec + e * ULong - d  BY <1>1
<1>3. s * Base + b = n.sec * Base + n.nano + e * (ULong * Base) - c
  BY <1>1, <1>2
<1> DEFINE p == n.sec * Base + n.nano
           q == ULong * Base
<1>4. p \in Int /\ q \in Int  BY <1>1
<1>5. q * Base = ULong * (Base * Base) /\ p * Base + n.atto = TaiaApprox(n)  BY <1>1 DEF TaiaApprox
<1>6. s * Base + b = p + e * q - c  BY <1>3
<1> HIDE DEF p, q
<1>7. (s * Base + b) * Base = p * Base + e * (q * Base) - c * Base  BY <1>1, <1>4, <1>6
<1>8. e * (ULong * (Base * Base)) = e * (q * Base)  BY <1>5
<1>9. PICK u \in Int : u = e * (q * Base)  BY <1>1, <1>4
<1>10. PICK w \in Int : w = c * Base  BY <1>1
<1>11. PICK r \in Int : r = p * Base  BY <1>1, <1>4
<1> QED  BY <1>1, <1>5, <1>7, <1>8, <1>9, <1>10, <1>11

\* Numbers of two digits are in the order of their digits.
InOrder(w, a, b, c, d) ==
  /\ a * w + b < c * w + d <=> a < c \/ (a = c /\ b < d)
  /\ a * w + b = c * w + d <=> a = c /\ b = d

LEMMA DigitOrder ==
  ASSUME NEW w \in Nat \ {0}, NEW a \in Int, NEW b \in 0 .. w - 1, NEW c \in Int, NEW d \in 0 .. w - 1
  PROVE  InOrder(w, a, b, c, d)
<1>1. PICK x \in Int, y \in Int : x = a * w /\ y = c * w  OBVIOUS
<1>2. a < c => x + w <= y
  <2>1. a < c => w * a + w <= w * c  BY Apart
  <2> QED  BY <1>1, <2>1
<1>3. c < a => y + w <= x
  <2>1. c < a => w * c + w <= w * a  BY Apart
  <2> QED  BY <1>1, <2>1
<1>4. a = c => x = y  BY <1>1
<1> QED  BY <1>1, <1>2, <1>3, <1>4 DEF InOrder

All == ULong * (Base * Base)

\* The number a time stands for has room in the parts.
LEMMA ValueFits ==
  ASSUME NEW n \in Taias
  PROVE  /\ TaiaApprox(n) \in 0 .. All - 1
         /\ All \in Nat \ {0}
<1>1. ULong \in Nat \ {0} /\ Base \in Nat \ {0} /\ n.sec \in 0 .. ULong - 1 /\ n.nano \in 0 .. Base - 1 /\ n.atto \in 0 .. Base - 1
  BY TaiaAssumption DEF Taias
<1>2. PICK p \in Nat : p = n.sec * Base + n.nano
  <2>1. n.sec * Base \in Nat  BY <1>1
  <2> QED  BY <1>1, <2>1
<1>3. PICK q \in Nat \ {0} : q = ULong * Base  BY <1>1
<1>4. p < q
  <2>1. n.sec \in Int /\ 0 \in 0 .. Base - 1 /\ ULong \in Int /\ n.sec < ULong  BY <1>1
  <2>2. n.sec * Base + n.nano < ULong * Base + 0  BY <1>1, <2>1, DigitOrder DEF InOrder
  <2> QED  BY <1>2, <1>3, <2>2
<1>5. PICK r \in Nat \ {0} : r = q * Base  BY <1>1
<1>6. p * Base + n.atto < r
  <2>1. 0 \in 0 .. Base - 1 /\ p \in Int /\ q \in Int  BY <1>1
  <2>2. p * Base + n.atto < q * Base + 0  BY <1>1, <1>4, <2>1, DigitOrder DEF InOrder
  <2> QED  BY <1>5, <2>2
<1>7. p * Base + n.atto \in Nat
  <2>1. p * Base \in Nat  BY <1>1
  <2> QED  BY <1>1, <2>1
<1>8. All = r  BY <1>1, <1>3, <1>5 DEF All
<1> QED  BY <1>2, <1>5, <1>6, <1>7, <1>8 DEF TaiaApprox

\* Times are in the order of their numbers.
LEMMA LessIs ==
  ASSUME NEW x \in Taias, NEW y \in Taias
  PROVE  TaiaLess(x, y) <=> TaiaApprox(x) < TaiaApprox(y)
<1>1. Base \in Nat \ {0} /\ x.sec \in Int /\ y.sec \in Int /\ x.nano \in 0 .. Base - 1 /\ y.nano \in 0 .. Base - 1
      /\ x.atto \in 0 .. Base - 1 /\ y.atto \in 0 .. Base - 1
  BY TaiaAssumption DEF Taias
<1>2. PICK p \in Int : p = x.sec * Base + x.nano  BY <1>1
<1>3. PICK q \in Int : q = y.sec * Base + y.nano  BY <1>1
<1>4. (p < q <=> x.sec < y.sec \/ (x.sec = y.sec /\ x.nano < y.nano)) /\ (p = q <=> x.sec = y.sec /\ x.nano = y.nano)
  <2>1. InOrder(Base, x.sec, x.nano, y.sec, y.nano)  BY <1>1, DigitOrder
  <2> QED  BY <1>2, <1>3, <2>1 DEF InOrder
<1>5. p * Base + x.atto < q * Base + y.atto <=> p < q \/ (p = q /\ x.atto < y.atto)
  <2>1. InOrder(Base, p, x.atto, q, y.atto)  BY <1>1, DigitOrder
  <2> QED  BY <2>1 DEF InOrder
<1> QED  BY <1>2, <1>3, <1>4, <1>5 DEF TaiaLess, TaiaApprox

LEMMA SumIs ==
  ASSUME NEW x \in Taias, NEW y \in Taias
  PROVE  Sum(x, y) \in Taias /\ TaiaApprox(Sum(x, y)) = (TaiaApprox(x) + TaiaApprox(y)) % All
<1> DEFINE z == Sum(x, y)
<1>1. PICK c, d, e \in {0, 1} :
        /\ Carried(x.atto + y.atto, z.atto, c, Base)
        /\ Carried(x.nano + y.nano + c, z.nano, d, Base)
        /\ Carried(x.sec + y.sec + d, z.sec, e, ULong)
  BY SumCarries
<1>2. z = [sec |-> z.sec, nano |-> z.nano, atto |-> z.atto]  BY DEF Sum
<1> HIDE DEF z
<1>3. z \in Taias  BY <1>1, <1>2 DEF Taias, Carried
<1>4. Base \in Nat \ {0} /\ ULong \in Nat \ {0} /\ x.sec \in Int /\ y.sec \in Int /\ x.nano \in Int /\ y.nano \in Int
      /\ x.atto \in Int /\ y.atto \in Int
  BY TaiaAssumption DEF Taias
<1>5. PICK s \in Int, b \in Int, a \in Int : s = x.sec + y.sec /\ b = x.nano + y.nano /\ a = x.atto + y.atto  BY <1>4
<1>6. (s * Base + b) * Base + a = TaiaApprox(z) + e * (ULong * (Base * Base))
  <2>1. a = z.atto + c * Base /\ b + c = z.nano + d * Base /\ s + d = z.sec + e * ULong  BY <1>1, <1>5 DEF Carried
  <2>2. c \in Int /\ d \in Int /\ e \in Int  OBVIOUS
  <2> QED  BY <1>3, <2>1, <2>2, ValueIs
<1>7. TaiaApprox(x) + TaiaApprox(y) = (s * Base + b) * Base + a
  <2>1. PICK p \in Int, q \in Int : p = x.sec * Base + x.nano /\ q = y.sec * Base + y.nano  BY <1>4
  <2>2. s * Base + b = p + q
    <3>1. s * Base = x.sec * Base + y.sec * Base  BY <1>4, <1>5
    <3>2. PICK g \in Int, h \in Int : g = x.sec * Base /\ h = y.sec * Base  BY <1>4
    <3> QED  BY <1>4, <1>5, <2>1, <3>1, <3>2
  <2>3. (p + q) * Base = p * Base + q * Base  BY <1>4
  <2>4. p * Base \in Int /\ q * Base \in Int  BY <1>4
  <2> QED  BY <1>4, <1>5, <2>1, <2>2, <2>3, <2>4 DEF TaiaApprox
<1>8. TaiaApprox(z) \in 0 .. All - 1 /\ All \in Nat \ {0}  BY <1>3, ValueFits
<1>9. TaiaApprox(x) + TaiaApprox(y) = All * e + TaiaApprox(z)
  <2>1. e * (ULong * (Base * Base)) = All * e  BY <1>4 DEF All
  <2>2. All * e \in Int  BY <1>8
  <2> QED  BY <1>6, <1>7, <1>8, <2>1, <2>2
<1>10. (TaiaApprox(x) + TaiaApprox(y)) % All = TaiaApprox(z)
  <2>1. PICK v \in Int : v = TaiaApprox(x) + TaiaApprox(y)  BY ValueFits
  <2>2. PICK r \in 0 .. All - 1 : r = TaiaApprox(z)  BY <1>8
  <2>3. v % All = r
    <3>1. v = All * e + r  BY <1>9, <2>1, <2>2
    <3>2. e \in Int  OBVIOUS
    <3> QED  BY <1>8, <3>1, <3>2, RestIs
  <2> QED  BY <2>1, <2>2, <2>3
<1> QED  BY <1>3, <1>10 DEF z

LEMMA DifferenceIs ==
  ASSUME NEW x \in Taias, NEW y \in Taias
  PROVE  Difference(x, y) \in Taias /\ TaiaApprox(Difference(x, y)) = (TaiaApprox(x) - TaiaApprox(y)) % All
<1> DEFINE z == Difference(x, y)
<1>1. PICK c, d, e \in {0, 1} :
        /\ Carried(x.atto - y.atto, z.atto, -c, Base)
        /\ Carried(x.nano - y.nano - c, z.nano, -d, Base)
        /\ Carried(x.sec - y.sec - d, z.sec, -e, ULong)
  BY DifferenceBorrows
<1>2. z = [sec |-> z.sec, nano |-> z.nano, atto |-> z.atto]  BY DEF Difference
<1> HIDE DEF z
<1>3. z \in Taias  BY <1>1, <1>2 DEF Taias, Carried
<1>4. Base \in Nat \ {0} /\ ULong \in Nat \ {0} /\ x.sec \in Int /\ y.sec \in Int /\ x.nano \in Int /\ y.nano \in Int
      /\ x.atto \in Int /\ y.atto \in Int
  BY TaiaAssumption DEF Taias
<1>5. PICK s \in Int, b \in Int, a \in Int : s = x.sec - y.sec /\ b = x.nano - y.nano /\ a = x.atto - y.atto  BY <1>4
<1>10. PICK i \in Int, j \in Int, k \in Int : i = -c /\ j = -d /\ k = -e  OBVIOUS
<1>6. (s * Base + b) * Base + a = TaiaApprox(z) + k * (ULong * (Base * Base))
  <2>1. a = z.atto + i * Base /\ b + i = z.nano + j * Base /\ s + j = z.sec + k * ULong
    BY <1>1, <1>4, <1>5, <1>10 DEF Carried
  <2> QED  BY <1>3, <2>1, ValueIs
<1>7. TaiaApprox(x) - TaiaApprox(y) = (s * Base + b) * Base + a
  <2>1. PICK p \in Int, q \in Int : p = x.sec * Base + x.nano /\ q = y.sec * Base + y.nano  BY <1>4
  <2>2. s * Base + b = p - q
    <3>1. s * Base = x.sec * Base - y.sec * Base  BY <1>4, <1>5
    <3>2. PICK g \in Int, h \in Int : g = x.sec * Base /\ h = y.sec * Base  BY <1>4
    <3> QED  BY <1>4, <1>5, <2>1, <3>1, <3>2
  <2>3. (p - q) * Base = p * Base - q * Base  BY <1>4
  <2>4. p * Base \in Int /\ q * Base \in Int  BY <1>4
  <2> QED  BY <1>4, <1>5, <2>1, <2>2, <2>3, <2>4 DEF TaiaApprox
<1>8. TaiaApprox(z) \in 0 .. All - 1 /\ All \in Nat \ {0}  BY <1>3, ValueFits
<1>9. TaiaApprox(x) - TaiaApprox(y) = All * k + TaiaApprox(z)
  <2>1. k * (ULong * (Base * Base)) = All * k  BY <1>4 DEF All
  <2>2. All * k \in Int  BY <1>8
  <2> QED  BY <1>6, <1>7, <1>8, <2>1, <2>2
<1>11. (TaiaApprox(x) - TaiaApprox(y)) % All = TaiaApprox(z)
  <2>1. PICK v \in Int : v = TaiaApprox(x) - TaiaApprox(y)  BY ValueFits
  <2>2. PICK r \in 0 .. All - 1 : r = TaiaApprox(z)  BY <1>8
  <2>3. v % All = r
    <3>1. v = All * k + r  BY <1>9, <2>1, <2>2
    <3>2. k \in Int  OBVIOUS
    <3> QED  BY <1>8, <3>1, <3>2, RestIs
  <2> QED  BY <2>1, <2>2, <2>3
<1> QED  BY <1>3, <1>11 DEF z

LEMMA HeldAreNumbers ==
  ASSUME held \subseteq Taias
  PROVE  TimesAreNumbers
<1> SUFFICES ASSUME NEW x \in Taias, NEW y \in Taias, NEW t \in {"u", "v", "t"}
             PROVE  LET m == [u |-> x, v |-> y, t |-> y]
                        sum == TaiaAdd(m, t, "u", "v")[t]
                        difference == TaiaSub(m, t, "u", "v")[t]
                    IN  /\ sum \in Taias /\ TaiaApprox(sum) = (TaiaApprox(x) + TaiaApprox(y)) % All
                        /\ difference \in Taias /\ TaiaApprox(difference) = (TaiaApprox(x) - TaiaApprox(y)) % All
                        /\ TaiaLess(x, y) <=> TaiaApprox(x) < TaiaApprox(y)
  BY ZenonT(60) DEF TimesAreNumbers, All
<1> QED  BY CellsDoNotMatter, SumIs, DifferenceIs, LessIs

-----------------------------------------------------------------------------
(***************************************************************************)
(* Packed times                                                            *)
(***************************************************************************)
\* a number with its bytes shifted out
Shifts(a, u, n) ==
  /\ a \in [0 .. n -> Nat] /\ a[0] = u
  /\ \A k \in 1 .. n : a[k] = a[k - 1] \div Byte
  /\ \A k \in 0 .. n : P!Above(u, k) = a[k]

LEMMA AboveIs ==
  ASSUME NEW u \in Nat, NEW n \in Nat
  PROVE  \E a : Shifts(a, u, n)
<1> DEFINE turn == [x \in Nat \X (1 .. n) |-> x[1] \div Byte]
           loop(f, m) == f = [k \in 0 .. m |-> IF k = 0 THEN u ELSE f[k - 1] \div Byte]
           v(m) == CHOOSE f : loop(f, m)
<1>1. Byte \in Nat \ {0}  BY TaiaAssumption
<1>2. turn \in [Nat \X (1 .. n) -> Nat]
  <2>1. \A x \in Nat \X (1 .. n) : x[1] \in Nat  OBVIOUS
  <2>2. \A y \in Nat : y \div Byte \in Nat  BY <1>1
  <2> QED  BY <2>1, <2>2
<1>3. PICK g : Turns(g, n, u, turn, Nat)
  <2> HIDE DEF turn
  <2> QED  BY <1>2, TurnsExist
<1>4. g \in [0 .. n -> Nat] /\ g[0] = u /\ \A k \in 1 .. n : g[k] = turn[<<g[k - 1], k>>]  BY <1>3 DEF Turns
<1>5. \A k \in 1 .. n : g[k] = g[k - 1] \div Byte
  <2> SUFFICES ASSUME NEW k \in 1 .. n PROVE g[k] = g[k - 1] \div Byte  OBVIOUS
  <2>1. g[k - 1] \in Nat
    <3>1. k - 1 \in 0 .. n  OBVIOUS
    <3> QED  BY <1>4, <3>1
  <2>2. <<g[k - 1], k>> \in Nat \X (1 .. n)  BY <2>1
  <2> QED  BY <1>4, <2>2
<1> HIDE DEF turn
<1>6. ASSUME NEW m \in 0 .. n PROVE P!Above(u, m) = g[m]
  <2>1. P!Above(u, m) = v(m)[m]  BY DEF P!Above
  <2> DEFINE h == [k \in 0 .. m |-> g[k]]
  <2>2. loop(h, m)
    <3>1. \A k \in 0 .. m : k \in 0 .. n /\ (k # 0 => k \in 1 .. n /\ k - 1 \in 0 .. m)  OBVIOUS
    <3>2. \A k \in 0 .. m : h[k] = IF k = 0 THEN u ELSE h[k - 1] \div Byte  BY <1>4, <1>5, <3>1
    <3> QED  BY <3>2
  <2>3. PICK f : f = v(m) /\ loop(f, m)
    <3> HIDE DEF loop, h
    <3> QED  BY <2>2
  <2> HIDE DEF v
  <2>4. f[0] = u /\ \A k \in 1 .. m : f[k] = f[k - 1] \div Byte
    <3>1. 0 \in 0 .. m /\ \A k \in 1 .. m : k \in 0 .. m /\ k # 0  OBVIOUS
    <3>2. \A k \in 0 .. m : f[k] = IF k = 0 THEN u ELSE f[k - 1] \div Byte  BY <2>3
    <3> QED  BY <3>1, <3>2
  <2> HIDE DEF loop
  <2>5. Alike(f, g, m)
    <3>1. \A k \in 1 .. m : k \in 1 .. n  OBVIOUS
    <3> QED  BY <1>4, <1>5, <2>4, <3>1 DEF Alike
  <2>6. f[m] = g[m]
    <3>1. m \in 0 .. m /\ m \in Nat  OBVIOUS
    <3> QED  BY <2>5, <3>1, SameTurns
  <2> QED  BY <2>1, <2>3, <2>6
<1> QED  BY <1>4, <1>5, <1>6 DEF Shifts

\* What a byte and the rest of a number are.
LEMMA LowByte ==
  ASSUME NEW u \in Nat
  PROVE  u % Byte \in 0 .. Byte - 1 /\ u = (u \div Byte) * Byte + (u % Byte) /\ u \div Byte \in Nat
<1>1. Byte \in Nat \ {0}  BY TaiaAssumption
<1> QED  BY <1>1

\* A smaller number is smaller without its low bytes, too.
LEMMA ShiftsKeepOrder ==
  ASSUME NEW u \in Nat, NEW w \in Nat, u <= w, NEW n \in Nat, NEW a, Shifts(a, u, n), NEW b, Shifts(b, w, n)
  PROVE  a[n] <= b[n]
<1> DEFINE T == {k \in 0 .. n : a[k] <= b[k]}
<1>1. 0 \in T  BY DEF Shifts
<1>2. \A k \in 1 .. n : k - 1 \in T => k \in T
  <2> SUFFICES ASSUME NEW k \in 1 .. n, a[k - 1] <= b[k - 1] PROVE a[k] <= b[k]  OBVIOUS
  <2>1. k - 1 \in 0 .. n  OBVIOUS
  <2>2. PICK p \in Nat, q \in Nat : p = a[k - 1] /\ q = b[k - 1] /\ a[k] = p \div Byte /\ b[k] = q \div Byte
    BY <2>1 DEF Shifts
  <2>3. PICK d \in Nat, e \in Nat : d = p \div Byte /\ e = q \div Byte  BY LowByte
  <2>4. PICK r \in 0 .. Byte - 1, t \in 0 .. Byte - 1 : p = d * Byte + r /\ q = e * Byte + t  BY <2>3, LowByte
  <2>5. InOrder(Byte, e, t, d, r)
    <3>1. Byte \in Nat \ {0} /\ e \in Int /\ d \in Int  BY TaiaAssumption
    <3> QED  BY <3>1, DigitOrder
  <2>6. ~(e < d)  BY <2>2, <2>4, <2>5 DEF InOrder
  <2> QED  BY <2>2, <2>3, <2>6
<1> HIDE DEF T
<1>3. n \in T  BY <1>1, <1>2, Induct
<1> QED  BY <1>3 DEF T

\* A word has eight bytes, a billion has four.
LEMMA NoMoreBytes ==
  ASSUME NEW n \in Nat, NEW max \in Nat, P!Above(max, n) = 0, NEW u \in 0 .. max
  PROVE  P!Above(u, n) = 0
<1>1. PICK a : Shifts(a, u, n)  BY AboveIs
<1>2. PICK b : Shifts(b, max, n)  BY AboveIs
<1>3. n \in 0 .. n  OBVIOUS
<1>4. a[n] <= b[n]  BY <1>1, <1>2, ShiftsKeepOrder
<1>5. a[n] \in Nat /\ b[n] = 0 /\ P!Above(u, n) = a[n]  BY <1>1, <1>2, <1>3 DEF Shifts
<1> QED  BY <1>4, <1>5

\* The bytes of a number, from the first one on, make the number without those behind.
LEMMA BytesMake ==
  ASSUME NEW n \in Nat, NEW u \in Nat, NEW a, Shifts(a, u, n)
  PROVE  \A k \in 1 .. n : /\ P!PackBig(u, n)[k] = a[n - k] % Byte
                           /\ P!PackBig(u, n)[k] \in 0 .. Byte - 1
                           /\ a[n - k] = a[n - k + 1] * Byte + P!PackBig(u, n)[k]
<1> SUFFICES ASSUME NEW k \in 1 .. n
             PROVE  /\ P!PackBig(u, n)[k] = a[n - k] % Byte
                    /\ P!PackBig(u, n)[k] \in 0 .. Byte - 1
                    /\ a[n - k] = a[n - k + 1] * Byte + P!PackBig(u, n)[k]
  OBVIOUS
<1>1. n - k \in 0 .. n /\ n - k + 1 \in 1 .. n  OBVIOUS
<1>2. P!PackBig(u, n)[k] = a[n - k] % Byte  BY <1>1 DEF P!PackBig, Shifts
<1>3. a[n - k] \in Nat /\ a[n - k + 1] = a[n - k + 1 - 1] \div Byte /\ n - k + 1 - 1 = n - k  BY <1>1 DEF Shifts
<1> QED  BY <1>2, <1>3, LowByte

Before(a, b, n) == \E k \in 1 .. n : a[k] < b[k] /\ \A j \in 1 .. k - 1 : a[j] = b[j]
SameBytes(a, b, n) == \A k \in 1 .. n : a[k] = b[k]

\* Numbers in as many bytes are in the order of their bytes.
LEMMA BytesInOrder ==
  ASSUME NEW n \in Nat, NEW u \in Nat, NEW w \in Nat, P!Above(u, n) = 0, P!Above(w, n) = 0
  PROVE  /\ u < w <=> Before(P!PackBig(u, n), P!PackBig(w, n), n)
         /\ u = w <=> SameBytes(P!PackBig(u, n), P!PackBig(w, n), n)
<1> DEFINE s == P!PackBig(u, n)
           t == P!PackBig(w, n)
<1>1. PICK a : Shifts(a, u, n)  BY AboveIs
<1>2. PICK b : Shifts(b, w, n)  BY AboveIs
<1>3. \A k \in 1 .. n : s[k] \in 0 .. Byte - 1 /\ a[n - k] = a[n - k + 1] * Byte + s[k]  BY <1>1, BytesMake
<1>4. \A k \in 1 .. n : t[k] \in 0 .. Byte - 1 /\ b[n - k] = b[n - k + 1] * Byte + t[k]  BY <1>2, BytesMake
<1>5. /\ \A k \in 0 .. n : a[n - k] \in Nat /\ b[n - k] \in Nat
      /\ a[n] = 0 /\ b[n] = 0 /\ a[0] = u /\ b[0] = w
  <2>1. \A k \in 0 .. n : n - k \in 0 .. n  OBVIOUS
  <2>2. n \in 0 .. n  OBVIOUS
  <2> QED  BY <1>1, <1>2, <2>1, <2>2 DEF Shifts
<1> HIDE DEF s, t
<1> DEFINE Good(k) == (a[n - k] < b[n - k] <=> Before(s, t, k)) /\ (a[n - k] = b[n - k] <=> SameBytes(s, t, k))
           T == {k \in 0 .. n : Good(k)}
<1>6. 0 \in T
  <2>1. n - 0 = n /\ 1 .. 0 = {}  OBVIOUS
  <2> QED  BY <1>5, <2>1 DEF Before, SameBytes
<1>7. \A k \in 1 .. n : k - 1 \in T => k \in T
  <2> SUFFICES ASSUME NEW k \in 1 .. n, Good(k - 1) PROVE Good(k)  OBVIOUS
  <2>1. n - (k - 1) = n - k + 1 /\ k - 1 \in 0 .. n /\ k \in 0 .. n  OBVIOUS
  <2>2. PICK p \in Nat, q \in Nat : p = a[n - k + 1] /\ q = b[n - k + 1]  BY <1>5, <2>1
  <2>3. PICK x \in 0 .. Byte - 1, y \in 0 .. Byte - 1 : x = s[k] /\ y = t[k]  BY <1>3, <1>4
  <2>4. a[n - k] = p * Byte + x /\ b[n - k] = q * Byte + y  BY <1>3, <1>4, <2>2, <2>3
  <2>5. InOrder(Byte, p, x, q, y)
    <3>1. Byte \in Nat \ {0} /\ p \in Int /\ q \in Int  BY TaiaAssumption
    <3> QED  BY <3>1, DigitOrder
  <2>6. (p < q <=> Before(s, t, k - 1)) /\ (p = q <=> SameBytes(s, t, k - 1))  BY <2>1, <2>2
  <2>7. SameBytes(s, t, k) <=> SameBytes(s, t, k - 1) /\ x = y
    <3>1. \A j \in 1 .. k : j \in 1 .. k - 1 \/ j = k  OBVIOUS
    <3>2. \A j \in 1 .. k - 1 : j \in 1 .. k  OBVIOUS
    <3> QED  BY <2>3, <3>1, <3>2 DEF SameBytes
  <2>8. Before(s, t, k) <=> Before(s, t, k - 1) \/ (SameBytes(s, t, k - 1) /\ x < y)
    <3>1. \A j \in 1 .. k : j \in 1 .. k - 1 \/ j = k  OBVIOUS
    <3>2. (\A j \in 1 .. k - 1 : j \in 1 .. k) /\ k \in 1 .. k  OBVIOUS
    <3>3. Before(s, t, k) => Before(s, t, k - 1) \/ (SameBytes(s, t, k - 1) /\ x < y)
      BY <2>3, <3>1 DEF SameBytes, Before
    <3>4. Before(s, t, k - 1) \/ (SameBytes(s, t, k - 1) /\ x < y) => Before(s, t, k)
      BY <2>3, <3>2 DEF SameBytes, Before
    <3> QED  BY <3>3, <3>4
  <2> QED  BY <2>4, <2>5, <2>6, <2>7, <2>8 DEF InOrder
<1> HIDE DEF T
<1>8. n \in T  BY <1>6, <1>7, Induct
<1>9. Good(n) /\ n - n = 0  BY <1>8 DEF T
<1> QED  BY <1>5, <1>9 DEF s, t

\* The bytes of a number, read again, are the number.
LEMMA BytesComeBack ==
  ASSUME NEW n \in Nat, NEW u \in Nat, P!Above(u, n) = 0,
         NEW s, Len(s) = n, SameBytes(s, P!PackBig(u, n), n)
  PROVE  P!UnpackBig(s) = u
<1> DEFINE loop(f) == f = [k \in 0 .. n |-> IF k = 0 THEN 0 ELSE f[k - 1] * Byte + s[k]]
           v == CHOOSE f : loop(f)
           h == [k \in 0 .. n |-> IF k = 0 THEN 0 ELSE P!Above(u, n - k)]
<1>1. PICK a : Shifts(a, u, n)  BY AboveIs
<1>2. a[0] = u /\ a[n] = 0 /\ \A k \in 0 .. n : P!Above(u, n - k) = a[n - k]
  <2>1. n \in 0 .. n /\ \A k \in 0 .. n : n - k \in 0 .. n  OBVIOUS
  <2> QED  BY <1>1, <2>1 DEF Shifts
<1>3. \A k \in 0 .. n : h[k] = a[n - k]
  <2>1. n - 0 = n  OBVIOUS
  <2> QED  BY <1>2, <2>1
<1>4. \A k \in 1 .. n : a[n - k] = a[n - (k - 1)] * Byte + s[k]
  <2> SUFFICES ASSUME NEW k \in 1 .. n PROVE a[n - k] = a[n - (k - 1)] * Byte + s[k]  OBVIOUS
  <2>1. n - (k - 1) = n - k + 1  OBVIOUS
  <2>2. a[n - k] = a[n - k + 1] * Byte + P!PackBig(u, n)[k]  BY <1>1, BytesMake
  <2>3. s[k] = P!PackBig(u, n)[k]  BY DEF SameBytes
  <2> QED  BY <2>1, <2>2, <2>3
<1>5. loop(h)
  <2>1. \A k \in 1 .. n : k - 1 \in 0 .. n  OBVIOUS
  <2>2. \A k \in 0 .. n : k # 0 => k \in 1 .. n  OBVIOUS
  <2> DEFINE g == [k \in 0 .. n |-> IF k = 0 THEN 0 ELSE h[k - 1] * Byte + s[k]]
  <2>3. \A k \in 0 .. n : h[k] = g[k]
    <3>1. h[0] = 0 /\ 0 \in 0 .. n  OBVIOUS
    <3>2. \A k \in 1 .. n : h[k] = h[k - 1] * Byte + s[k]
      <4>1. \A k \in 1 .. n : k \in 0 .. n  OBVIOUS
      <4> HIDE DEF h
      <4> QED  BY <1>3, <1>4, <2>1, <4>1
    <3> HIDE DEF h
    <3> QED  BY <2>2, <3>1, <3>2
  <2> QED  BY <2>3
<1>6. PICK f : f = v /\ loop(f)
  <2> HIDE DEF loop, h
  <2> QED  BY <1>5
<1>7. P!UnpackBig(s) = f[n]
  <2>1. P!UnpackBig(s) = v[n]  BY DEF P!UnpackBig
  <2> QED  BY <1>6, <2>1
<1> HIDE DEF v
<1>8. f[n] = h[n]
  <2>1. f[0] = 0 /\ \A k \in 1 .. n : f[k] = f[k - 1] * Byte + s[k]
    <3>1. 0 \in 0 .. n /\ \A k \in 1 .. n : k \in 0 .. n /\ k # 0  OBVIOUS
    <3>2. \A k \in 0 .. n : f[k] = IF k = 0 THEN 0 ELSE f[k - 1] * Byte + s[k]  BY <1>6
    <3> QED  BY <3>1, <3>2
  <2>2. h[0] = 0 /\ \A k \in 1 .. n : h[k] = h[k - 1] * Byte + s[k]
    <3>1. 0 \in 0 .. n /\ \A k \in 1 .. n : k \in 0 .. n /\ k # 0  OBVIOUS
    <3>2. \A k \in 0 .. n : h[k] = IF k = 0 THEN 0 ELSE h[k - 1] * Byte + s[k]
      <4> HIDE DEF h
      <4> QED  BY <1>5
    <3> HIDE DEF h
    <3> QED  BY <3>1, <3>2
  <2> HIDE DEF loop, h
  <2>3. Alike(f, h, n)  BY <2>1, <2>2 DEF Alike
  <2>4. n \in 0 .. n  OBVIOUS
  <2> QED  BY <2>3, <2>4, SameTurns
<1>9. h[n] = u
  <2>1. n \in 0 .. n /\ n - n = 0  OBVIOUS
  <2> HIDE DEF h
  <2> QED  BY <1>2, <1>3, <2>1
<1> QED  BY <1>7, <1>8, <1>9

\* n bytes of a behind the first i are those of s
Chunk(a, i, s, n) == \A k \in 1 .. n : a[i + k] = s[k]

\* The order of bytes, part by part.
LEMMA OrderByParts ==
  ASSUME NEW i \in Nat, NEW n \in Nat, NEW a, NEW b, NEW s, NEW t, Chunk(a, i, s, n), Chunk(b, i, t, n)
  PROVE  /\ Before(a, b, i + n) <=> Before(a, b, i) \/ (SameBytes(a, b, i) /\ Before(s, t, n))
         /\ SameBytes(a, b, i + n) <=> SameBytes(a, b, i) /\ SameBytes(s, t, n)
<1>1. \A j \in 1 .. i + n : j \in 1 .. i \/ (j - i \in 1 .. n /\ i + (j - i) = j)  OBVIOUS
<1>2. (\A j \in 1 .. i : j \in 1 .. i + n) /\ \A k \in 1 .. n : i + k \in 1 .. i + n  OBVIOUS
<1>3. \A k \in 1 .. n : a[i + k] = s[k] /\ b[i + k] = t[k]  BY DEF Chunk
<1>4. SameBytes(a, b, i + n) <=> SameBytes(a, b, i) /\ SameBytes(s, t, n)
  <2>1. SameBytes(a, b, i + n) => SameBytes(a, b, i) /\ SameBytes(s, t, n)  BY <1>2, <1>3 DEF SameBytes
  <2>2. ASSUME SameBytes(a, b, i), SameBytes(s, t, n), NEW j \in 1 .. i + n PROVE a[j] = b[j]
    <3>1. CASE j \in 1 .. i  BY <2>2, <3>1 DEF SameBytes
    <3>2. CASE j \notin 1 .. i
      <4>1. PICK k \in 1 .. n : k = j - i /\ i + k = j  BY <1>1, <3>2
      <4> QED  BY <1>3, <2>2, <4>1 DEF SameBytes
    <3> QED  BY <3>1, <3>2
  <2> QED  BY <2>1, <2>2 DEF SameBytes
<1>5. ASSUME Before(a, b, i + n) PROVE Before(a, b, i) \/ (SameBytes(a, b, i) /\ Before(s, t, n))
  <2>1. PICK j \in 1 .. i + n : a[j] < b[j] /\ \A l \in 1 .. j - 1 : a[l] = b[l]  BY <1>5 DEF Before
  <2>2. CASE j \in 1 .. i  BY <2>1, <2>2 DEF Before
  <2>3. CASE j \notin 1 .. i
    <3>1. PICK k \in 1 .. n : k = j - i /\ i + k = j  BY <1>1, <2>3
    <3>2. (\A l \in 1 .. i : l \in 1 .. j - 1) /\ \A l \in 1 .. k - 1 : l \in 1 .. n /\ i + l \in 1 .. j - 1
      BY <3>1
    <3>3. SameBytes(a, b, i)  BY <2>1, <3>2 DEF SameBytes
    <3>4. s[k] < t[k]  BY <1>3, <2>1, <3>1
    <3>5. \A l \in 1 .. k - 1 : s[l] = t[l]  BY <1>3, <2>1, <3>2
    <3> QED  BY <3>3, <3>4, <3>5 DEF Before
  <2> QED  BY <2>2, <2>3
<1>6. ASSUME Before(a, b, i) PROVE Before(a, b, i + n)
  BY <1>2, <1>6 DEF Before
<1>7. ASSUME SameBytes(a, b, i), Before(s, t, n) PROVE Before(a, b, i + n)
  <2>1. PICK k \in 1 .. n : s[k] < t[k] /\ \A l \in 1 .. k - 1 : s[l] = t[l]  BY <1>7 DEF Before
  <2>2. i + k \in 1 .. i + n /\ a[i + k] < b[i + k]  BY <1>2, <1>3, <2>1
  <2>3. ASSUME NEW j \in 1 .. i + k - 1 PROVE a[j] = b[j]
    <3>1. CASE j \in 1 .. i  BY <1>7, <3>1 DEF SameBytes
    <3>2. CASE j \notin 1 .. i
      <4>1. j - i \in 1 .. k - 1 /\ j - i \in 1 .. n /\ i + (j - i) = j  BY <3>2
      <4>2. PICK l \in 1 .. n : l = j - i /\ l \in 1 .. k - 1 /\ i + l = j  BY <4>1
      <4> QED  BY <1>3, <2>1, <4>2
    <3> QED  BY <3>1, <3>2
  <2> QED  BY <2>2, <2>3 DEF Before
<1> QED  BY <1>4, <1>5, <1>6, <1>7

\* The elements of two sequences one after the other.
HasBoth(u, s, t) ==
  /\ Len(u) = Len(s) + Len(t)
  /\ \A k \in 1 .. Len(s) : u[k] = s[k]
  /\ \A k \in 1 .. Len(t) : u[Len(s) + k] = t[k]

LEMMA TwoJoined ==
  ASSUME NEW S, NEW s \in Seq(S), NEW t \in Seq(S)
  PROVE  \E u \in Seq(S) : u = s \o t /\ HasBoth(u, s, t)
<1>1. PICK m \in Nat, n \in Nat : m = Len(s) /\ n = Len(t)  OBVIOUS
<1>2. PICK b \in Seq(S) : b = s \o t  BY ConcatProperties
<1>3. Len(b) = m + n /\ \A i \in 1 .. m + n : b[i] = IF i <= m THEN s[i] ELSE t[i - m]
  BY <1>1, <1>2, ConcatProperties
<1>4. \A k \in 1 .. m : k \in 1 .. m + n /\ k <= m  OBVIOUS
<1>5. \A k \in 1 .. n : m + k \in 1 .. m + n /\ ~(m + k <= m) /\ m + k - m = k  OBVIOUS
<1>6. \A k \in 1 .. n : b[m + k] = t[k]
  <2> SUFFICES ASSUME NEW k \in 1 .. n PROVE b[m + k] = t[k]  OBVIOUS
  <2>1. b[m + k] = t[m + k - m]  BY <1>3, <1>5
  <2> QED  BY <1>5, <2>1
<1> QED  BY <1>1, <1>2, <1>3, <1>4, <1>6 DEF HasBoth

\* A packed time is its packed parts.
LEMMA PackedParts ==
  ASSUME NEW x \in Taias
  PROVE  /\ Chunk(TaiaPack(x), 0, P!PackBig(x.sec, 8), 8)
         /\ Chunk(TaiaPack(x), 8, P!PackBig(x.nano, 4), 4)
         /\ Chunk(TaiaPack(x), 12, P!PackBig(x.atto, 4), 4)
         /\ Len(TaiaPack(x)) = 16 /\ TaiaPack(x) \in Seq(Nat)
<1>1. x.sec \in Nat /\ x.nano \in Nat /\ x.atto \in Nat
  BY TaiaAssumption DEF Taias
<1>2. \A u \in Nat, n \in Nat : P!PackBig(u, n) \in Seq(Nat) /\ Len(P!PackBig(u, n)) = n
  <2> SUFFICES ASSUME NEW u \in Nat, NEW n \in Nat PROVE P!PackBig(u, n) \in Seq(Nat) /\ Len(P!PackBig(u, n)) = n
    OBVIOUS
  <2>1. PICK a : Shifts(a, u, n)  BY AboveIs
  <2>2. \A k \in 1 .. n : P!PackBig(u, n)[k] \in Nat  BY <2>1, BytesMake
  <2>3. P!PackBig(u, n) = [k \in 1 .. n |-> P!PackBig(u, n)[k]]  BY DEF P!PackBig
  <2>4. P!PackBig(u, n) \in [1 .. n -> Nat]  BY <2>2, <2>3
  <2> QED  BY <2>4, MadeSeq
<1> DEFINE p == P!PackBig(x.sec, 8)
           q == P!PackBig(x.nano, 4)
           r == P!PackBig(x.atto, 4)
<1>3. /\ p \in Seq(Nat) /\ q \in Seq(Nat) /\ r \in Seq(Nat)
      /\ Len(p) = 8 /\ Len(q) = 4 /\ Len(r) = 4
  <2>1. 8 \in Nat /\ 4 \in Nat  OBVIOUS
  <2> QED  BY <1>1, <1>2, <2>1
<1>4. TaiaPack(x) = p \o q \o r  BY DEF TaiaPack, TaiPack, P!Uint64PackBig, P!Uint32PackBig
<1> HIDE DEF p, q, r
<1> DEFINE a == (p \o q) \o r
<1>5. /\ a \in Seq(Nat) /\ Len(a) = 16
      /\ \A k \in 1 .. 8 : a[k] = p[k]
      /\ \A k \in 1 .. 4 : a[8 + k] = q[k] /\ a[12 + k] = r[k]
  <2>1. 8 + 4 = 12 /\ 12 + 4 = 16  OBVIOUS
  <2>2. PICK pq \in Seq(Nat) : pq = p \o q /\ HasBoth(pq, p, q)  BY <1>3, TwoJoined
  <2>3. PICK b \in Seq(Nat) : b = pq \o r /\ HasBoth(b, pq, r)  BY <1>3, TwoJoined
  <2>4. a = b  BY <2>2, <2>3
  <2> HIDE DEF a
  <2>5. (\A k \in 1 .. 8 : k \in 1 .. 12) /\ \A k \in 1 .. 4 : 8 + k \in 1 .. 12  OBVIOUS
  <2>6. /\ Len(pq) = 12
        /\ \A k \in 1 .. 8 : pq[k] = p[k]
        /\ \A k \in 1 .. 4 : pq[8 + k] = q[k]
    BY <1>3, <2>1, <2>2 DEF HasBoth
  <2>7. /\ Len(b) = 16
        /\ \A k \in 1 .. 12 : b[k] = pq[k]
        /\ \A k \in 1 .. 4 : b[12 + k] = r[k]
    BY <1>3, <2>1, <2>3, <2>6 DEF HasBoth
  <2> QED  BY <2>3, <2>4, <2>5, <2>6, <2>7
<1> HIDE DEF a
<1>6. Chunk(a, 0, p, 8)
  <2>1. \A k \in 1 .. 8 : 0 + k = k  OBVIOUS
  <2> QED  BY <1>5, <2>1 DEF Chunk
<1> QED  BY <1>4, <1>5, <1>6 DEF Chunk, a, p, q, r

\* The bytes of two times are in the order of the times.
LEMMA HeldArePacked ==
  ASSUME held \subseteq Taias
  PROVE  PackedInOrder
<1> SUFFICES ASSUME NEW x \in Taias, NEW y \in Taias
             PROVE  /\ TaiaLess(x, y) <=> Before(TaiaPack(x), TaiaPack(y), 16)
                    /\ TaiUnpack(TaiaPack(x)) = x.sec
  BY DEF PackedInOrder, Before
<1> DEFINE a == TaiaPack(x)
           b == TaiaPack(y)
<1>1. /\ Chunk(a, 0, P!PackBig(x.sec, 8), 8) /\ Chunk(a, 8, P!PackBig(x.nano, 4), 4)
      /\ Chunk(a, 12, P!PackBig(x.atto, 4), 4) /\ Len(a) = 16 /\ a \in Seq(Nat)
  BY PackedParts
<1>2. /\ Chunk(b, 0, P!PackBig(y.sec, 8), 8) /\ Chunk(b, 8, P!PackBig(y.nano, 4), 4)
      /\ Chunk(b, 12, P!PackBig(y.atto, 4), 4)
  BY PackedParts
<1> HIDE DEF a, b
<1>3. ULong - 1 \in Nat /\ Base - 1 \in Nat /\ P!Above(ULong - 1, 8) = 0 /\ P!Above(Base - 1, 4) = 0
  BY TaiaAssumption
<1>4. /\ x.sec \in 0 .. ULong - 1 /\ x.nano \in 0 .. Base - 1 /\ x.atto \in 0 .. Base - 1
      /\ y.sec \in 0 .. ULong - 1 /\ y.nano \in 0 .. Base - 1 /\ y.atto \in 0 .. Base - 1
  BY DEF Taias
<1>5. 8 \in Nat /\ 4 \in Nat /\ 0 \in Nat /\ 12 \in Nat  OBVIOUS
<1>6. \A u \in 0 .. ULong - 1 : u \in Nat /\ P!Above(u, 8) = 0  BY <1>3, <1>5, NoMoreBytes
<1>7. \A u \in 0 .. Base - 1 : u \in Nat /\ P!Above(u, 4) = 0  BY <1>3, <1>5, NoMoreBytes
<1>8. TaiaLess(x, y) <=> Before(a, b, 16)
  <2>1. /\ x.sec < y.sec <=> Before(P!PackBig(x.sec, 8), P!PackBig(y.sec, 8), 8)
        /\ x.sec = y.sec <=> SameBytes(P!PackBig(x.sec, 8), P!PackBig(y.sec, 8), 8)
    BY <1>4, <1>5, <1>6, BytesInOrder
  <2>2. /\ x.nano < y.nano <=> Before(P!PackBig(x.nano, 4), P!PackBig(y.nano, 4), 4)
        /\ x.nano = y.nano <=> SameBytes(P!PackBig(x.nano, 4), P!PackBig(y.nano, 4), 4)
    BY <1>4, <1>5, <1>7, BytesInOrder
  <2>3. x.atto < y.atto <=> Before(P!PackBig(x.atto, 4), P!PackBig(y.atto, 4), 4)
    BY <1>4, <1>5, <1>7, BytesInOrder
  <2>4. ~ Before(a, b, 0) /\ SameBytes(a, b, 0)
    <3>1. 1 .. 0 = {}  OBVIOUS
    <3> QED  BY <3>1 DEF Before, SameBytes
  <2>5. 0 + 8 = 8 /\ 8 + 4 = 12 /\ 12 + 4 = 16  OBVIOUS
  <2>6. (Before(a, b, 8) <=> x.sec < y.sec) /\ (SameBytes(a, b, 8) <=> x.sec = y.sec)
    <3>1. /\ Before(a, b, 0 + 8) <=> Before(a, b, 0) \/ (SameBytes(a, b, 0) /\ Before(P!PackBig(x.sec, 8), P!PackBig(y.sec, 8), 8))
          /\ SameBytes(a, b, 0 + 8) <=> SameBytes(a, b, 0) /\ SameBytes(P!PackBig(x.sec, 8), P!PackBig(y.sec, 8), 8)
      BY <1>1, <1>2, <1>5, OrderByParts
    <3> QED  BY <2>1, <2>4, <2>5, <3>1
  <2>7. /\ Before(a, b, 12) <=> x.sec < y.sec \/ (x.sec = y.sec /\ x.nano < y.nano)
        /\ SameBytes(a, b, 12) <=> x.sec = y.sec /\ x.nano = y.nano
    <3>1. /\ Before(a, b, 8 + 4) <=> Before(a, b, 8) \/ (SameBytes(a, b, 8) /\ Before(P!PackBig(x.nano, 4), P!PackBig(y.nano, 4), 4))
          /\ SameBytes(a, b, 8 + 4) <=> SameBytes(a, b, 8) /\ SameBytes(P!PackBig(x.nano, 4), P!PackBig(y.nano, 4), 4)
      BY <1>1, <1>2, <1>5, OrderByParts
    <3> QED  BY <2>2, <2>5, <2>6, <3>1
  <2>8. Before(a, b, 12 + 4) <=> Before(a, b, 12) \/ (SameBytes(a, b, 12) /\ Before(P!PackBig(x.atto, 4), P!PackBig(y.atto, 4), 4))
    BY <1>1, <1>2, <1>5, OrderByParts
  <2> QED  BY <2>3, <2>5, <2>7, <2>8 DEF TaiaLess
<1>9. TaiUnpack(a) = x.sec
  <2> DEFINE s == SubSeq(a, 1, 8)
  <2>1. Len(s) = 8 /\ \A k \in 1 .. 8 : s[k] = a[k]  BY <1>1
  <2>2. SameBytes(s, P!PackBig(x.sec, 8), 8)
    <3>1. \A k \in 1 .. 8 : 0 + k = k  OBVIOUS
    <3> HIDE DEF s
    <3> QED  BY <1>1, <2>1, <3>1 DEF SameBytes, Chunk
  <2>3. TaiUnpack(a) = P!UnpackBig(s)  BY DEF TaiUnpack, P!Uint64UnpackBig
  <2> HIDE DEF s
  <2>4. P!UnpackBig(s) = x.sec  BY <1>4, <1>5, <1>6, <2>1, <2>2, BytesComeBack
  <2> QED  BY <2>3, <2>4
<1> QED  BY <1>8, <1>9 DEF a, b

\* Sums, differences and order of times are those of the numbers they stand for, wherever
\* the result is stored, and packed times are in the order of the times (taia_add,
\* taia_sub, taia_less, taia_pack; taia.c:14-97, tai.c:21-59).
THEOREM TimesAreInOrder == TimesSpec => []TimesKeepOrder
<1> DEFINE OfTimes == held \subseteq Taias
<1>1. TimesInit => OfTimes  BY DEF TimesInit
<1>2. OfTimes /\ [TimesNext]_held => OfTimes'  BY DEF TimesNext, TakeTime
<1>3. OfTimes => TimesKeepOrder  BY HeldAreNumbers, HeldArePacked DEF TimesKeepOrder
<1> QED  BY <1>1, <1>2, <1>3, PTL DEF TimesSpec
=============================================================================
