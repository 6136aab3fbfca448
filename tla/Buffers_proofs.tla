--------------------------- MODULE Buffers_proofs ---------------------------
(***************************************************************************)
(* Proofs about the buffers of buffer.c and the lines of getln.c, for any  *)
(* sizes of the buffers, any input and any separators.                     *)
(*                                                                         *)
(* The argument in each of the three parts is that the bytes are always    *)
(* consecutive numbers: what a write buffer has yet to write are the last  *)
(* bytes given, what a read buffer holds are the last bytes taken, and     *)
(* what a line gathers are the last bytes got.                             *)
(***************************************************************************)
EXTENDS MCBuffers, Loops

-----------------------------------------------------------------------------
(***************************************************************************)
(* The write buffer                                                        *)
(***************************************************************************)
\* how many bytes a write buffer has taken and not yet written
Unwritten == IF src = "x" THEN left + len ELSE IF src = "buf" THEN len - at ELSE p

\* What holds between the steps of a write buffer: its bytes are those given last.
OutInv ==
  /\ OutTypeOK /\ WritesStayInBuffer
  /\ src = "none" => len = 0 /\ \A i \in 1 .. p : x[i - 1] = given - p + i
  /\ src = "x" => \A i \in 1 .. left : x[at + i - 1] = given - len - left + i
  /\ call = "flush" => src = "x" /\ len = 0
  /\ src = "buf" => call \in {"put", "putflush"}
  /\ src = "buf" /\ call = "putflush" => at + left = len

\* a space whose first q bytes are consecutive, the last of them being last
Filled(y, q, last) ==
  /\ y \in [0 .. Size - 1 -> Nat] /\ q \in 0 .. Size
  /\ \A i \in 1 .. q : y[i - 1] = last - q + i

\* The next k bytes of an argument follow on what is in the buffer.
LEMMA CopiedFills ==
  ASSUME NEW g \in Nat, NEW l \in 0 .. g, NEW k \in 0 .. l, NEW y, NEW q,
         Filled(y, q, g - l), q + k <= Size
  PROVE  Filled(Copied(y, q, k, l, g), q + k, g - (l - k))
<1> DEFINE z == Copied(y, q, k, l, g)
<1>1. q \in 0 .. Size /\ Size \in Nat \ {0} /\ q \in Nat  BY BufferOutAssumption DEF Filled
<1>2. \A j \in 0 .. Size - 1 : z[j] = IF j \in q .. q + k - 1 THEN g - l + (j - q + 1) ELSE y[j]
  BY DEF Copied, Arg
<1>3. z \in [0 .. Size - 1 -> Nat]  BY <1>1 DEF Copied, Arg, Filled
<1>4. ASSUME NEW i \in 1 .. q + k PROVE z[i - 1] = g - (l - k) - (q + k) + i
  <2> DEFINE j == i - 1
  <2>1. j \in 0 .. Size - 1  BY <1>1
  <2>2. CASE j >= q
    <3>1. j \in q .. q + k - 1  BY <1>1, <2>2
    <3>2. z[j] = g - l + (j - q + 1)  BY <1>2, <2>1, <3>1
    <3> QED  BY <1>1, <3>2
  <2>3. CASE ~(j >= q)
    <3>1. i \in 1 .. q /\ j \notin q .. q + k - 1  BY <1>1, <2>3
    <3>2. z[j] = y[j]  BY <1>2, <2>1, <3>1
    <3>3. y[j] = g - l - q + i  BY <3>1 DEF Filled
    <3> QED  BY <1>1, <3>2, <3>3
  <2> QED  BY <2>2, <2>3
<1> QED  BY <1>1, <1>3, <1>4 DEF Filled

\* The rest of the argument joins the bytes in the buffer.
LEMMA CopyRestKeeps ==
  ASSUME given' \in Nat, fd' \in Seq(Nat), NEW l \in 0 .. given', NEW y, NEW q,
         Filled(y, q, given' - l), q + l <= Size, CopyRest(y, q, l)
  PROVE  OutInv' /\ Unwritten' = q + l
<1>1. /\ x' = Copied(y, q, l, l, given') /\ p' = q + l /\ len' = 0 /\ call' = "none"
      /\ src' = "none" /\ at' = 0 /\ left' = 0 /\ rc' = 0
  BY DEF CopyRest, Return
<1>2. Filled(x', p', given' - (l - l))  BY <1>1, CopiedFills
<1>3. /\ x' \in [0 .. Size - 1 -> Nat] /\ p' \in 0 .. Size
      /\ \A i \in 1 .. p' : x'[i - 1] = given' - p' + i
  BY <1>2 DEF Filled
<1> QED  BY <1>1, <1>3 DEF OutInv, OutTypeOK, WritesStayInBuffer, Unwritten

\* A flush begins with all that is in the buffer.
LEMMA FlushInKeeps ==
  ASSUME given' \in Nat, fd' \in Seq(Nat), rc \in {0, -1}, NEW l \in 0 .. given', NEW y,
         NEW q \in 1 .. Size, NEW c \in Calls, c = "flush" => l = 0,
         Filled(y, q, given' - l), FlushIn(c, y, q, l)
  PROVE  OutInv' /\ Unwritten' = q + l
<1>1. /\ x' = y /\ p' = 0 /\ len' = l /\ call' = c /\ src' = "x" /\ at' = 0 /\ left' = q
      /\ rc' = rc
  BY DEF FlushIn, AllWrite
<1>2. x' \in [0 .. Size - 1 -> Nat] /\ \A i \in 1 .. left' : x'[at' + i - 1] = given' - len' - left' + i
  BY <1>1, BufferOutAssumption DEF Filled
<1>3. q \in Nat /\ q # 0 /\ q <= Size /\ 0 \in 0 .. Size /\ 0 + q = q  BY BufferOutAssumption
<1>4. OutTypeOK'  BY <1>1, <1>2, <1>3 DEF OutTypeOK
<1>5. WritesStayInBuffer'  BY <1>1, <1>3 DEF WritesStayInBuffer, Calls
<1>6. OutInv'  BY <1>1, <1>2, <1>4, <1>5 DEF OutInv
<1> QED  BY <1>1, <1>6 DEF Unwritten

\* With the buffer empty buffer_put writes the argument, or keeps the rest of it.
LEMMA PutDirectKeeps ==
  ASSUME given' \in Nat, fd' \in Seq(Nat), rc \in {0, -1}, NEW l \in 0 .. given',
         NEW n \in Nat \ {0}, x \in [0 .. Size - 1 -> Nat], p = 0, PutDirect(l, n)
  PROVE  OutInv' /\ Unwritten' = l
<1>1. CASE l > Size
  <2>1. /\ src' = "buf" /\ at' = 0 /\ left' = (IF n > l THEN l ELSE n) /\ call' = "put" /\ len' = l
        /\ x' = x /\ p' = p /\ rc' = rc
    BY <1>1 DEF PutDirect, AllWrite
  <2> QED  BY <1>1, <2>1, BufferOutAssumption DEF OutInv, OutTypeOK, WritesStayInBuffer, Unwritten, Calls
<1>2. CASE ~(l > Size)
  <2>1. CopyRest(x, p, l)  BY <1>2 DEF PutDirect
  <2>2. Filled(x, p, given' - l) /\ p + l <= Size /\ p + l = l
    BY <1>2, BufferOutAssumption DEF Filled
  <2> QED  BY <2>1, <2>2, CopyRestKeeps
<1> QED  BY <1>1, <1>2

\* buffer_putalign fills the buffer before it flushes it.
LEMMA PutAlignedKeeps ==
  ASSUME given' \in Nat, fd' \in Seq(Nat), rc \in {0, -1}, NEW l \in 0 .. given', NEW y, NEW q,
         Filled(y, q, given' - l), PutAligned(y, q, l)
  PROVE  OutInv' /\ Unwritten' = q + l
<1>1. q \in 0 .. Size /\ Size \in Nat \ {0}  BY BufferOutAssumption DEF Filled
<1>2. CASE l > Size - q
  <2> DEFINE n == Size - q
             z == Copied(y, q, n, l, given')
  <2>1. FlushIn("putalign", z, Size, l - n) /\ l - n \in 0 .. given' /\ n \in Nat
    BY <1>1, <1>2 DEF PutAligned
  <2>2. Filled(z, Size, given' - (l - n))
    <3>1. n \in 0 .. l /\ q + n <= Size /\ q + n = Size  BY <1>1, <1>2
    <3> HIDE DEF n
    <3> QED  BY <3>1, CopiedFills
  <2>3. Size \in 1 .. Size /\ "putalign" \in Calls /\ Size + (l - n) = q + l  BY <1>1 DEF Calls
  <2> HIDE DEF z
  <2> QED  BY <2>1, <2>2, <2>3, FlushInKeeps
<1>3. CASE ~(l > Size - q)
  <2>1. CopyRest(y, q, l) /\ q + l <= Size  BY <1>1, <1>3 DEF PutAligned
  <2> QED  BY <2>1, CopyRestKeeps
<1> QED  BY <1>2, <1>3

\* With the buffer empty buffer_putflush writes the argument.
LEMMA PutThroughKeeps ==
  ASSUME given' \in Nat, fd' \in Seq(Nat), rc \in {0, -1}, NEW l \in 0 .. given',
         x \in [0 .. Size - 1 -> Nat], p = 0, PutThrough(l)
  PROVE  OutInv' /\ Unwritten' = l
<1>1. CASE l > 0
  <2>1. /\ src' = "buf" /\ at' = 0 /\ left' = l /\ call' = "putflush" /\ len' = l
        /\ x' = x /\ p' = p /\ rc' = rc
    BY <1>1 DEF PutThrough, AllWrite
  <2> QED  BY <1>1, <2>1, BufferOutAssumption DEF OutInv, OutTypeOK, WritesStayInBuffer, Unwritten, Calls
<1>2. CASE l = 0
  <2>1. /\ call' = "none" /\ rc' = 0 /\ src' = "none" /\ at' = 0 /\ left' = 0 /\ len' = 0
        /\ x' = x /\ p' = p
    BY <1>2 DEF PutThrough, Return
  <2> QED  BY <1>2, <2>1, BufferOutAssumption DEF OutInv, OutTypeOK, WritesStayInBuffer, Unwritten
<1> QED  BY <1>1, <1>2

\* Whatever a caller hands over joins what is not yet written.
LEMMA GiveKeeps ==
  ASSUME OutInv, NEW k \in Nat, Put(k) \/ PutAlign(k) \/ PutFlush(k) \/ (k = 0 /\ Flush)
  PROVE  OutInv' /\ Unwritten' = Unwritten + k /\ given' = given + k /\ fd' = fd
<1>1. call = "none" /\ given' = given + k /\ fd' = fd  BY DEF Put, PutAlign, PutFlush, Flush, Give
<1>2. /\ src = "none" /\ Unwritten = p /\ Unwritten \in Nat /\ rc \in {0, -1} /\ p \in 0 .. Size
      /\ x \in [0 .. Size - 1 -> Nat] /\ fd \in Seq(Nat) /\ given \in Nat
  BY <1>1 DEF OutInv, WritesStayInBuffer, Unwritten, OutTypeOK
<1>3. given' \in Nat /\ fd' \in Seq(Nat) /\ k \in 0 .. given' /\ given' - k = given /\ 0 \in 0 .. given'
  BY <1>1, <1>2
<1>4. Filled(x, p, given)  BY <1>2 DEF Filled, OutInv
<1>5. p > 0 => p \in 1 .. Size  BY <1>2, BufferOutAssumption
<1>6. p + k = Unwritten + k /\ p \in Nat  BY <1>2
<1>7. CASE Put(k)
  <2>1. CASE k <= Size - p
    <3>1. CopyRest(x, p, k) /\ p + k <= Size  BY <1>2, <1>7, <2>1, BufferOutAssumption DEF Put
    <3> QED  BY <1>1, <1>3, <1>4, <1>6, <3>1, CopyRestKeeps
  <2>2. CASE ~(k <= Size - p) /\ p > 0
    <3>1. FlushIn("put", x, p, k) /\ "put" \in Calls  BY <1>7, <2>2 DEF Put, Calls
    <3> QED  BY <1>1, <1>2, <1>3, <1>4, <1>5, <1>6, <2>2, <3>1, FlushInKeeps
  <2>3. CASE ~(k <= Size - p) /\ p = 0
    <3>1. PutDirect(k, FirstDirect)  BY <1>7, <2>3 DEF Put
    <3>2. FirstDirect \in Nat \ {0}  BY BufferOutAssumption DEF FirstDirect
    <3>3. Unwritten + k = k  BY <1>2, <2>3
    <3> QED  BY <1>1, <1>2, <1>3, <2>3, <3>1, <3>2, <3>3, PutDirectKeeps
  <2> QED  BY <1>2, <2>1, <2>2, <2>3
<1>8. CASE PutAlign(k)
  <2>1. PutAligned(x, p, k)  BY <1>8 DEF PutAlign
  <2> QED  BY <1>1, <1>2, <1>3, <1>4, <1>6, <2>1, PutAlignedKeeps
<1>9. CASE PutFlush(k)
  <2>1. CASE p > 0
    <3>1. FlushIn("putflush", x, p, k) /\ "putflush" \in Calls  BY <1>9, <2>1 DEF PutFlush, Calls
    <3> QED  BY <1>1, <1>2, <1>3, <1>4, <1>5, <1>6, <2>1, <3>1, FlushInKeeps
  <2>2. CASE p = 0
    <3>1. PutThrough(k) /\ Unwritten + k = k  BY <1>2, <1>9, <2>2 DEF PutFlush
    <3> QED  BY <1>1, <1>2, <1>3, <2>2, <3>1, PutThroughKeeps
  <2> QED  BY <1>2, <2>1, <2>2
<1>10. CASE k = 0 /\ Flush
  <2>1. CASE p > 0
    <3>1. FlushIn("flush", x, p, 0) /\ "flush" \in Calls  BY <1>10, <2>1 DEF Flush, Calls
    <3>2. p + 0 = Unwritten + k /\ given' - 0 = given  BY <1>1, <1>2, <1>10
    <3> QED  BY <1>1, <1>2, <1>3, <1>4, <1>5, <2>1, <3>1, <3>2, FlushInKeeps
  <2>2. CASE p = 0
    <3>1. /\ call' = "none" /\ rc' = 0 /\ src' = "none" /\ at' = 0 /\ left' = 0 /\ len' = 0
          /\ x' = x /\ p' = p
      BY <1>10, <2>2 DEF Flush, Return
    <3>2. OutInv'
      BY <1>2, <1>3, <2>2, <3>1, BufferOutAssumption DEF OutInv, OutTypeOK, WritesStayInBuffer
    <3>3. Unwritten' = Unwritten + k  BY <1>2, <1>10, <2>2, <3>1 DEF Unwritten
    <3> QED  BY <1>1, <3>2, <3>3
  <2> QED  BY <1>2, <2>1, <2>2
<1> QED  BY <1>7, <1>8, <1>9, <1>10

\* What op has taken was the oldest of what is not yet written, and the call goes on
\* with the rest.
LEMMA WriteKeeps ==
  ASSUME OutInv, NEW r \in 1 .. left, WriteSome(r)
  PROVE  /\ OutInv' /\ Unwritten' = Unwritten - r /\ given' = given /\ r \in 1 .. Unwritten
         /\ fd' = fd \o [i \in 1 .. r |-> given - Unwritten + i]
<1>1. /\ x \in [0 .. Size - 1 -> Nat] /\ given \in Nat /\ len \in 0 .. given /\ at \in Nat /\ left \in Nat
      /\ rc \in {0, -1} /\ fd \in Seq(Nat) /\ src \in {"x", "buf"} /\ p = 0 /\ call \in Calls
      /\ src = "x" => at + left <= Size
      /\ src = "buf" => at + left <= len
  BY DEF OutInv, OutTypeOK, WritesStayInBuffer
<1>2. given' = given /\ fd' = fd \o [i \in 1 .. r |-> Pending(i)]  BY DEF WriteSome
<1>3. Unwritten = (IF src = "x" THEN left + len ELSE len - at) /\ r \in 1 .. Unwritten
  BY <1>1 DEF Unwritten
<1>4. ASSUME NEW i \in 1 .. r PROVE Pending(i) = given - Unwritten + i
  <2>1. CASE src = "x"
    <3>1. i \in 1 .. left /\ x[at + i - 1] = given - len - left + i  BY <1>1, <2>1 DEF OutInv
    <3>2. Pending(i) = x[at + i - 1]  BY <2>1 DEF Pending
    <3> QED  BY <1>1, <1>3, <2>1, <3>1, <3>2
  <2>2. CASE src = "buf"
    <3>1. Pending(i) = given - len + (at + i)  BY <2>2 DEF Pending, Arg
    <3>2. Unwritten = len - at  BY <1>3, <2>2
    <3> HIDE DEF Unwritten
    <3> QED  BY <1>1, <3>1, <3>2
  <2> QED  BY <1>1, <2>1, <2>2
<1>5. \A i \in 1 .. r : Pending(i) \in Nat
  <2>1. CASE src = "x"
    <3> SUFFICES ASSUME NEW i \in 1 .. r PROVE x[at + i - 1] \in Nat  BY <2>1 DEF Pending
    <3>1. at + i - 1 \in 0 .. Size - 1  BY <1>1, <2>1, BufferOutAssumption
    <3> QED  BY <1>1, <3>1
  <2>2. CASE src = "buf"
    <3> SUFFICES ASSUME NEW i \in 1 .. r PROVE given - len + (at + i) \in Nat  BY <2>2 DEF Pending, Arg
    <3> QED  BY <1>1, <2>2
  <2> QED  BY <1>1, <2>1, <2>2
<1>6. [i \in 1 .. r |-> Pending(i)] = [i \in 1 .. r |-> given - Unwritten + i]  BY <1>4
<1>7. fd' \in Seq(Nat)
  <2>1. [i \in 1 .. r |-> Pending(i)] \in [1 .. r -> Nat]  BY <1>5
  <2>2. [i \in 1 .. r |-> Pending(i)] \in Seq(Nat)  BY <1>1, <2>1, SeqDef
  <2> QED  BY <1>1, <1>2, <2>2, ConcatProperties
<1>8. CASE r < left
  <2>1. /\ at' = at + r /\ left' = left - r /\ x' = x /\ p' = p /\ call' = call /\ len' = len
        /\ src' = src /\ rc' = rc
    BY <1>8 DEF WriteSome
  <2>2. OutTypeOK' /\ WritesStayInBuffer'
    BY <1>1, <1>2, <1>7, <1>8, <2>1 DEF OutInv, OutTypeOK, WritesStayInBuffer
  <2>3. src' = "x" => \A i \in 1 .. left' : x'[at' + i - 1] = given' - len' - left' + i
    <3> SUFFICES ASSUME src = "x", NEW i \in 1 .. left - r
                 PROVE  x[at + r + i - 1] = given - len - (left - r) + i
      BY <1>2, <2>1
    <3>1. r + i \in 1 .. left /\ at + r + i - 1 = at + (r + i) - 1  BY <1>1, <1>8
    <3>2. x[at + (r + i) - 1] = given - len - left + (r + i)  BY <3>1 DEF OutInv
    <3> QED  BY <1>1, <3>1, <3>2
  <2>4. OutInv'  BY <1>1, <2>1, <2>2, <2>3 DEF OutInv
  <2>5. Unwritten' = Unwritten - r  BY <1>1, <2>1 DEF Unwritten
  <2> QED  BY <1>2, <1>3, <1>6, <2>4, <2>5
<1>9. CASE r = left
  <2>1. Continue  BY <1>1, <1>9 DEF WriteSome
  <2>2. OutInv' /\ Unwritten' = Unwritten - r
    <3>1. given' \in Nat /\ given' = given /\ len \in 0 .. given' /\ Unwritten - r \in Nat  BY <1>1, <1>2, <1>3
    <3>2. CASE src = "x" /\ call = "put"
      <4>1. PutDirect(len, FirstDirect)  BY <2>1, <3>2 DEF Continue
      <4>2. FirstDirect \in Nat \ {0}  BY BufferOutAssumption DEF FirstDirect
      <4>3. Unwritten - r = len  BY <1>1, <1>3, <1>9, <3>2
      <4> QED  BY <1>1, <1>7, <3>1, <4>1, <4>2, <4>3, PutDirectKeeps
    <3>3. CASE src = "x" /\ call = "putalign"
      <4>1. PutAligned(x, p, len)  BY <2>1, <3>3 DEF Continue
      <4>2. Filled(x, p, given' - len)  BY <1>1, BufferOutAssumption DEF Filled
      <4>3. Unwritten - r = p + len  BY <1>1, <1>3, <1>9, <3>3
      <4> QED  BY <1>1, <1>7, <3>1, <4>1, <4>2, <4>3, PutAlignedKeeps
    <3>4. CASE src = "x" /\ call = "putflush"
      <4>1. PutThrough(len)  BY <2>1, <3>4 DEF Continue
      <4>2. Unwritten - r = len  BY <1>1, <1>3, <1>9, <3>4
      <4> QED  BY <1>1, <1>7, <3>1, <4>1, <4>2, PutThroughKeeps
    <3>5. CASE src = "buf" /\ call = "put"
      <4> DEFINE l == len - (at + left)  n == at + left
      <4>1. PutDirect(l, n)  BY <2>1, <3>5 DEF Continue
      <4>2. l \in 0 .. given' /\ n \in Nat \ {0} /\ Unwritten - r = l  BY <1>1, <1>3, <1>9, <3>1, <3>5
      <4> HIDE DEF l, n
      <4> QED  BY <1>1, <1>7, <3>1, <4>1, <4>2, PutDirectKeeps
    <3>6. CASE (src = "x" /\ call = "flush") \/ (src = "buf" /\ call = "putflush")
      <4>1. /\ call' = "none" /\ rc' = 0 /\ src' = "none" /\ at' = 0 /\ left' = 0 /\ len' = 0
            /\ x' = x /\ p' = p
        BY <2>1, <3>6 DEF Continue, Return
      <4>2. OutInv'
        BY <1>1, <1>7, <3>1, <4>1, BufferOutAssumption DEF OutInv, OutTypeOK, WritesStayInBuffer
      <4>3. Unwritten = r  BY <1>1, <1>3, <1>9, <3>6 DEF OutInv
      <4> QED  BY <1>1, <1>9, <4>1, <4>2, <4>3 DEF Unwritten
    <3> QED  BY <1>1, <3>2, <3>3, <3>4, <3>5, <3>6 DEF OutInv, Calls
  <2> QED  BY <1>2, <1>3, <1>6, <2>2
<1>10. r < left \/ r = left  BY <1>1
<1> QED  BY <1>8, <1>9, <1>10, Zenon

\* A failing write leaves nothing to write.
LEMMA WriteFailsKeeps ==
  ASSUME OutInv, WriteFails
  PROVE  OutInv' /\ Unwritten' = 0 /\ given' = given /\ fd' = fd
<1>1. /\ call' = "none" /\ rc' = -1 /\ src' = "none" /\ at' = 0 /\ left' = 0 /\ len' = 0
      /\ x' = x /\ p' = p /\ given' = given /\ fd' = fd /\ left > 0
  BY DEF WriteFails, Return
<1>2. p = 0 /\ src # "none"  BY <1>1 DEF OutInv, OutTypeOK, WritesStayInBuffer
<1> QED  BY <1>1, <1>2, BufferOutAssumption DEF OutInv, OutTypeOK, WritesStayInBuffer, Unwritten

-----------------------------------------------------------------------------
(***************************************************************************)
(* Consecutive numbers                                                     *)
(***************************************************************************)
\* the n numbers up to g
UpTo(g, n) == [i \in 1 .. n |-> g - n + i]

\* A function on 1 .. n is a sequence of length n.
LEMMA SeqOfFunction ==
  ASSUME NEW S, NEW n \in Nat, NEW f \in [1 .. n -> S]
  PROVE  f \in Seq(S) /\ Len(f) = n
<1>1. f \in Seq(S)  BY SeqDef
<1>2. Len(f) \in Nat /\ 1 .. Len(f) = 1 .. n  BY <1>1, LenProperties
<1>3. \A k \in Nat : 1 .. k = 1 .. n => k = n
  <2>1. SUFFICES ASSUME NEW k \in Nat, 1 .. k = 1 .. n PROVE k = n  OBVIOUS
  <2>2. k >= 1 => k \in 1 .. n  BY <2>1
  <2>3. n >= 1 => n \in 1 .. k  BY <2>1
  <2> QED  BY <2>2, <2>3
<1> QED  BY <1>1, <1>2, <1>3

\* A concatenation is what has the elements of the one and then those of the other.
LEMMA JoinIs ==
  ASSUME NEW S, NEW s \in Seq(S), NEW t \in Seq(S), NEW u \in Seq(S),
         Len(u) = Len(s) + Len(t),
         \A i \in 1 .. Len(s) : u[i] = s[i],
         \A i \in 1 .. Len(t) : u[Len(s) + i] = t[i]
  PROVE  s \o t = u
<1>1. s \o t \in Seq(S) /\ Len(s \o t) = Len(s) + Len(t)  BY ConcatProperties
<1>2. Len(s) \in Nat /\ Len(t) \in Nat  BY LenProperties
<1>3. ASSUME NEW i \in 1 .. Len(s) + Len(t) PROVE (s \o t)[i] = u[i]
  <2>1. (s \o t)[i] = IF i <= Len(s) THEN s[i] ELSE t[i - Len(s)]  BY ConcatProperties
  <2>2. CASE i <= Len(s)
    <3>1. i \in 1 .. Len(s)  BY <1>2, <2>2
    <3> QED  BY <2>1, <2>2, <3>1
  <2>3. CASE ~(i <= Len(s))
    <3>1. i - Len(s) \in 1 .. Len(t) /\ Len(s) + (i - Len(s)) = i  BY <1>2, <2>3
    <3> QED  BY <2>1, <2>3, <3>1
  <2> QED  BY <2>2, <2>3
<1> QED  BY <1>1, <1>3, SeqEqual

\* A part of a sequence is what has its elements.
LEMMA CutIs ==
  ASSUME NEW S, NEW s \in Seq(S), NEW m \in Nat \ {0}, NEW n \in m - 1 .. Len(s), NEW u \in Seq(S),
         Len(u) = n - m + 1, \A i \in 1 .. Len(u) : u[i] = s[m + i - 1]
  PROVE  SubSeq(s, m, n) = u
<1>1. Len(s) \in Nat  BY LenProperties
<1>2. \A i \in m .. n : s[i] \in S
  <2> SUFFICES ASSUME NEW i \in m .. n PROVE s[i] \in S  OBVIOUS
  <2>1. i \in 1 .. Len(s)  BY <1>1
  <2> QED  BY <2>1, ElementOfSeq
<1>3. m \in Int /\ n \in Int  BY <1>1
<1>4. /\ SubSeq(s, m, n) \in Seq(S)
      /\ Len(SubSeq(s, m, n)) = IF m <= n THEN n - m + 1 ELSE 0
      /\ \A i \in 1 .. n - m + 1 : SubSeq(s, m, n)[i] = s[m + i - 1]
  BY <1>2, <1>3, SubSeqProperties
<1>5. Len(SubSeq(s, m, n)) = Len(u)  BY <1>1, <1>4
<1> QED  BY <1>4, <1>5, SeqEqual

LEMMA UpToSeq ==
  ASSUME NEW g \in Int, NEW n \in Nat
  PROVE  /\ UpTo(g, n) \in Seq(Int) /\ Len(UpTo(g, n)) = n
         /\ \A i \in 1 .. n : UpTo(g, n)[i] = g - n + i
<1>1. UpTo(g, n) \in [1 .. n -> Int]  BY DEF UpTo
<1>2. \A i \in 1 .. n : UpTo(g, n)[i] = g - n + i  BY DEF UpTo
<1> QED  BY <1>1, <1>2, SeqOfFunction

\* Consecutive numbers followed by those after them are consecutive numbers.
LEMMA UpToJoin ==
  ASSUME NEW h \in Nat, NEW n \in Nat, NEW l \in Nat
  PROVE  UpTo(h, n) \o UpTo(h + l, l) = UpTo(h + l, n + l)
<1>1. h \in Int /\ h + l \in Int /\ n + l \in Nat  OBVIOUS
<1>2. PICK s \in Seq(Int) : s = UpTo(h, n) /\ Len(s) = n /\ \A i \in 1 .. n : s[i] = h - n + i
  BY <1>1, UpToSeq
<1>3. PICK t \in Seq(Int) : t = UpTo(h + l, l) /\ Len(t) = l /\ \A i \in 1 .. l : t[i] = h + l - l + i
  BY <1>1, UpToSeq
<1>4. PICK u \in Seq(Int) : /\ u = UpTo(h + l, n + l) /\ Len(u) = n + l
                           /\ \A i \in 1 .. n + l : u[i] = h + l - (n + l) + i
  BY <1>1, UpToSeq
<1>5. \A i \in 1 .. n : u[i] = s[i]  BY <1>2, <1>4
<1>6. \A i \in 1 .. l : u[n + i] = t[i]
  <2> SUFFICES ASSUME NEW i \in 1 .. l PROVE u[n + i] = t[i]  OBVIOUS
  <2>1. n + i \in 1 .. n + l  OBVIOUS
  <2>2. u[n + i] = h + l - (n + l) + (n + i)  BY <1>4, <2>1
  <2> QED  BY <1>3, <2>2
<1>7. s \o t = u
  <2>1. Len(u) = Len(s) + Len(t) /\ \A i \in 1 .. Len(s) : u[i] = s[i]  BY <1>2, <1>3, <1>4, <1>5
  <2>2. \A i \in 1 .. Len(t) : u[Len(s) + i] = t[i]  BY <1>2, <1>3, <1>6
  <2> QED  BY <2>1, <2>2, JoinIs
<1> QED  BY <1>2, <1>3, <1>4, <1>7

\* The beginning and the rest of consecutive numbers.
LEMMA UpToCut ==
  ASSUME NEW g \in Nat, NEW n \in Nat, NEW r \in 0 .. n
  PROVE  /\ SubSeq(UpTo(g, n), 1, r) = [i \in 1 .. r |-> g - n + i]
         /\ SubSeq(UpTo(g, n), r + 1, n) = UpTo(g, n - r)
<1>1. PICK s \in Seq(Int) : s = UpTo(g, n) /\ Len(s) = n /\ \A i \in 1 .. n : s[i] = g - n + i
  BY UpToSeq
<1>2. PICK t \in Seq(Int) : t = UpTo(g - n + r, r) /\ Len(t) = r /\ \A i \in 1 .. r : t[i] = g - n + r - r + i
  <2>1. g - n + r \in Int /\ r \in Nat  OBVIOUS
  <2> QED  BY <2>1, UpToSeq
<1>3. PICK u \in Seq(Int) : u = UpTo(g, n - r) /\ Len(u) = n - r /\ \A i \in 1 .. n - r : u[i] = g - (n - r) + i
  <2>1. n - r \in Nat  OBVIOUS
  <2> QED  BY <2>1, UpToSeq
<1>4. t = [i \in 1 .. r |-> g - n + i]
  <2>1. \A i \in 1 .. r : g - n + r - r + i = g - n + i  OBVIOUS
  <2> QED  BY <1>2, <2>1 DEF UpTo
<1>5. SubSeq(s, 1, r) = t
  <2>1. \A i \in 1 .. Len(t) : t[i] = s[1 + i - 1]  BY <1>1, <1>2
  <2>2. 1 \in Nat \ {0} /\ r \in 1 - 1 .. Len(s) /\ Len(t) = r - 1 + 1  BY <1>1, <1>2
  <2> QED  BY <2>1, <2>2, CutIs
<1>6. SubSeq(s, r + 1, n) = u
  <2>1. \A i \in 1 .. Len(u) : u[i] = s[r + 1 + i - 1]  BY <1>1, <1>3
  <2>2. r + 1 \in Nat \ {0} /\ n \in r + 1 - 1 .. Len(s) /\ Len(u) = n - (r + 1) + 1  BY <1>1, <1>3
  <2> QED  BY <2>1, <2>2, CutIs
<1> QED  BY <1>1, <1>3, <1>4, <1>5, <1>6

-----------------------------------------------------------------------------
(***************************************************************************)
(* The write buffer is a queue                                             *)
(***************************************************************************)
\* What is in flight, held and to come are the bytes given last.
LEMMA QueueIs == OutInv => InFlight \o Held \o Rest = UpTo(given, Unwritten)
<1> SUFFICES ASSUME OutInv PROVE InFlight \o Held \o Rest = UpTo(given, Unwritten)  OBVIOUS
<1>1. /\ given \in Nat /\ len \in 0 .. given /\ at \in Nat /\ left \in Nat /\ p \in Nat
      /\ src \in {"x", "buf", "none"}
      /\ src = "none" => len = 0
      /\ src = "x" => p = 0
      /\ src = "buf" => p = 0 /\ at + left <= len
  BY BufferOutAssumption DEF OutInv, OutTypeOK, WritesStayInBuffer
<1>2. Rest = UpTo(given, IF src = "buf" THEN len - at ELSE len)
  <2>1. CASE src = "buf"
    <3>1. Rest = [i \in 1 .. len - at |-> given - len + (at + i)]  BY <2>1 DEF Rest, Arg
    <3>2. \A i \in 1 .. len - at : given - len + (at + i) = given - (len - at) + i  BY <1>1
    <3> QED  BY <2>1, <3>1, <3>2 DEF UpTo
  <2>2. CASE src # "buf"
    <3>1. Rest = [i \in 1 .. len - 0 |-> given - len + (0 + i)]  BY <2>2 DEF Rest, Arg
    <3>2. len - 0 = len /\ \A i \in 1 .. len : given - len + (0 + i) = given - len + i  BY <1>1
    <3> QED  BY <2>2, <3>1, <3>2 DEF UpTo
  <2> QED  BY <2>1, <2>2
<1>3. InFlight = UpTo(given - len, IF src = "x" THEN left ELSE 0)
  <2>1. CASE src = "x"
    BY <2>1 DEF InFlight, OutInv, UpTo
  <2>2. CASE src # "x"
    BY <2>2 DEF InFlight, UpTo
  <2> QED  BY <2>1, <2>2
<1>4. Held = UpTo(given - len, IF src = "none" THEN p ELSE 0)
  <2>1. CASE src = "none"
    BY <1>1, <2>1 DEF Held, OutInv, UpTo
  <2>2. CASE src # "none"
    BY <1>1, <2>2 DEF Held, UpTo
  <2> QED  BY <2>1, <2>2
<1>5. PICK h \in Nat : h = given - len /\ h + len = given /\ h \in Int  BY <1>1
<1>6. UpTo(h, 0) = <<>>  BY DEF UpTo
<1>7. CASE src = "x" \/ src = "none"
  <2>1. PICK m \in Nat : m = (IF src = "x" THEN left ELSE p) /\ Unwritten = m + len
    BY <1>1, <1>7 DEF Unwritten
  <2>2. UpTo(h, m) \in Seq(Int)  BY <1>5, UpToSeq
  <2>3. \/ InFlight = UpTo(h, m) /\ Held = <<>>
        \/ InFlight = <<>> /\ Held = UpTo(h, m)
    BY <1>3, <1>4, <1>5, <1>6, <1>7, <2>1
  <2>4. InFlight \o Held = UpTo(h, m)  BY <2>2, <2>3, ConcatEmptySeq
  <2>5. Rest = UpTo(given, len)  BY <1>2, <1>7
  <2>6. UpTo(h, m) \o UpTo(h + len, len) = UpTo(h + len, m + len)
    <3>1. len \in Nat  BY <1>1
    <3> QED  BY <3>1, UpToJoin
  <2> QED  BY <1>5, <2>1, <2>4, <2>5, <2>6
<1>8. CASE src = "buf"
  <2>1. Held = <<>> /\ InFlight = <<>> /\ Rest = UpTo(given, Unwritten) /\ Unwritten \in Nat /\ given \in Int
    BY <1>1, <1>2, <1>3, <1>4, <1>5, <1>6, <1>8 DEF Unwritten
  <2>2. UpTo(given, Unwritten) \in Seq(Int) /\ <<>> \in Seq(Int)  BY <1>1, <2>1, UpToSeq, EmptySeq
  <2>3. <<>> \o <<>> = <<>> /\ <<>> \o UpTo(given, Unwritten) = UpTo(given, Unwritten)
    BY <2>2, ConcatEmptySeq
  <2> QED  BY <2>1, <2>3
<1> QED  BY <1>1, <1>7, <1>8

-----------------------------------------------------------------------------
(***************************************************************************)
(* The read buffer                                                         *)
(***************************************************************************)
\* a read buffer whose bytes end the space and are consecutive, the last of them last
Holds(b, last) ==
  /\ b.x \in [0 .. RSize - 1 -> Nat] /\ b.p \in 0 .. RSize /\ b.n \in 0 .. RSize
  /\ b.p + b.n = RSize /\ last \in Nat /\ b.p <= last
  /\ \A i \in 1 .. b.p : b.x[b.n + i - 1] = last - b.p + i

\* What holds between the calls on a read buffer: the caller has got the first bytes
\* of the input, and the buffer holds those that follow.
InInv ==
  /\ Holds(Struct, taken) /\ taken \in 0 .. Input /\ ret \in Int
  /\ got = UpTo(taken - rp, taken - rp)

\* Bytes from a buffer are consecutive.
LEMMA BytesAre ==
  ASSUME NEW b, NEW last, Holds(b, last), NEW k \in 0 .. b.p
  PROVE  Bytes(b, k) = UpTo(last - b.p + k, k)
<1>1. b.p \in Nat /\ last \in Nat /\ k \in Nat  BY BufferInAssumption DEF Holds
<1>2. \A i \in 1 .. k : b.x[b.n + i - 1] = last - b.p + i  BY <1>1 DEF Holds
<1>3. \A i \in 1 .. k : last - b.p + i = last - b.p + k - k + i  BY <1>1
<1> QED  BY <1>1, <1>2, <1>3 DEF Bytes, UpTo

\* Seeking past bytes leaves those that follow.
LEMMA SeekHolds ==
  ASSUME NEW b, NEW last, Holds(b, last), NEW k \in 0 .. b.p
  PROVE  Holds(Seek(b, k), last)
<1>1. PICK q \in 0 .. RSize, m \in 0 .. RSize, y \in [0 .. RSize - 1 -> Nat] :
        /\ q = b.p /\ m = b.n /\ y = b.x /\ q + m = RSize /\ q <= last /\ k \in 0 .. q /\ last \in Nat
        /\ \A i \in 1 .. q : y[m + i - 1] = last - q + i
  BY DEF Holds
<1>2. Seek(b, k).x = y /\ Seek(b, k).p = q - k /\ Seek(b, k).n = m + k  BY <1>1 DEF Seek
<1>3. /\ RSize \in Nat \ {0} /\ q \in Nat /\ m \in Nat /\ k \in Nat /\ last \in Nat
      /\ q + m = RSize /\ q <= last /\ k <= q
  BY <1>1, BufferInAssumption
<1>4. ASSUME NEW i \in 1 .. q - k PROVE y[m + k + i - 1] = last - (q - k) + i
  <2>1. k + i \in 1 .. q /\ m + k + i - 1 = m + (k + i) - 1  BY <1>3
  <2>2. y[m + (k + i) - 1] = last - q + (k + i)  BY <1>1, <2>1
  <2>3. last - q + (k + i) = last - (q - k) + i  BY <1>3
  <2> QED  BY <2>1, <2>2, <2>3
<1>5. q - k \in 0 .. RSize /\ m + k \in 0 .. RSize /\ q - k + (m + k) = RSize /\ q - k <= last
  BY <1>3
<1> QED  BY <1>1, <1>2, <1>4, <1>5 DEF Holds

\* A read into the empty buffer fills it from its beginning, and what it has read is
\* moved to its end without loss.
LEMMA FedHolds ==
  ASSUME Holds(Struct, taken), rp = 0, NEW r \in 1 .. rn
  PROVE  Holds(Fed(Struct, r), taken + r) /\ Fed(Struct, r).p = r
<1>1. rx \in [0 .. RSize - 1 -> Nat] /\ rn = RSize /\ RSize \in Nat \ {0} /\ taken \in Nat /\ r \in 1 .. RSize
  BY BufferInAssumption DEF Holds, Struct
<1>2. PICK n \in Nat : n = rn - r /\ n + r = RSize  BY <1>1
<1>3. PICK y \in [0 .. RSize - 1 -> Nat] :
        /\ y = [i \in 0 .. RSize - 1 |-> IF i < r THEN taken + i + 1 ELSE rx[i]]
        /\ \A i \in 0 .. r - 1 : y[i] = taken + i + 1
  <2> DEFINE w == [i \in 0 .. RSize - 1 |-> IF i < r THEN taken + i + 1 ELSE rx[i]]
  <2>1. w \in [0 .. RSize - 1 -> Nat]  BY <1>1
  <2>2. \A i \in 0 .. r - 1 : w[i] = taken + i + 1  BY <1>1
  <2> QED  BY <2>1, <2>2
<1>4. /\ Fed(Struct, r).x = (IF n > 0 THEN MovedUp(y, n, r) ELSE y)
      /\ Fed(Struct, r).p = r /\ Fed(Struct, r).n = n
  BY <1>2, <1>3 DEF Fed, Struct
<1>5. PICK z \in [0 .. RSize - 1 -> Nat] :
        z = Fed(Struct, r).x /\ \A i \in 1 .. r : z[n + i - 1] = y[i - 1]
  <2>1. CASE n = 0
    <3>1. \A i \in 1 .. r : n + i - 1 = i - 1  BY <2>1
    <3>2. \A i \in 1 .. r : y[n + i - 1] = y[i - 1]  BY <3>1
    <3>3. Fed(Struct, r).x = y  BY <1>4, <2>1
    <3> QED  BY <3>2, <3>3
  <2>2. CASE n > 0
    <3>1. Fed(Struct, r).x = MovedUp(y, n, r)  BY <1>4, <2>2
    <3>2. ASSUME NEW j \in 0 .. RSize - 1
          PROVE  (IF j \in n .. n + r - 1 THEN y[j - n] ELSE y[j]) \in Nat
      <4>1. j \in n .. n + r - 1 => j - n \in 0 .. RSize - 1  BY <1>1, <1>2
      <4> QED  BY <1>3, <4>1
    <3>3. MovedUp(y, n, r) \in [0 .. RSize - 1 -> Nat]  BY <3>2 DEF MovedUp
    <3>4. ASSUME NEW i \in 1 .. r PROVE MovedUp(y, n, r)[n + i - 1] = y[i - 1]
      <4>1. n + i - 1 \in 0 .. RSize - 1 /\ n + i - 1 \in n .. n + r - 1 /\ n + i - 1 - n = i - 1
        BY <1>1, <1>2
      <4> QED  BY <4>1 DEF MovedUp
    <3> QED  BY <3>1, <3>3, <3>4
  <2>3. n = 0 \/ n > 0  BY <1>2
  <2> QED  BY <2>1, <2>2, <2>3, Zenon
<1>6. \A i \in 1 .. r : z[n + i - 1] = taken + r - r + i
  <2> SUFFICES ASSUME NEW i \in 1 .. r PROVE z[n + i - 1] = taken + r - r + i  OBVIOUS
  <2>1. i - 1 \in 0 .. r - 1  BY <1>1
  <2>2. y[i - 1] = taken + (i - 1) + 1  BY <1>3, <2>1
  <2>3. taken + (i - 1) + 1 = taken + r - r + i  BY <1>1
  <2>4. z[n + i - 1] = y[i - 1]  BY <1>5
  <2> QED  BY <2>2, <2>3, <2>4
<1>7. r \in 0 .. RSize /\ n \in 0 .. RSize /\ r + n = RSize /\ taken + r \in Nat /\ r <= taken + r
  BY <1>1, <1>2
<1> QED  BY <1>4, <1>5, <1>6, <1>7 DEF Holds

\* getthis hands over the next bytes and keeps those that follow.
LEMMA HandsOver ==
  ASSUME NEW b, NEW last \in 0 .. Input, Holds(b, last), NEW k \in 0 .. b.p,
         got = UpTo(last - b.p, last - b.p), taken' = last, ret' \in Int,
         got' = got \o Bytes(b, k), SetStruct(Seek(b, k))
  PROVE  InInv'
<1>1. Struct' = Seek(b, k)  BY DEF SetStruct, Struct, Seek
<1>2. Holds(Struct', last)  BY <1>1, SeekHolds
<1>3. PICK h \in Nat : h = last - b.p  BY DEF Holds
<1>4. got' = UpTo(h, h) \o UpTo(h + k, k)  BY <1>3, BytesAre
<1>5. k \in Nat  BY DEF Holds
<1>6. got' = UpTo(h + k, h + k)  BY <1>4, <1>5, UpToJoin
<1>7. taken' - rp' = h + k  BY <1>3 DEF SetStruct, Seek, Holds
<1> QED  BY <1>1, <1>2, <1>6, <1>7 DEF InInv, Holds

\* what a read may return
LEMMA OutcomesAre ==
  ASSUME InInv, NEW k \in Nat, NEW r \in Outcomes(k)
  PROVE  /\ r \in Int /\ (r > 0 => r \in 1 .. k /\ taken + r \in 0 .. Input)
         /\ (r <= 0 => r = -1 \/ (r = 0 /\ (k = 0 \/ taken = Input)))
BY BufferInAssumption DEF InInv, Outcomes

\* the struct of a read buffer, its bytes as numbers
LEMMA InFacts ==
  ASSUME InInv
  PROVE  /\ rp \in 0 .. RSize /\ rn \in 0 .. RSize /\ rp + rn = RSize /\ RSize \in Nat \ {0} /\ rp <= taken
         /\ taken \in Nat /\ Struct.p = rp /\ Struct.n = rn /\ Struct.x = rx
         /\ rx \in [0 .. RSize - 1 -> Nat]
BY BufferInAssumption DEF InInv, Holds, Struct

\* buffer_feed
LEMMA FeedKeeps ==
  ASSUME InInv, Feed
  PROVE  InInv'
<1>1. CASE FeedHeld
  BY <1>1, InFacts DEF FeedHeld, InInv, Holds, Struct
<1>2. CASE FeedEmpty
  <2>1. PICK r \in Outcomes(rn) :
          /\ ret' = r /\ rp = 0 /\ got' = got
          /\ IF r <= 0 THEN UNCHANGED <<rx, rp, rn, taken>>
             ELSE SetStruct(Fed(Struct, r)) /\ taken' = taken + r
    BY <1>2 DEF FeedEmpty
  <2>2. rn \in Nat  BY InFacts
  <2>3. CASE r <= 0
    BY <2>1, <2>2, <2>3, OutcomesAre DEF InInv, Holds, Struct
  <2>4. CASE ~(r <= 0)
    <3>1. r \in 1 .. rn /\ taken + r \in 0 .. Input /\ r \in Int  BY <2>2, <2>4, OutcomesAre
    <3>2. Holds(Fed(Struct, r), taken + r) /\ Fed(Struct, r).p = r  BY <2>1, <3>1, FedHolds DEF InInv
    <3>3. Struct' = Fed(Struct, r)  BY <2>1, <2>4 DEF SetStruct, Struct, Fed
    <3>4. taken' = taken + r /\ rp' = r /\ taken' - rp' = taken - rp
      BY <2>1, <2>4, <3>1, <3>2, InFacts DEF SetStruct
    <3> QED  BY <2>1, <3>1, <3>2, <3>3, <3>4 DEF InInv
  <2> QED  BY <2>3, <2>4
<1> QED  BY <1>1, <1>2 DEF Feed

\* buffer_seek over bytes that the caller has taken from buffer_peek
LEMMA PeekSeekKeeps ==
  ASSUME InInv, NEW k, PeekSeek(k)
  PROVE  InInv'
<1>1. /\ Holds(Struct, taken) /\ taken \in 0 .. Input /\ k \in 0 .. Struct.p /\ taken' = taken /\ ret' \in Int
      /\ got = UpTo(taken - Struct.p, taken - Struct.p)
      /\ got' = got \o Bytes(Struct, k) /\ SetStruct(Seek(Struct, k))
  BY InFacts DEF InInv, PeekSeek
<1> QED  BY <1>1, HandsOver

\* a read into the caller's space
LEMMA GetDirectKeeps ==
  ASSUME InInv, rp = 0, NEW k \in Nat, GetDirect(k)
  PROVE  InInv' /\ (ret' = 0 => k = 0 \/ taken' = Input)
<1>1. PICK r \in Outcomes(k) :
        /\ ret' = r /\ rx' = rx /\ rp' = rp /\ rn' = rn
        /\ IF r <= 0 THEN UNCHANGED <<taken, got>> ELSE got' = got \o Fresh(r) /\ taken' = taken + r
  BY DEF GetDirect
<1>2. CASE r <= 0
  <2>1. r \in Int /\ taken' = taken /\ (r = 0 => k = 0 \/ taken = Input)  BY <1>1, <1>2, OutcomesAre
  <2> QED  BY <1>1, <1>2, <2>1 DEF InInv, Holds, Struct
<1>3. CASE ~(r <= 0)
  <2>1. r \in Int /\ r > 0 /\ r \in Nat /\ taken + r \in 0 .. Input  BY <1>3, OutcomesAre
  <2>2. taken \in Nat /\ taken - rp = taken  BY InFacts
  <2>3. Fresh(r) = UpTo(taken + r, r)
    <3>1. \A i \in 1 .. r : taken + i = taken + r - r + i  BY <2>1, <2>2
    <3> QED  BY <2>1, <2>2, <3>1 DEF Fresh, UpTo
  <2>4. got' = UpTo(taken + r, taken + r)
    <3>1. got = UpTo(taken, taken)  BY <2>2 DEF InInv
    <3>2. got' = UpTo(taken, taken) \o UpTo(taken + r, r)  BY <1>1, <1>3, <2>3, <3>1
    <3> QED  BY <2>1, <2>2, <3>2, UpToJoin
  <2>5. Holds(Struct', taken + r)
    <3>1. Struct' = Struct  BY <1>1 DEF Struct
    <3> QED  BY <2>1, <2>2, <3>1, InFacts DEF InInv, Holds
  <2>6. taken' = taken + r /\ taken' - rp' = taken + r  BY <1>1, <1>3, <2>1, <2>2
  <2> QED  BY <1>1, <2>1, <2>4, <2>5, <2>6 DEF InInv
<1> QED  BY <1>2, <1>3

\* a read through the buffer
LEMMA GetFedKeeps ==
  ASSUME InInv, rp = 0, NEW k \in Nat, GetFed(k)
  PROVE  InInv' /\ (ret' = 0 => k = 0 \/ taken' = Input)
<1>1. PICK r \in Outcomes(rn) :
        IF r <= 0 THEN ret' = r /\ UNCHANGED <<rx, rp, rn, taken, got>>
        ELSE GetThis(Fed(Struct, r), k) /\ taken' = taken + r
  BY DEF GetFed
<1>2. rn \in Nat /\ rn > 0 /\ taken \in Nat  BY InFacts
<1>3. CASE r <= 0
  <2>1. r \in Int /\ taken' = taken /\ (r = 0 => taken = Input)  BY <1>1, <1>2, <1>3, OutcomesAre
  <2> QED  BY <1>1, <1>3, <2>1 DEF InInv, Holds, Struct
<1>4. CASE ~(r <= 0)
  <2>1. r \in 1 .. rn /\ taken + r \in 0 .. Input /\ r \in Int  BY <1>2, <1>4, OutcomesAre
  <2>2. PICK t, b : t \in 0 .. Input /\ t = taken + r /\ b = Fed(Struct, r) /\ Holds(b, t) /\ b.p = r
    BY <1>2, <2>1, FedHolds DEF InInv
  <2>3. PICK c : c = Count(b, k) /\ c \in 0 .. b.p /\ c \in Int /\ (c = 0 => k = 0)
    <3>1. Count(b, k) \in 0 .. r /\ (Count(b, k) = 0 => k = 0)  BY <2>1, <2>2 DEF Count
    <3> QED  BY <2>2, <3>1
  <2>4. got' = got \o Bytes(b, c) /\ SetStruct(Seek(b, c)) /\ ret' = c /\ taken' = t
    BY <1>1, <1>4, <2>2, <2>3 DEF GetThis
  <2>5. got = UpTo(t - b.p, t - b.p)
    <3>1. taken - rp = taken /\ t - b.p = taken  BY <1>2, <2>1, <2>2
    <3> QED  BY <3>1 DEF InInv
  <2>6. InInv'
    <3>1. taken' = t /\ ret' \in Int /\ got' = got \o Bytes(b, c) /\ SetStruct(Seek(b, c))  BY <2>3, <2>4
    <3> QED  BY <2>2, <2>3, <2>5, <3>1, HandsOver
  <2> QED  BY <2>3, <2>4, <2>6
<1> QED  BY <1>3, <1>4

\* buffer_get and buffer_bget give the next bytes, and 0 only at the end of the input.
LEMMA GetKeeps ==
  ASSUME InInv, NEW k \in Nat, Get(k) \/ BGet(k)
  PROVE  InInv' /\ (ret' = 0 => k = 0 \/ (taken' = Input /\ rp' = 0))
<1>1. CASE GetHeld(k)
  <2>1. PICK c : c = Count(Struct, k) /\ c \in 0 .. Struct.p /\ c \in Int /\ (c = 0 => k = 0)
    <3>1. Count(Struct, k) \in 0 .. rp /\ (Count(Struct, k) = 0 => k = 0)
      BY <1>1, InFacts DEF Count, GetHeld
    <3> QED  BY <3>1, InFacts
  <2>2. /\ Holds(Struct, taken) /\ taken \in 0 .. Input /\ taken' = taken /\ ret' = c
        /\ got = UpTo(taken - Struct.p, taken - Struct.p)
        /\ got' = got \o Bytes(Struct, c) /\ SetStruct(Seek(Struct, c))
    BY <1>1, <2>1, InFacts DEF InInv, GetHeld, GetThis
  <2> QED  BY <2>1, <2>2, HandsOver
<1>2. CASE rp = 0 /\ \E n \in Nat : (n = 0 => k = 0) /\ GetDirect(n)
  <2>1. PICK n \in Nat : (n = 0 => k = 0) /\ GetDirect(n)  BY <1>2
  <2>2. InInv' /\ (ret' = 0 => n = 0 \/ taken' = Input) /\ rp' = rp
    BY <1>2, <2>1, GetDirectKeeps DEF GetDirect
  <2> QED  BY <1>2, <2>1, <2>2
<1>3. CASE rp = 0 /\ GetFed(k)
  <2>1. InInv' /\ (ret' = 0 => k = 0 \/ taken' = Input)  BY <1>3, GetFedKeeps
  <2>2. ret' = 0 /\ k # 0 => rp' = 0
    <3> SUFFICES ASSUME ret' = 0, k # 0 PROVE rp' = 0  OBVIOUS
    <3>1. PICK r \in Outcomes(rn) :
            IF r <= 0 THEN ret' = r /\ UNCHANGED <<rx, rp, rn, taken, got>>
            ELSE GetThis(Fed(Struct, r), k) /\ taken' = taken + r
      BY <1>3 DEF GetFed
    <3>2. rn \in Nat  BY InFacts
    <3>3. r > 0 => Count(Fed(Struct, r), k) # 0
      BY <3>2, OutcomesAre DEF Count, Fed
    <3>4. r \in Int  BY <3>2, OutcomesAre
    <3> QED  BY <1>3, <3>1, <3>3, <3>4 DEF GetThis
  <2> QED  BY <2>1, <2>2
<1>4. GetHeld(k) \/ (rp = 0 /\ GetDirect(k)) \/ (rp = 0 /\ GetDirect(rn)) \/ (rp = 0 /\ GetFed(k))
  BY DEF Get, BGet, GetEmpty, BGetEmpty
<1>5. rp = 0 => rn \in Nat /\ rn # 0  BY InFacts
<1> QED  BY <1>1, <1>2, <1>3, <1>4, <1>5

-----------------------------------------------------------------------------
(***************************************************************************)
(* The lines                                                               *)
(***************************************************************************)
\* The bytes of a buffer, one by one.
LEMMA BytesOf ==
  ASSUME NEW b, NEW last, Holds(b, last), NEW k \in 0 .. b.p
  PROVE  /\ Bytes(b, k) \in Seq(Int) /\ Len(Bytes(b, k)) = k
         /\ \A i \in 1 .. k : Bytes(b, k)[i] = b.x[b.n + i - 1]
<1>1. k \in Nat /\ last - b.p + k \in Int  BY BufferInAssumption DEF Holds
<1>2. Bytes(b, k) = UpTo(last - b.p + k, k)  BY BytesAre
<1>3. Bytes(b, k) \in Seq(Int) /\ Len(Bytes(b, k)) = k  BY <1>1, <1>2, UpToSeq
<1> QED  BY <1>3 DEF Bytes

\* byte_chr finds the first separator among the bytes held, or none.
LEMMA ChrIs ==
  ASSUME NEW b, NEW last, Holds(b, last)
  PROVE  /\ Chr(b) \in 0 .. b.p
         /\ \A i \in 1 .. Chr(b) : b.x[b.n + i - 1] \notin Seps
         /\ Chr(b) < b.p => b.x[b.n + (Chr(b) + 1) - 1] \in Seps
<1> DEFINE seps == {i \in 1 .. b.p : Bytes(b, b.p)[i] \in Seps}
<1>1. b.p \in Nat  BY BufferInAssumption DEF Holds
<1>2. \A i \in 1 .. b.p : Bytes(b, b.p)[i] = b.x[b.n + i - 1]  BY <1>1 DEF Bytes
<1>3. CASE seps = {}
  <2>1. Chr(b) = b.p  BY <1>3 DEF Chr
  <2> QED  BY <1>1, <1>2, <1>3, <2>1
<1>4. CASE seps # {}
  <2>1. PICK m \in seps : m = CHOOSE i \in seps : \A j \in seps : i <= j
    <3>1. seps \in SUBSET Nat  BY <1>1
    <3> HIDE DEF seps
    <3>2. \E i \in seps : \A j \in seps : i <= j  BY <1>4, <3>1, LeastNat
    <3> QED  BY <3>2
  <2>2. \A j \in seps : m <= j
    <3>1. seps \in SUBSET Nat  BY <1>1
    <3> HIDE DEF seps
    <3>2. \E i \in seps : \A j \in seps : i <= j  BY <1>4, <3>1, LeastNat
    <3> QED  BY <2>1, <3>2
  <2>3. Chr(b) = m - 1  BY <1>4, <2>1 DEF Chr
  <2>4. m \in 1 .. b.p /\ b.x[b.n + m - 1] \in Seps  BY <1>2
  <2>5. m - 1 \in 0 .. b.p /\ m - 1 + 1 = m  BY <1>1, <2>4
  <2>6. ASSUME NEW i \in 1 .. m - 1 PROVE b.x[b.n + i - 1] \notin Seps
    <3>1. i \in 1 .. b.p /\ ~ (m <= i)  BY <1>1, <2>4
    <3>2. i \notin seps  BY <2>2, <3>1
    <3> QED  BY <1>2, <3>1, <3>2
  <2> HIDE DEF seps
  <2> QED  BY <2>3, <2>4, <2>5, <2>6
<1> QED  BY <1>3, <1>4

\* a line, or part of one, without a separator
NoSep(s) == \A i \in 1 .. Len(s) : s[i] \notin Seps

\* a line returned with match m, as LineShape wants it
WellCut(line, m) ==
  IF m = 1 THEN {i \in DOMAIN line : line[i] \in Seps} = {Len(line)}
  ELSE {i \in DOMAIN line : line[i] \in Seps} = {} /\ got = UpTo(Input, Input)

\* What holds between the steps of getln: the lines and the line gathered are what was
\* got, and as yet there is no separator in the latter.
LineGood ==
  /\ code = 0 /\ sa \in Seq(Int) /\ lines \in Seq(Seq(Int)) /\ FlattenSeq(lines) \in Seq(Int)
  /\ FlattenSeq(lines) \o (IF inside THEN sa ELSE <<>>) = got
  /\ inside => NoSep(sa)
  /\ ~inside /\ lines # <<>> => WellCut(lines[Len(lines)], match)

LineInv == InInv /\ (~broken => LineGood)

\* A part without a separator, continued.
LEMMA Continued ==
  ASSUME NEW s \in Seq(Int), NoSep(s), NEW t \in Seq(Int), NEW k \in Nat,
         k <= Len(t), \A i \in 1 .. k : t[i] \notin Seps
  PROVE  /\ s \o t \in Seq(Int) /\ Len(s \o t) = Len(s) + Len(t)
         /\ \A i \in 1 .. Len(s) + k : (s \o t)[i] \notin Seps
         /\ \A i \in 1 .. Len(t) : (s \o t)[Len(s) + i] = t[i]
<1>1. s \o t \in Seq(Int) /\ Len(s \o t) = Len(s) + Len(t)  BY ConcatProperties
<1>2. Len(s) \in Nat /\ Len(t) \in Nat  BY LenProperties
<1>3. ASSUME NEW i \in 1 .. Len(s) + k PROVE (s \o t)[i] \notin Seps
  <2>1. i \in 1 .. Len(s) + Len(t)  BY <1>2
  <2>2. (s \o t)[i] = IF i <= Len(s) THEN s[i] ELSE t[i - Len(s)]  BY <2>1, ConcatProperties
  <2>3. CASE i <= Len(s)
    <3>1. i \in 1 .. Len(s)  BY <1>2, <2>3
    <3> QED  BY <2>2, <2>3, <3>1 DEF NoSep
  <2>4. CASE ~(i <= Len(s))
    <3>1. i - Len(s) \in 1 .. k  BY <1>2, <2>4
    <3> QED  BY <2>2, <2>4, <3>1
  <2> QED  BY <2>3, <2>4
<1>4. ASSUME NEW i \in 1 .. Len(t) PROVE (s \o t)[Len(s) + i] = t[i]
  <2>1. Len(s) + i \in 1 .. Len(s) + Len(t) /\ ~(Len(s) + i <= Len(s)) /\ Len(s) + i - Len(s) = i  BY <1>2
  <2>2. (s \o t)[Len(s) + i] = IF Len(s) + i <= Len(s) THEN s[Len(s) + i] ELSE t[Len(s) + i - Len(s)]
    BY <2>1, ConcatProperties
  <2> QED  BY <2>1, <2>2
<1> QED  BY <1>1, <1>3, <1>4

\* A line returned joins the lines before it.
LEMMA MatchedKeeps ==
  ASSUME LineGood, NEW m, NEW line \in Seq(Int), Matched(m, line),
         FlattenSeq(lines) \o line = got', got' \in Seq(Int), WellCut(line, m)'
  PROVE  LineGood'
<1>1. /\ inside' = FALSE /\ code' = 0 /\ match' = m /\ sa' = line /\ lines' = Append(lines, line)
  BY DEF Matched
<1>2. FlattenSeq(lines') = got'  BY <1>1, FlattenAppend DEF LineGood
<1>3. /\ lines' \in Seq(Seq(Int)) /\ Len(lines') = Len(lines) + 1 /\ lines'[Len(lines) + 1] = line
  BY <1>1, AppendProperties DEF LineGood
<1>4. lines'[Len(lines')] = line  BY <1>3
<1>5. FlattenSeq(lines') \o <<>> = got'  BY <1>2, ConcatEmptySeq
<1> QED  BY <1>1, <1>2, <1>3, <1>4, <1>5 DEF LineGood, WellCut

LEMMA BeginKeeps ==
  ASSUME LineInv, Begin
  PROVE  LineInv'
<1>1. InInv'  BY DEF LineInv, Begin, InInv, invars, Struct, Holds
<1>2. got' = got  BY DEF Begin, invars
<1>3. CASE Fail
  BY <1>1, <1>3 DEF LineInv, Fail
<1>4. CASE inside' = TRUE /\ sa' = <<>> /\ UNCHANGED <<match, code, lines, broken>>
  <2>1. <<>> \in Seq(Int) /\ Len(<<>>) = 0  BY EmptySeq
  <2>2. ~broken => LineGood'
    BY <1>2, <1>4, <2>1 DEF LineInv, LineGood, NoSep, Begin
  <2> QED  BY <1>1, <1>4, <2>2 DEF LineInv
<1> QED  BY <1>3, <1>4 DEF Begin

LEMMA RefillKeeps ==
  ASSUME LineInv, Refill
  PROVE  LineInv'
<1>1. InInv' /\ got' = got /\ InInv
  BY FeedKeeps DEF LineInv, Refill, Feed, FeedEmpty
<1>2. CASE ret' > 0 /\ UNCHANGED <<inside, sa, match, code, lines, broken>>
  BY <1>1, <1>2 DEF LineInv, LineGood, Refill, NoSep
<1>3. CASE ret' = 0 /\ Matched(0, sa)
  <2>1. broken' = broken  BY <1>3 DEF Matched
  <2> SUFFICES ASSUME ~broken PROVE LineGood'  BY <1>1, <2>1 DEF LineInv
  <2>2. PICK s \in Seq(Int) : s = sa /\ NoSep(s) /\ FlattenSeq(lines) \o s = got
    BY DEF LineInv, LineGood, Refill
  <2>3. taken = Input /\ taken \in Nat /\ rp = 0
    <3>1. PICK r \in Outcomes(rn) : ret' = r  BY DEF Refill, FeedEmpty
    <3>2. rn \in Nat /\ rn # 0 /\ rp = 0  BY <1>1, InFacts DEF Refill
    <3>3. r = -1 \/ taken = Input
      <4>1. r <= 0  BY <1>3, <3>1
      <4> QED  BY <1>1, <3>2, <4>1, OutcomesAre
    <3> QED  BY <1>1, <1>3, <3>1, <3>2, <3>3, InFacts
  <2>4. got = UpTo(Input, Input) /\ got \in Seq(Int)
    <3>1. taken - rp = Input /\ Input \in Nat /\ Input \in Int  BY <2>3
    <3>2. got = UpTo(Input, Input)  BY <1>1, <3>1 DEF InInv
    <3> QED  BY <3>1, <3>2, UpToSeq
  <2>5. {i \in DOMAIN s : s[i] \in Seps} = {}
    <3>1. DOMAIN s = 1 .. Len(s)  BY LenProperties
    <3> QED  BY <2>2, <3>1 DEF NoSep
  <2>6. WellCut(s, 0)'  BY <1>1, <2>4, <2>5 DEF WellCut
  <2>7. LineGood /\ Matched(0, s) /\ FlattenSeq(lines) \o s = got' /\ got' \in Seq(Int)
    BY <1>1, <1>3, <2>2, <2>4 DEF LineInv
  <2> QED  BY <2>6, <2>7, MatchedKeeps
<1>4. CASE ret' = -1 /\ Fail
  BY <1>1, <1>4 DEF LineInv, Fail
<1> QED  BY <1>2, <1>3, <1>4 DEF Refill

LEMMA CompleteKeeps ==
  ASSUME LineInv, Complete
  PROVE  LineInv'
<1>1. InInv' /\ InInv  BY PeekSeekKeeps DEF LineInv, Complete
<1>2. CASE Fail
  BY <1>1, <1>2 DEF LineInv, Fail
<1>3. CASE Matched(1, sa \o Bytes(Struct, Chr(Struct) + 1))
  <2>1. broken' = broken  BY <1>3 DEF Matched
  <2> SUFFICES ASSUME ~broken PROVE LineGood'  BY <1>1, <2>1 DEF LineInv
  <2>2. PICK s \in Seq(Int) : s = sa /\ NoSep(s) /\ FlattenSeq(lines) \o s = got
    BY DEF LineInv, LineGood, Complete
  <2>3. PICK b, last : b = Struct /\ Holds(b, last) /\ Chr(b) < b.p /\ b.p = rp
    BY <1>1, InFacts DEF InInv, Complete
  <2>4. PICK c \in Nat : c = Chr(b) /\ c + 1 \in 0 .. b.p
    <3>1. Chr(b) \in 0 .. b.p /\ b.p \in Nat  BY <1>1, <2>3, ChrIs, InFacts
    <3> QED  BY <2>3, <3>1
  <2>5. PICK t \in Seq(Int) : /\ t = Bytes(b, c + 1) /\ Len(t) = c + 1
                             /\ \A i \in 1 .. c + 1 : t[i] = b.x[b.n + i - 1]
    BY <2>3, <2>4, BytesOf
  <2>6. (\A i \in 1 .. c : t[i] \notin Seps) /\ t[c + 1] \in Seps
    <3>1. c + 1 \in 1 .. c + 1 /\ \A i \in 1 .. c : i \in 1 .. c + 1  OBVIOUS
    <3>2. \A i \in 1 .. c : b.x[b.n + i - 1] \notin Seps  BY <2>3, <2>4, ChrIs
    <3>3. b.x[b.n + (c + 1) - 1] \in Seps  BY <2>3, <2>4, ChrIs
    <3>4. t[c + 1] = b.x[b.n + (c + 1) - 1]  BY <2>5, <3>1
    <3>5. \A i \in 1 .. c : t[i] = b.x[b.n + i - 1]  BY <2>5, <3>1
    <3> QED  BY <3>2, <3>3, <3>4, <3>5
  <2>7. PICK line \in Seq(Int) :
          /\ line = s \o t /\ Len(line) = Len(s) + (c + 1)
          /\ \A i \in 1 .. Len(s) + c : line[i] \notin Seps
          /\ line[Len(s) + (c + 1)] = t[c + 1]
    <3>1. c <= Len(t) /\ c + 1 \in 1 .. Len(t) /\ \A i \in 1 .. c : t[i] \notin Seps  BY <2>5, <2>6
    <3>2. /\ s \o t \in Seq(Int) /\ Len(s \o t) = Len(s) + Len(t)
          /\ \A i \in 1 .. Len(s) + c : (s \o t)[i] \notin Seps
          /\ \A i \in 1 .. Len(t) : (s \o t)[Len(s) + i] = t[i]
      BY <2>2, <3>1, Continued
    <3> QED  BY <2>5, <3>1, <3>2
  <2>8. {i \in DOMAIN line : line[i] \in Seps} = {Len(line)}
    <3>1. Len(s) \in Nat /\ DOMAIN line = 1 .. Len(line)  BY LenProperties
    <3>2. ASSUME NEW i \in 1 .. Len(line) PROVE line[i] \in Seps <=> i = Len(line)
      <4>1. i # Len(line) => i \in 1 .. Len(s) + c  BY <2>7, <3>1
      <4> QED  BY <2>6, <2>7, <4>1
    <3>3. Len(line) \in 1 .. Len(line)  BY <2>7, <3>1
    <3> QED  BY <3>1, <3>2, <3>3
  <2>9. WellCut(line, 1)'  BY <2>8 DEF WellCut
  <2>10. got' = got \o t  BY <2>3, <2>4, <2>5 DEF Complete, PeekSeek
  <2>11. FlattenSeq(lines) \in Seq(Int)  BY DEF LineInv, LineGood
  <2>12. FlattenSeq(lines) \o line = got'
    <3>1. PICK f \in Seq(Int) : f = FlattenSeq(lines)  BY <2>11
    <3>2. Regroups(f, s, t)  BY Regrouped
    <3> QED  BY <2>2, <2>7, <2>10, <3>1, <3>2 DEF Regroups
  <2>13. got' \in Seq(Int)  BY <2>11, <2>12, ConcatProperties
  <2>14. LineGood /\ Matched(1, line)  BY <1>3, <2>2, <2>3, <2>4, <2>5, <2>7 DEF LineInv
  <2> QED  BY <2>9, <2>12, <2>13, <2>14, MatchedKeeps
<1> QED  BY <1>2, <1>3 DEF Complete

LEMMA GatherKeeps ==
  ASSUME LineInv, Gather
  PROVE  LineInv'
<1>1. CASE Fail /\ UNCHANGED <<invars, sa>>
  <2>1. InInv'  BY <1>1 DEF LineInv, InInv, invars, Struct, Holds
  <2> QED  BY <1>1, <2>1 DEF LineInv, Fail
<1>2. CASE /\ sa' = sa \o Bytes(Struct, rp)
           /\ GetHeld(rp)
           /\ UNCHANGED <<inside, match, code, lines, broken>>
  <2>1. InInv' /\ InInv
    <3>1. InInv /\ Get(rp) /\ rp \in Nat  BY <1>2, InFacts DEF LineInv, Get
    <3> QED  BY <3>1, GetKeeps
  <2> SUFFICES ASSUME ~broken PROVE LineGood'  BY <1>2, <2>1 DEF LineInv
  <2>2. PICK s \in Seq(Int) : s = sa /\ NoSep(s) /\ FlattenSeq(lines) \o s = got
    BY DEF LineInv, LineGood, Gather
  <2>3. PICK b, last : b = Struct /\ Holds(b, last) /\ Chr(b) = b.p /\ b.p = rp /\ b.p \in Nat
    BY <2>1, InFacts DEF InInv, Gather
  <2>4. PICK t \in Seq(Int) : /\ t = Bytes(b, b.p) /\ Len(t) = b.p
                             /\ \A i \in 1 .. b.p : t[i] = b.x[b.n + i - 1]
    <3>1. b.p \in 0 .. b.p  BY <2>3
    <3> QED  BY <2>3, <3>1, BytesOf
  <2>5. \A i \in 1 .. b.p : t[i] \notin Seps
    <3>1. \A i \in 1 .. b.p : b.x[b.n + i - 1] \notin Seps  BY <2>3, ChrIs
    <3> QED  BY <2>4, <3>1
  <2>6. PICK u \in Seq(Int) : u = s \o t /\ NoSep(u)
    <3> DEFINE k == Len(t)
    <3>1. k = b.p /\ k \in Nat /\ k <= k  BY <2>3, <2>4
    <3>2. \A i \in 1 .. k : t[i] \notin Seps  BY <2>5, <3>1
    <3>3. /\ s \o t \in Seq(Int) /\ Len(s \o t) = Len(s) + Len(t)
          /\ \A i \in 1 .. Len(s) + k : (s \o t)[i] \notin Seps
      BY <2>2, <3>1, <3>2, Continued
    <3> QED  BY <3>1, <3>3 DEF NoSep
  <2>7. Count(Struct, rp) = rp  BY <2>3 DEF Count
  <2>8. got' = got \o t  BY <1>2, <2>3, <2>4, <2>7 DEF GetHeld, GetThis
  <2>9. FlattenSeq(lines) \in Seq(Int)  BY DEF LineInv, LineGood
  <2>10. FlattenSeq(lines) \o u = got'
    <3>1. PICK f \in Seq(Int) : f = FlattenSeq(lines)  BY <2>9
    <3>2. Regroups(f, s, t)  BY Regrouped
    <3> QED  BY <2>2, <2>6, <2>8, <3>1, <3>2 DEF Regroups
  <2>11. sa' = u  BY <1>2, <2>2, <2>3, <2>4, <2>6
  <2> QED  BY <1>2, <2>6, <2>9, <2>10, <2>11 DEF LineInv, LineGood, Gather
<1> QED  BY <1>1, <1>2 DEF Gather

\* getln never loses, repeats or reorders a byte, and cuts only behind a separator.
LEMMA LineKeeps ==
  ASSUME LineInv, LineNext
  PROVE  LineInv'
BY BeginKeeps, RefillKeeps, CompleteKeeps, GatherKeeps DEF LineNext

-----------------------------------------------------------------------------
(***************************************************************************)
(* The copy                                                                *)
(***************************************************************************)
\* What holds of a copy before anything fails: the bytes put are the first of the
\* input, and those written are the first of these.
CopyGood ==
  /\ rc = 0 \/ (step \in {"read", "seek"} /\ call = "none")
  /\ step = "idle" => rp = 0
  /\ given = IF step = "seek" THEN taken ELSE taken - rp
  /\ sent = UpTo(given, given)
  /\ fd = UpTo(Len(fd), Len(fd)) /\ Len(fd) <= given
  /\ rc = 0 => Len(fd) = given - Unwritten

CopyInv ==
  /\ InInv /\ OutInv /\ PairTypeOK
  /\ step \in {"idle", "feed", "put"} => call = "none"
  /\ step = "read" => call \in {"none", "flush"}
  /\ step = "seek" => call \in {"none", "put"}
  /\ step = "read" /\ call = "none" /\ rc = 0 => p = 0
  /\ ~failed => CopyGood

\* what the calls of a copy leave behind
LEMMA FlushIs ==
  ASSUME OutInv, Flush
  PROVE  /\ call' \in {"none", "flush"} /\ (call' = "none" => p' = 0)
         /\ rc' = 0 \/ rc' = rc
<1>1. p \in Nat  BY BufferOutAssumption DEF OutInv, OutTypeOK
<1>2. CASE p > 0
  BY <1>2 DEF Flush, FlushIn
<1>3. CASE p = 0
  BY <1>3 DEF Flush, Return
<1> QED  BY <1>1, <1>2, <1>3

LEMMA PutIs ==
  ASSUME OutInv, NEW k \in Nat, Put(k)
  PROVE  call' \in {"none", "put"} /\ (rc' = 0 \/ rc' = rc)
BY DEF Put, CopyRest, FlushIn, PutDirect, Return

LEMMA WriteSomeIs ==
  ASSUME OutInv, NEW r \in 1 .. left, WriteSome(r)
  PROVE  /\ call # "none" /\ src # "none" /\ p = 0
         /\ rc' = 0 \/ rc' = rc
         /\ call = "put" => call' \in {"none", "put"}
         /\ call = "flush" => call' \in {"none", "flush"} /\ p' = 0
         /\ call = "putflush" => call' \in {"none", "putflush"} /\ p' = 0
<1>1. /\ left \in Nat /\ call \in Calls /\ p = 0 /\ src \in {"x", "buf"} /\ len \in Nat
      /\ call = "flush" => src = "x"
      /\ src = "buf" => call \in {"put", "putflush"}
  BY DEF OutInv, OutTypeOK, WritesStayInBuffer
<1>2. CASE r < left
  BY <1>1, <1>2 DEF WriteSome, Calls
<1>3. CASE ~(r < left)
  <2>1. Continue  BY <1>3 DEF WriteSome
  <2>2. CASE call = "put"
    <3>1. (\E l, n : PutDirect(l, n)) \/ Return(0)
      BY <1>1, <2>1, <2>2 DEF Continue
    <3>2. call' \in {"none", "put"} /\ (rc' = 0 \/ rc' = rc)
      BY <3>1 DEF PutDirect, CopyRest, Return
    <3> QED  BY <1>1, <2>2, <3>2
  <2>3. CASE call = "putalign"
    <3>1. PutAligned(x, p, len)  BY <1>1, <2>1, <2>3 DEF Continue
    <3>2. rc' = 0 \/ rc' = rc  BY <3>1 DEF PutAligned, CopyRest, FlushIn, Return
    <3> QED  BY <1>1, <2>3, <3>2
  <2>4. CASE call = "putflush"
    <3>1. PutThrough(len) \/ (Return(0) /\ p' = p)  BY <1>1, <2>1, <2>4 DEF Continue
    <3>2. call' \in {"none", "putflush"} /\ p' = 0 /\ (rc' = 0 \/ rc' = rc)
      BY <1>1, <3>1 DEF PutThrough, Return
    <3> QED  BY <1>1, <2>4, <3>2
  <2>5. CASE call = "flush"
    <3>1. Return(0) /\ p' = p  BY <1>1, <2>1, <2>5 DEF Continue
    <3> QED  BY <1>1, <2>5, <3>1 DEF Return
  <2> QED  BY <1>1, <2>2, <2>3, <2>4, <2>5 DEF Calls
<1> QED  BY <1>2, <1>3

LEMMA LeaveIs ==
  ASSUME NEW c \in {0, -2, -3}, Leave(c)
  PROVE  step' = "idle" /\ outcome' = c /\ (c # 0 => failed') /\ (failed => failed')
<1>1. c # 0 => c < 0  OBVIOUS
<1>2. failed' = (failed \/ c < 0) /\ step' = "idle" /\ outcome' = c  BY DEF Leave
<1>3. c # 0 => failed'  BY <1>1, <1>2, Zenon
<1> QED  BY <1>2, <1>3, Zenon

LEMMA SameIn ==
  ASSUME InInv, UNCHANGED invars
  PROVE  InInv'
BY DEF InInv, invars, Struct, Holds

LEMMA SameOut ==
  ASSUME OutInv, UNCHANGED outvars
  PROVE  OutInv' /\ Unwritten' = Unwritten
<1>1. /\ x' = x /\ p' = p /\ call' = call /\ len' = len /\ src' = src /\ at' = at /\ left' = left
      /\ rc' = rc /\ given' = given /\ fd' = fd
  BY DEF outvars, state
<1> QED  BY <1>1 DEF OutInv, OutTypeOK, WritesStayInBuffer, Unwritten

LEMMA CopyBegins ==
  ASSUME CopyInv, Copy
  PROVE  CopyInv'
<1>1. /\ step = "idle" /\ step' = "feed" /\ failed' = failed /\ outcome' = outcome /\ sent' = sent
      /\ UNCHANGED invars /\ UNCHANGED outvars
  BY DEF Copy, Goto
<1>2. InInv' /\ OutInv' /\ Unwritten' = Unwritten  BY <1>1, SameIn, SameOut DEF CopyInv
<1>3. /\ rp' = rp /\ taken' = taken /\ call' = call /\ p' = p /\ rc' = rc /\ given' = given /\ fd' = fd
  BY <1>1 DEF invars, outvars, state
<1>4. PairTypeOK'  BY <1>1, <1>3 DEF CopyInv, PairTypeOK
<1>5. ~failed => CopyGood'  BY <1>1, <1>2, <1>3 DEF CopyInv, CopyGood
<1>6. call' = "none" /\ step' = "feed"  BY <1>1, <1>3 DEF CopyInv
<1> QED  BY <1>1, <1>2, <1>4, <1>5, <1>6 DEF CopyInv

LEMMA FeedInKeeps ==
  ASSUME CopyInv, FeedIn
  PROVE  CopyInv'
<1>1. /\ step = "feed" /\ call = "none" /\ sent' = sent /\ UNCHANGED invars
      /\ rp' = rp /\ taken' = taken
  BY DEF FeedIn, CopyInv, invars
<1>2. InInv'  BY <1>1, SameIn DEF CopyInv
<1>3. CASE rp > 0
  <2>1. step' = "put" /\ failed' = failed /\ outcome' = outcome /\ UNCHANGED outvars
    BY <1>3 DEF FeedIn, Goto
  <2>2. OutInv' /\ Unwritten' = Unwritten  BY <2>1, SameOut DEF CopyInv
  <2>3. call' = call /\ p' = p /\ rc' = rc /\ given' = given /\ fd' = fd  BY <2>1 DEF outvars, state
  <2>4. PairTypeOK'  BY <1>1, <2>1, <2>3 DEF CopyInv, PairTypeOK
  <2>5. ~failed => CopyGood'  BY <1>1, <2>1, <2>2, <2>3 DEF CopyInv, CopyGood
  <2> QED  BY <1>1, <1>2, <2>1, <2>2, <2>3, <2>4, <2>5 DEF CopyInv
<1>4. CASE ~(rp > 0)
  <2>1. step' = "read" /\ failed' = failed /\ outcome' = outcome /\ Flush  BY <1>4 DEF FeedIn, Goto
  <2>2. given \in Nat /\ Unwritten \in Nat
    BY BufferOutAssumption DEF CopyInv, OutInv, OutTypeOK, Unwritten, WritesStayInBuffer
  <2>3. OutInv' /\ Unwritten' = Unwritten /\ given' = given /\ fd' = fd
    <3>1. OutInv' /\ Unwritten' = Unwritten + 0 /\ given' = given + 0 /\ fd' = fd
      <4>1. OutInv /\ 0 \in Nat /\ (0 = 0 /\ Flush)  BY <2>1 DEF CopyInv
      <4> QED  BY <4>1, GiveKeeps
    <3> QED  BY <2>2, <3>1
  <2>4. /\ call' \in {"none", "flush"} /\ (call' = "none" => p' = 0)
        /\ rc' = 0 \/ rc' = rc
    BY <2>1, FlushIs DEF CopyInv
  <2>5. PairTypeOK'  BY <1>1, <2>1, <2>3 DEF CopyInv, PairTypeOK
  <2>6. ~failed => CopyGood'
    <3>1. SUFFICES ASSUME ~failed PROVE CopyGood'  OBVIOUS
    <3>2. CopyGood /\ rc = 0 /\ rc' = 0  BY <1>1, <2>4, <3>1 DEF CopyInv, CopyGood
    <3> QED  BY <1>1, <2>1, <2>3, <3>2 DEF CopyGood
  <2> QED  BY <1>2, <2>1, <2>3, <2>4, <2>5, <2>6 DEF CopyInv
<1> QED  BY <1>3, <1>4

LEMMA ReadKeeps ==
  ASSUME CopyInv, Read
  PROVE  CopyInv'
<1>1. /\ step = "read" /\ call = "none" /\ sent' = sent /\ UNCHANGED outvars
  BY DEF Read
<1>2. OutInv' /\ Unwritten' = Unwritten  BY <1>1, SameOut DEF CopyInv
<1>3. call' = call /\ p' = p /\ rc' = rc /\ given' = given /\ fd' = fd  BY <1>1 DEF outvars, state
<1>4. InInv'
  <2>1. CASE UNCHANGED invars  BY <2>1, SameIn DEF CopyInv
  <2>2. CASE FeedEmpty  BY <2>2, FeedKeeps DEF CopyInv, Feed
  <2> QED  BY <2>1, <2>2 DEF Read
<1>5. CASE rc = -1
  <2>1. Leave(-2)
    <3>1. rc # 0  BY <1>5
    <3> QED  BY <3>1 DEF Read
  <2>2. step' = "idle" /\ outcome' = -2 /\ failed'  BY <2>1, LeaveIs
  <2>3. PairTypeOK'  BY <1>1, <1>3, <2>2 DEF CopyInv, PairTypeOK
  <2> QED  BY <1>1, <1>2, <1>3, <1>4, <2>2, <2>3 DEF CopyInv
<1>6. CASE rc = 0 /\ FeedEmpty
  <2>1. /\ \/ ret' > 0 /\ step' = "put" /\ outcome' = outcome /\ failed' = failed
           \/ ret' = 0 /\ step' = "idle" /\ outcome' = 0 /\ (failed => failed')
           \/ step' = "idle" /\ outcome' = -2 /\ failed'
    <3>1. rc # -1  BY <1>6
    <3>2. \/ ret' > 0 /\ Goto("put")
          \/ ret' = 0 /\ Leave(0)
          \/ ret' < 0 /\ Leave(-2)
      BY <3>1 DEF Read
    <3>3. ret' > 0 /\ Goto("put") => ret' > 0 /\ step' = "put" /\ outcome' = outcome /\ failed' = failed
      BY DEF Goto
    <3>4. Leave(0) => step' = "idle" /\ outcome' = 0 /\ (failed => failed')  BY LeaveIs
    <3>5. Leave(-2) => step' = "idle" /\ outcome' = -2 /\ failed'  BY LeaveIs
    <3> QED  BY <3>2, <3>3, <3>4, <3>5, Zenon
  <2>2. PairTypeOK'  BY <1>1, <1>3, <2>1 DEF CopyInv, PairTypeOK
  <2>3. rp = 0 /\ (ret' = 0 => rp' = 0) /\ taken' - rp' = taken
    <3>1. PICK r \in Outcomes(rn) :
            /\ ret' = r /\ rp = 0
            /\ IF r <= 0 THEN UNCHANGED <<rx, rp, rn, taken>>
               ELSE SetStruct(Fed(Struct, r)) /\ taken' = taken + r
      BY <1>6 DEF FeedEmpty
    <3>2. r \in Int /\ taken \in Nat
      <4>1. InInv /\ rn \in Nat /\ taken \in Nat  BY InFacts DEF CopyInv
      <4> QED  BY <4>1, OutcomesAre
    <3>3. r > 0 => rp' = r  BY <3>1, <3>2 DEF SetStruct, Fed
    <3> QED  BY <3>1, <3>2, <3>3
  <2>4. ~failed' => CopyGood'
    <3>1. SUFFICES ASSUME ~failed' PROVE CopyGood'  OBVIOUS
    <3>2. step' \in {"put", "idle"} /\ (step' = "idle" => ret' = 0) /\ ~failed
      BY <2>1, <3>1
    <3>3. CopyGood /\ taken - rp = taken /\ taken' - rp' = taken
      <4>1. taken \in Nat  BY InFacts DEF CopyInv
      <4> QED  BY <2>3, <3>2, <4>1 DEF CopyInv
    <3> QED  BY <1>1, <1>2, <1>3, <1>6, <2>3, <3>2, <3>3 DEF CopyGood
  <2> QED  BY <1>1, <1>2, <1>3, <1>4, <2>1, <2>2, <2>4 DEF CopyInv
<1> QED  BY <1>5, <1>6 DEF Read

LEMMA PutOutKeeps ==
  ASSUME CopyInv, PutOut
  PROVE  CopyInv'
<1>1. /\ step = "put" /\ step' = "seek" /\ outcome' = outcome /\ failed' = failed /\ call = "none"
      /\ UNCHANGED invars /\ rp' = rp /\ taken' = taken
      /\ sent' = sent \o Bytes(Struct, rp) /\ Put(rp)
  BY DEF PutOut, Goto, CopyInv, invars
<1>2. /\ rp \in Nat /\ taken \in 0 .. Input /\ rp <= taken /\ Struct.p = rp /\ taken \in Nat
      /\ Holds(Struct, taken)
  BY InFacts DEF CopyInv, InInv
<1>3. InInv'  BY <1>1, SameIn DEF CopyInv
<1>4. OutInv' /\ Unwritten' = Unwritten + rp /\ given' = given + rp /\ fd' = fd
  <2>1. OutInv /\ Put(rp)  BY <1>1 DEF CopyInv
  <2> QED  BY <1>2, <2>1, GiveKeeps
<1>5. call' \in {"none", "put"} /\ (rc' = 0 \/ rc' = rc)  BY <1>1, <1>2, PutIs DEF CopyInv
<1>6. given \in Nat /\ Unwritten \in Nat
  BY BufferOutAssumption DEF CopyInv, OutInv, OutTypeOK, Unwritten, WritesStayInBuffer
<1>7. Bytes(Struct, rp) = UpTo(taken, rp)
  <2>1. rp \in 0 .. Struct.p /\ taken - Struct.p + rp = taken  BY <1>2
  <2> QED  BY <1>2, <2>1, BytesAre
<1>8. PairTypeOK'
  <2>1. UpTo(taken, rp) \in [1 .. rp -> 1 .. Input]
    <3>1. \A i \in 1 .. rp : taken - rp + i \in 1 .. Input  BY <1>2, BufferInAssumption
    <3> QED  BY <3>1 DEF UpTo
  <2>2. UpTo(taken, rp) \in Seq(1 .. Input) /\ Len(UpTo(taken, rp)) = rp  BY <1>2, <2>1, SeqOfFunction
  <2>3. sent \in Seq(1 .. Input) /\ Len(sent) = given  BY DEF CopyInv, PairTypeOK
  <2>4. sent' \in Seq(1 .. Input) /\ Len(sent') = given + rp
    BY <1>1, <1>7, <2>2, <2>3, ConcatProperties
  <2> QED  BY <1>1, <1>4, <2>4 DEF CopyInv, PairTypeOK
<1>9. ~failed => CopyGood'
  <2>1. SUFFICES ASSUME ~failed PROVE CopyGood'  OBVIOUS
  <2>2. /\ rc = 0 /\ given = taken - rp /\ sent = UpTo(given, given)
        /\ fd = UpTo(Len(fd), Len(fd)) /\ Len(fd) <= given /\ Len(fd) = given - Unwritten
    BY <1>1, <2>1 DEF CopyInv, CopyGood
  <2>3. given + rp = taken  BY <1>2, <1>6, <2>2
  <2>4. sent' = UpTo(given + rp, given + rp)
    <3>1. sent' = UpTo(given, given) \o UpTo(given + rp, rp)  BY <1>1, <1>7, <2>2, <2>3
    <3> QED  BY <1>2, <1>6, <3>1, UpToJoin
  <2>5. given' = taken' /\ Len(fd') <= given' /\ Len(fd') = given' - Unwritten'
    BY <1>1, <1>2, <1>4, <1>6, <2>2, <2>3
  <2>6. rc' = 0 /\ sent' = UpTo(given', given')  BY <1>4, <1>5, <2>2, <2>4
  <2> QED  BY <1>1, <1>4, <2>2, <2>5, <2>6 DEF CopyGood
<1> QED  BY <1>1, <1>3, <1>4, <1>5, <1>8, <1>9 DEF CopyInv

LEMMA SeekInKeeps ==
  ASSUME CopyInv, SeekIn
  PROVE  CopyInv'
<1>1. /\ step = "seek" /\ call = "none" /\ sent' = sent /\ UNCHANGED outvars
  BY DEF SeekIn
<1>2. OutInv' /\ Unwritten' = Unwritten  BY <1>1, SameOut DEF CopyInv
<1>3. call' = call /\ p' = p /\ rc' = rc /\ given' = given /\ fd' = fd  BY <1>1 DEF outvars, state
<1>4. CASE rc = 0 /\ Goto("feed") /\ PeekSeek(rp)
  <2>1. step' = "feed" /\ outcome' = outcome /\ failed' = failed  BY <1>4 DEF Goto
  <2>2. InInv'  BY <1>4, PeekSeekKeeps DEF CopyInv
  <2>3. taken' = taken /\ rp' = 0 /\ taken' - rp' = taken
    <3>1. rp \in Nat /\ taken \in Nat /\ Struct.p = rp  BY InFacts DEF CopyInv
    <3> QED  BY <1>4, <3>1 DEF PeekSeek, SetStruct, Seek
  <2>4. PairTypeOK'  BY <1>1, <1>3, <2>1 DEF CopyInv, PairTypeOK
  <2>5. ~failed => CopyGood'  BY <1>1, <1>2, <1>3, <1>4, <2>1, <2>3 DEF CopyInv, CopyGood
  <2> QED  BY <1>1, <1>2, <1>3, <2>1, <2>2, <2>4, <2>5 DEF CopyInv
<1>5. CASE rc = -1 /\ Leave(-3) /\ UNCHANGED invars
  <2>1. step' = "idle" /\ outcome' = -3 /\ failed'  BY <1>5, LeaveIs
  <2>2. PairTypeOK' /\ InInv'  BY <1>1, <1>3, <1>5, <2>1, SameIn DEF CopyInv, PairTypeOK
  <2> QED  BY <1>1, <1>2, <1>3, <2>1, <2>2 DEF CopyInv
<1> QED  BY <1>4, <1>5 DEF SeekIn

LEMMA CopyWriteKeeps ==
  ASSUME CopyInv, Write
  PROVE  CopyInv'
<1>1. /\ step' = step /\ outcome' = outcome /\ failed' = failed /\ sent' = sent /\ UNCHANGED invars
      /\ rp' = rp /\ taken' = taken
  BY DEF Write, invars
<1>2. InInv'  BY <1>1, SameIn DEF CopyInv
<1>3. given \in Nat /\ Unwritten \in Nat /\ fd \in Seq(Nat) /\ Len(fd) \in Nat
  <2>1. fd \in Seq(Nat)  BY DEF CopyInv, OutInv, OutTypeOK
  <2> QED  BY <2>1, LenProperties, BufferOutAssumption
        DEF CopyInv, OutInv, OutTypeOK, Unwritten, WritesStayInBuffer
<1>4. ASSUME NEW r \in 1 .. left, WriteSome(r) PROVE CopyInv'
  <2>1. OutInv  BY DEF CopyInv
  <2>2. /\ OutInv' /\ Unwritten' = Unwritten - r /\ given' = given /\ r \in 1 .. Unwritten
        /\ fd' = fd \o [i \in 1 .. r |-> given - Unwritten + i]
    BY <1>4, <2>1, WriteKeeps
  <2>3. /\ call # "none" /\ p = 0
        /\ rc' = 0 \/ rc' = rc
        /\ call = "put" => call' \in {"none", "put"}
        /\ call = "flush" => call' \in {"none", "flush"} /\ p' = 0
    BY <1>4, <2>1, WriteSomeIs
  <2>4. \/ step = "read" /\ call = "flush"
        \/ step = "seek" /\ call = "put"
    BY <2>3 DEF CopyInv, PairTypeOK
  <2>5. PairTypeOK'  BY <1>1, <2>2 DEF CopyInv, PairTypeOK
  <2>6. ~failed => CopyGood'
    <3>1. SUFFICES ASSUME ~failed PROVE CopyGood'  OBVIOUS
    <3>2. /\ rc = 0 /\ fd = UpTo(Len(fd), Len(fd)) /\ Len(fd) = given - Unwritten
      BY <2>3, <3>1 DEF CopyInv, CopyGood
    <3>3. PICK l \in Nat : l = Len(fd)  BY <1>3
    <3>4. [i \in 1 .. r |-> given - Unwritten + i] = UpTo(l + r, r)
      <4>1. \A i \in 1 .. r : given - Unwritten + i = l + r - r + i  BY <1>3, <2>2, <3>2, <3>3
      <4> QED  BY <4>1 DEF UpTo
    <3>5. r \in Nat /\ l + r \in Nat /\ l + r \in Int  BY <1>3, <2>2, <3>3
    <3>6. fd' = UpTo(l + r, l + r)
      <4>1. fd' = UpTo(l, l) \o UpTo(l + r, r)  BY <2>2, <3>2, <3>3, <3>4
      <4> QED  BY <3>3, <3>5, <4>1, UpToJoin
    <3>7. Len(fd') = l + r  BY <3>5, <3>6, UpToSeq
    <3>8. Len(fd') <= given' /\ Len(fd') = given' - Unwritten'  BY <1>3, <2>2, <3>2, <3>3, <3>7
    <3>9. fd' = UpTo(Len(fd'), Len(fd')) /\ rc' = 0  BY <2>3, <3>2, <3>6, <3>7
    <3> QED  BY <1>1, <2>2, <2>4, <3>1, <3>8, <3>9 DEF CopyInv, CopyGood
  <2> QED  BY <1>1, <1>2, <2>2, <2>3, <2>4, <2>5, <2>6 DEF CopyInv
<1>5. ASSUME WriteFails PROVE CopyInv'
  <2>1. OutInv  BY DEF CopyInv
  <2>2. OutInv' /\ given' = given /\ fd' = fd  BY <1>5, <2>1, WriteFailsKeeps
  <2>3. call' = "none" /\ rc' = -1 /\ p' = p  BY <1>5 DEF WriteFails, Return
  <2>4. step \in {"read", "seek"}
    <3>1. call # "none"  BY <1>5 DEF WriteFails, CopyInv, OutInv, WritesStayInBuffer
    <3> QED  BY <3>1 DEF CopyInv, PairTypeOK
  <2>5. PairTypeOK'  BY <1>1, <2>2 DEF CopyInv, PairTypeOK
  <2>6. ~failed => CopyGood'  BY <1>1, <2>2, <2>3, <2>4 DEF CopyInv, CopyGood
  <2> QED  BY <1>1, <1>2, <2>2, <2>3, <2>4, <2>5, <2>6 DEF CopyInv
<1> QED  BY <1>4, <1>5 DEF Write

\* A copy passes the input on in order.
LEMMA CopyKeeps ==
  ASSUME CopyInv, PairNext
  PROVE  CopyInv'
BY CopyBegins, FeedInKeeps, ReadKeeps, PutOutKeeps, SeekInKeeps, CopyWriteKeeps DEF PairNext

-----------------------------------------------------------------------------
(***************************************************************************)
(* The theorems                                                            *)
(***************************************************************************)
\* What holds in every reachable state of the four parts.
Inv ==
  /\ part \in {"write", "read", "lines", "copy"}
  /\ InInv /\ OutInv
  /\ part = "lines" => LineInv
  /\ part = "copy" => CopyInv
  /\ part \in {"read", "lines"} => p = 0 /\ given = 0 /\ fd = <<>>

LEMMA InvInit == Init => Inv
<1> SUFFICES ASSUME Init PROVE Inv  OBVIOUS
<1>1. /\ part \in {"write", "read", "lines", "copy"} /\ InInit /\ OutInit
      /\ step = "idle" /\ outcome = 0 /\ sent = <<>> /\ failed = FALSE
      /\ inside = FALSE /\ sa = <<>> /\ code = 0 /\ lines = <<>>
  BY DEF Init, PairInit, LineInit
<1>2. UpTo(0, 0) = <<>> /\ Len(<<>>) = 0 /\ <<>> \in Seq(Int) /\ <<>> \in Seq(Nat) /\ <<>> \in Seq(1 .. Input)
      /\ <<>> \in Seq(Seq(Int))
  BY EmptySeq DEF UpTo
<1>3. InInv
  BY <1>1, <1>2, BufferInAssumption DEF InInit, InInv, Holds, Struct
<1>4. OutInv
  <2>1. [i \in 0 .. Size - 1 |-> 0] \in [0 .. Size - 1 -> Nat] /\ 0 \in 0 .. Size /\ 0 \in 0 .. 0
    BY BufferOutAssumption
  <2> QED  BY <1>1, <1>2, <2>1 DEF OutInit, OutInv, OutTypeOK, WritesStayInBuffer
<1>5. LineInv
  <2>1. FlattenSeq(<<>>) = <<>>  BY <1>2 DEF FlattenSeq
  <2>2. <<>> \o <<>> = <<>>  BY <1>2, ConcatEmptySeq
  <2> QED  BY <1>1, <1>2, <1>3, <2>1, <2>2 DEF LineInv, LineGood, InInit
<1>6. CopyInv
  <2>1. p = 0 /\ given = 0 /\ fd = <<>> /\ rc = 0 /\ call = "none" /\ Unwritten = 0 /\ taken = 0 /\ rp = 0
    BY <1>1 DEF OutInit, InInit, Unwritten
  <2>2. PairTypeOK  BY <1>1, <1>2, <2>1 DEF PairTypeOK
  <2>3. CopyGood  BY <1>1, <1>2, <2>1 DEF CopyGood
  <2> QED  BY <1>1, <1>3, <1>4, <2>1, <2>2, <2>3 DEF CopyInv
<1> QED  BY <1>1, <1>3, <1>4, <1>5, <1>6 DEF Inv, OutInit

\* What a step does to the read buffer, and what to the write buffer.
LEMMA InStep ==
  ASSUME Inv, Next
  PROVE  InInv'
<1>1. CASE part = "copy" /\ PairNext
  BY <1>1, CopyKeeps DEF Inv, CopyInv
<1>2. CASE part = "lines" /\ LineNext
  BY <1>2, LineKeeps DEF Inv, LineInv
<1>3. CASE part = "write" /\ UNCHANGED <<part, invars, pairOnly, lineOnly>>
  BY <1>3, SameIn DEF Inv
<1>4. CASE part = "read" /\ InNext
  <2>1. CASE Feed  BY <2>1, FeedKeeps DEF Inv
  <2>2. CASE \E k \in 0 .. MaxAsk : Get(k) \/ BGet(k)
    <3>1. PICK k \in Nat : Get(k) \/ BGet(k)  BY <2>2, BufferInAssumption
    <3> QED  BY <3>1, GetKeeps DEF Inv
  <2>3. CASE \E k \in 1 .. RSize : PeekSeek(k)  BY <2>3, PeekSeekKeeps DEF Inv
  <2> QED  BY <1>4, <2>1, <2>2, <2>3 DEF InNext
<1> QED  BY <1>1, <1>2, <1>3, <1>4 DEF Next

LEMMA OutStep ==
  ASSUME Inv, Next
  PROVE  \/ UNCHANGED outvars
         \/ \E k \in Nat : Put(k) \/ PutAlign(k) \/ PutFlush(k) \/ (k = 0 /\ Flush)
         \/ \E r \in 1 .. left : WriteSome(r)
         \/ WriteFails
<1>1. CASE part = "copy" /\ PairNext
  <2>1. CASE Copy  BY <2>1 DEF Copy
  <2>2. CASE FeedIn  BY <2>2 DEF FeedIn
  <2>3. CASE Read  BY <2>3 DEF Read
  <2>4. CASE PutOut
    <3>1. rp \in Nat  BY InFacts DEF Inv
    <3> QED  BY <2>4, <3>1 DEF PutOut
  <2>5. CASE SeekIn  BY <2>5 DEF SeekIn
  <2>6. CASE Write  BY <2>6 DEF Write
  <2> QED  BY <1>1, <2>1, <2>2, <2>3, <2>4, <2>5, <2>6 DEF PairNext
<1>2. CASE part = "write" /\ OutNext
  <2>1. CASE \E k \in 0 .. MaxLen : Put(k) \/ PutAlign(k) \/ PutFlush(k)
    <3>1. PICK k \in Nat : Put(k) \/ PutAlign(k) \/ PutFlush(k)  BY <2>1, BufferOutAssumption
    <3> QED  BY <3>1
  <2>2. CASE Flush  BY <2>2
  <2>3. CASE WriteNothing  BY <2>3 DEF WriteNothing
  <2> QED  BY <1>2, <2>1, <2>2, <2>3 DEF OutNext
<1> QED  BY <1>1, <1>2 DEF Next

LEMMA OutKeeps ==
  ASSUME Inv, Next
  PROVE  OutInv'
<1>1. OutInv  BY DEF Inv
<1>2. CASE UNCHANGED outvars  BY <1>1, <1>2, SameOut
<1>3. CASE \E k \in Nat : Put(k) \/ PutAlign(k) \/ PutFlush(k) \/ (k = 0 /\ Flush)
  BY <1>1, <1>3, GiveKeeps
<1>4. CASE \E r \in 1 .. left : WriteSome(r)  BY <1>1, <1>4, WriteKeeps
<1>5. CASE WriteFails  BY <1>1, <1>5, WriteFailsKeeps
<1> QED  BY <1>2, <1>3, <1>4, <1>5, OutStep

LEMMA InvNext == Inv /\ [Next]_<<part, pairvars, lineOnly>> => Inv'
<1>1. ASSUME Inv, Next PROVE Inv'
  <2>1. InInv' /\ OutInv' /\ part' = part  BY <1>1, InStep, OutKeeps DEF Next
  <2>2. part = "lines" => LineInv'  BY <1>1, LineKeeps DEF Inv, Next
  <2>3. part = "copy" => CopyInv'  BY <1>1, CopyKeeps DEF Inv, Next
  <2>4. part \in {"read", "lines"} => p' = p /\ given' = given /\ fd' = fd
    BY <1>1 DEF Next, outvars, state
  <2> QED  BY <1>1, <2>1, <2>2, <2>3, <2>4 DEF Inv
<1>2. ASSUME Inv, UNCHANGED <<part, pairvars, lineOnly>> PROVE Inv'
  <2>1. /\ UNCHANGED invars /\ UNCHANGED outvars /\ UNCHANGED <<step, outcome, sent, failed>>
        /\ UNCHANGED <<inside, sa, match, code, lines, broken>> /\ part' = part
    BY <1>2 DEF pairvars, lineOnly
  <2>2. InInv' /\ OutInv' /\ Unwritten' = Unwritten  BY <1>2, <2>1, SameIn, SameOut DEF Inv
  <2>3. rp' = rp /\ taken' = taken /\ got' = got /\ call' = call /\ p' = p /\ rc' = rc /\ given' = given
        /\ fd' = fd
    BY <2>1 DEF invars, outvars, state
  <2>4. LineInv => LineInv'
    BY <2>1, <2>2, <2>3 DEF LineInv, LineGood, NoSep, WellCut
  <2>5. CopyInv => CopyInv'
    BY <2>1, <2>2, <2>3 DEF CopyInv, CopyGood, PairTypeOK
  <2> QED  BY <1>2, <2>1, <2>2, <2>3, <2>4, <2>5 DEF Inv
<1> QED  BY <1>1, <1>2

LEMMA InvAlways == Spec => []Inv
<1> QED  BY InvInit, InvNext, PTL DEF Spec

\* Neither buffer is left, filled or written beyond its bounds, for any sizes and any
\* mix of calls (StaysInBuffers, buffer.c:77-204).
THEOREM BuffersBounded == Spec => []StaysInBuffers
<1>1. Inv => StaysInBuffers
  <2> SUFFICES ASSUME Inv PROVE StaysInBuffers  OBVIOUS
  <2>1. OutTypeOK /\ WritesStayInBuffer /\ (part = "copy" => PairTypeOK)  BY DEF Inv, OutInv, CopyInv
  <2>2. InTypeOK
    <3>1. /\ rp \in 0 .. RSize /\ rn \in 0 .. RSize /\ rp + rn = RSize /\ rp <= taken
          /\ taken \in Nat /\ rx \in [0 .. RSize - 1 -> Nat] /\ taken \in 0 .. Input /\ ret \in Int
      BY InFacts DEF Inv, InInv
    <3>2. got \in Seq(Nat)
      <4>1. PICK n \in Nat : n = taken - rp /\ got = UpTo(n, n)  BY <3>1 DEF Inv, InInv
      <4>2. UpTo(n, n) \in [1 .. n -> Nat]  BY DEF UpTo
      <4> QED  BY <4>1, <4>2, SeqOfFunction
    <3>3. rp + rn <= RSize  BY <3>1
    <3> QED  BY <3>1, <3>2, <3>3 DEF InTypeOK
  <2> QED  BY <2>1, <2>2 DEF StaysInBuffers
<1> QED  BY <1>1, InvAlways, PTL

\* What a caller has received, followed by what the buffer holds, is the input up to what
\* was read: no mix of feeding, getting and seeking skips or repeats a byte
\* (NothingSkipped, buffer.c:77-140).
THEOREM InputKept == Spec => []NothingSkipped
<1>1. Inv => NothingSkipped
  <2> SUFFICES ASSUME Inv PROVE NothingSkipped  OBVIOUS
  <2>1. /\ rp \in Nat /\ rp + rn = RSize /\ rp <= taken /\ taken \in Nat /\ Struct.p = rp
        /\ Holds(Struct, taken)
    BY InFacts, BufferInAssumption DEF Inv, InInv
  <2>2. PICK h \in Nat : h = taken - rp /\ h + rp = taken /\ got = UpTo(h, h)
    BY <2>1 DEF Inv, InInv
  <2>3. Bytes(Struct, rp) = UpTo(h + rp, rp)
    <3>1. rp \in 0 .. Struct.p /\ taken - Struct.p + rp = h + rp  BY <2>1, <2>2
    <3> QED  BY <2>1, <3>1, BytesAre
  <2>4. got \o Bytes(Struct, rp) = UpTo(h + rp, h + rp)
    <3>1. UpTo(h, h) \o UpTo(h + rp, rp) = UpTo(h + rp, h + rp)  BY <2>1, UpToJoin
    <3> QED  BY <2>2, <2>3, <3>1
  <2>5. UpTo(taken, taken) = [i \in 1 .. taken |-> i]
    <3>1. \A i \in 1 .. taken : taken - taken + i = i  BY <2>1
    <3> QED  BY <3>1 DEF UpTo
  <2> QED  BY <2>1, <2>2, <2>4, <2>5 DEF NothingSkipped
<1> QED  BY <1>1, InvAlways, PTL

\* The lines that getln returns are the input cut behind its separators, for any
\* separators and any size of the buffer (LinesAreInput, getln.c:23-42).
THEOREM LinesRight == Spec => []LinesAreInput
<1>1. Inv => LinesAreInput
  <2> SUFFICES ASSUME Inv, part = "lines", ~broken PROVE LinesPartitionInput /\ LineShape
    BY DEF LinesAreInput, LinesPartitionInput, LineShape
  <2>1. LineGood  BY DEF Inv, LineInv
  <2>2. UpTo(Input, Input) = [i \in 1 .. Input |-> i]
    <3>1. \A i \in 1 .. Input : Input - Input + i = i  BY BufferInAssumption
    <3> QED  BY <3>1 DEF UpTo
  <2> QED  BY <2>1, <2>2 DEF LineGood, WellCut, LinesPartitionInput, LineShape
<1> QED  BY <1>1, InvAlways, PTL

\* As long as no call fails, a copy writes the bytes of the input, each once and in order
\* (CopyInOrder, buffer.c:60-75).
THEOREM CopyRight == Spec => []CopyInOrder
<1>1. Inv => CopyInOrder
  <2> SUFFICES ASSUME Inv, part = "copy", ~failed
               PROVE  /\ Shown = [i \in 1 .. Len(fd) |-> i]
                      /\ step = "idle" /\ taken = Input => got = [i \in 1 .. Input |-> i]
    BY DEF CopyInOrder, CopiesInOrder
  <2>1. CopyGood /\ InInv /\ PairTypeOK  BY DEF Inv, CopyInv
  <2>2. given \in Nat /\ fd \in Seq(Nat)  BY DEF Inv, OutInv, OutTypeOK
  <2>3. PICK l \in Nat : l = Len(fd) /\ l <= given /\ fd = UpTo(l, l)
    <3>1. Len(fd) \in Nat  BY <2>2, LenProperties
    <3> QED  BY <2>1, <3>1 DEF CopyGood
  <2>4. DOMAIN fd = 1 .. l  BY <2>3 DEF UpTo
  <2>5. ASSUME NEW i \in 1 .. l PROVE sent[fd[i]] = i
    <3>1. fd[i] = i  BY <2>3 DEF UpTo
    <3>2. i \in 1 .. given  BY <2>2, <2>3
    <3>3. sent[i] = given - given + i  BY <2>1, <3>2 DEF CopyGood, UpTo
    <3> QED  BY <2>2, <3>1, <3>3
  <2>6. Shown = [i \in 1 .. Len(fd) |-> i]  BY <2>3, <2>4, <2>5 DEF Shown
  <2>7. ASSUME step = "idle", taken = Input PROVE got = [i \in 1 .. Input |-> i]
    <3>1. taken - rp = Input /\ Input \in Nat  BY <2>1, <2>7, BufferInAssumption DEF CopyGood
    <3>2. got = UpTo(Input, Input)  BY <2>1, <3>1 DEF InInv
    <3>3. \A i \in 1 .. Input : Input - Input + i = i  BY <3>1
    <3> QED  BY <3>2, <3>3 DEF UpTo
  <2> QED  BY <2>6, <2>7
<1> QED  BY <1>1, InvAlways, PTL

\* A call goes on or returns 0.
OnOrDone == IF call' = "none" THEN rc' = 0 ELSE rc' = rc

\* A call that begins, and a write that is taken, end in one of the two.
LEMMA GiveGoesOn ==
  ASSUME NEW k \in Nat, Put(k) \/ PutAlign(k) \/ PutFlush(k) \/ (k = 0 /\ Flush)
  PROVE  call = "none" /\ OnOrDone
<1>1. CASE Put(k)
  BY <1>1 DEF Put, Give, OnOrDone, CopyRest, FlushIn, PutDirect, Return
<1>2. CASE PutAlign(k)
  BY <1>2 DEF PutAlign, Give, OnOrDone, PutAligned, CopyRest, FlushIn, Return
<1>3. CASE PutFlush(k)
  BY <1>3 DEF PutFlush, Give, OnOrDone, PutThrough, FlushIn, Return
<1>4. CASE Flush
  BY <1>4 DEF Flush, Give, OnOrDone, FlushIn, Return
<1> QED  BY <1>1, <1>2, <1>3, <1>4

LEMMA WriteGoesOn ==
  ASSUME OutInv, NEW r \in 1 .. left, WriteSome(r)
  PROVE  call # "none" /\ OnOrDone
<1>1. left \in Nat  BY DEF OutInv, OutTypeOK
<1>2. call # "none"
  <2>1. left # 0  BY <1>1
  <2> QED  BY <2>1 DEF OutInv, WritesStayInBuffer
<1>3. CASE r < left
  BY <1>2, <1>3 DEF WriteSome, OnOrDone
<1>4. CASE ~(r < left)
  <2>1. Continue  BY <1>4 DEF WriteSome
  <2>2. CASE src = "x" /\ call = "put"
    BY <2>1, <2>2 DEF Continue, PutDirect, CopyRest, OnOrDone, Return
  <2>3. CASE src = "x" /\ call = "putalign"
    BY <2>1, <2>3 DEF Continue, PutAligned, CopyRest, FlushIn, OnOrDone, Return
  <2>4. CASE src = "x" /\ call = "putflush"
    BY <2>1, <2>4 DEF Continue, PutThrough, OnOrDone, Return
  <2>5. CASE src = "buf" /\ call = "put"
    BY <2>1, <2>5 DEF Continue, PutDirect, CopyRest, OnOrDone, Return
  <2>6. CASE ~(src = "x" /\ call \in {"put", "putalign", "putflush"}) /\ ~(src = "buf" /\ call = "put")
    <3>1. Return(0)  BY <2>1, <2>6 DEF Continue
    <3> QED  BY <1>2, <3>1 DEF OnOrDone, Return
  <2> QED  BY <2>2, <2>3, <2>4, <2>5, <2>6
<1> QED  BY <1>2, <1>3, <1>4

\* A write buffer is a queue: every call of its functions and every write that op cuts up
\* or fails is a step of ByteQueue, where bytes are lost only in a call that returns -1
\* (QueueSpec, buffer.c:142-210).
THEOREM QueueRefined == Spec => QueueSpec
<1> DEFINE queue == InFlight \o Held \o Rest
<1>1. Init => Queue!Init
  <2> SUFFICES ASSUME Init PROVE Queue!Init  OBVIOUS
  <2>1. p = 0 /\ given = 0 /\ fd = <<>> /\ src = "none" /\ call = "none" /\ rc = 0
    BY DEF Init, PairInit, OutInit
  <2>2. OutInv  BY InvInit DEF Inv
  <2>3. Unwritten = 0 /\ UpTo(0, 0) = <<>>  BY <2>1 DEF Unwritten, UpTo
  <2>4. queue = <<>>  BY <2>1, <2>2, <2>3, QueueIs
  <2> QED  BY <2>1, <2>4 DEF Queue!Init
<1>2. Inv /\ [Next]_<<part, pairvars, lineOnly>> => [Queue!Next]_(Queue!qvars)
  <2> SUFFICES ASSUME Inv, [Next]_<<part, pairvars, lineOnly>> PROVE [Queue!Next]_(Queue!qvars)
    OBVIOUS
  <2>1. OutInv  BY DEF Inv
  <2>2. PICK g \in Nat, u \in Nat : g = given /\ u = Unwritten /\ g \in Int
    <3>1. given \in Nat /\ Unwritten \in Nat
      BY <2>1, BufferOutAssumption DEF OutInv, OutTypeOK, Unwritten, WritesStayInBuffer
    <3> QED  BY <3>1
  <2>3. PICK q \in Seq(Int) : q = queue /\ q = UpTo(g, u) /\ Len(q) = u
    BY <2>1, <2>2, QueueIs, UpToSeq
  <2>4. OutInv' => queue' = UpTo(given', Unwritten')
    <3>1. (OutInv => InFlight \o Held \o Rest = UpTo(given, Unwritten))'  BY QueueIs, PTL
    <3> QED  BY <3>1
  <2> HIDE DEF queue
  <2>5. CASE UNCHANGED outvars
    <3>1. OutInv' /\ Unwritten' = Unwritten  BY <2>1, <2>5, SameOut
    <3>2. given' = given /\ fd' = fd /\ call' = call /\ rc' = rc  BY <2>5 DEF outvars, state
    <3>3. queue' = queue  BY <2>2, <2>3, <2>4, <3>1, <3>2
    <3> QED  BY <3>2, <3>3 DEF Queue!qvars, queue
  <2>6. CASE \E k \in Nat : Put(k) \/ PutAlign(k) \/ PutFlush(k) \/ (k = 0 /\ Flush)
    <3>1. PICK k \in Nat : OutInv' /\ Unwritten' = Unwritten + k /\ given' = given + k /\ fd' = fd
      BY <2>1, <2>6, GiveKeeps
    <3>2. queue' = UpTo(g + k, u + k)  BY <2>2, <2>4, <3>1
    <3>3. UpTo(g, u) \o UpTo(g + k, k) = UpTo(g + k, u + k)  BY UpToJoin
    <3>4. UpTo(g + k, k) = [i \in 1 .. given' - given |-> given + i]
      <4>1. given' - given = k /\ \A i \in 1 .. k : g + k - k + i = given + i  BY <2>2, <3>1
      <4> QED  BY <4>1 DEF UpTo
    <3>5. given' >= given /\ queue' = queue \o [i \in 1 .. given' - given |-> given + i]
      <4>1. given' >= given  BY <2>2, <3>1
      <4>2. queue' = q \o UpTo(g + k, k)  BY <2>3, <3>2, <3>3
      <4> QED  BY <2>3, <3>4, <4>1, <4>2
    <3>6. Queue!Give
      <4>1. call = "none" /\ OnOrDone  BY <2>6, GiveGoesOn
      <4> QED  BY <3>1, <3>5, <4>1 DEF Queue!Give, Queue!GoesOn, Queue!Returns, OnOrDone, queue
    <3> QED  BY <3>6 DEF Queue!Next
  <2>7. CASE \E r \in 1 .. left : WriteSome(r)
    <3>1. PICK r \in 1 .. left :
            /\ OutInv' /\ Unwritten' = Unwritten - r /\ given' = given /\ r \in 1 .. Unwritten
            /\ fd' = fd \o [i \in 1 .. r |-> given - Unwritten + i]
      BY <2>1, <2>7, WriteKeeps
    <3>2. r \in 0 .. u /\ r \in 1 .. Len(q)  BY <2>2, <2>3, <3>1
    <3>3. /\ SubSeq(UpTo(g, u), 1, r) = [i \in 1 .. r |-> g - u + i]
          /\ SubSeq(UpTo(g, u), r + 1, u) = UpTo(g, u - r)
      <4>1. g \in Nat /\ u \in Nat /\ r \in 0 .. u  BY <2>2, <3>2
      <4> QED  BY <4>1, UpToCut
    <3>4. fd' = fd \o SubSeq(q, 1, r)  BY <2>2, <2>3, <3>1, <3>3
    <3>5. queue' = SubSeq(q, r + 1, Len(q))  BY <2>2, <2>3, <2>4, <3>1, <3>3
    <3>6. Queue!Moved(q, r)  BY <3>4, <3>5 DEF Queue!Moved, queue
    <3>7. Queue!Emit
      <4>1. call # "none" /\ OnOrDone  BY <2>1, <2>7, WriteGoesOn
      <4> QED  BY <2>3, <3>1, <3>2, <3>6, <4>1 DEF Queue!Emit, Queue!GoesOn, Queue!Returns, OnOrDone, queue
    <3> QED  BY <3>7 DEF Queue!Next
  <2>8. CASE WriteFails
    <3>1. OutInv' /\ Unwritten' = 0 /\ given' = given /\ fd' = fd  BY <2>1, <2>8, WriteFailsKeeps
    <3>2. queue' = <<>>  BY <2>4, <3>1 DEF UpTo
    <3>3. call # "none" /\ call' = "none" /\ rc' = -1
      <4>1. left # 0  BY <2>1, <2>8 DEF WriteFails, OutInv, OutTypeOK
      <4> QED  BY <2>1, <2>8, <4>1 DEF WriteFails, Return, OutInv, WritesStayInBuffer
    <3>4. Queue!Drop  BY <3>1, <3>2, <3>3 DEF Queue!Drop, queue
    <3> QED  BY <3>4 DEF Queue!Next
  <2>9. CASE UNCHANGED <<part, pairvars, lineOnly>>
    BY <2>5, <2>9 DEF pairvars
  <2> QED  BY <2>5, <2>6, <2>7, <2>8, <2>9, OutStep
<1> QED  BY <1>1, <1>2, InvAlways, PTL DEF Spec, QueueSpec, Queue!Spec

\* A flush that returns 0 has written the last byte given.
LEMMA FlushTells ==
  ASSUME OutInv, call \in {"flush", "putflush"}, call' = "none", rc' = 0,
         \/ UNCHANGED outvars
         \/ \E k \in Nat : Put(k) \/ PutAlign(k) \/ PutFlush(k) \/ (k = 0 /\ Flush)
         \/ \E r \in 1 .. left : WriteSome(r)
         \/ WriteFails
  PROVE  p' = 0 /\ LastOf(fd)' = given
<1>1. PICK r \in 1 .. left : WriteSome(r)
  <2>1. call # "none"  OBVIOUS
  <2>2. ~ UNCHANGED outvars  BY <2>1 DEF outvars, state
  <2>3. ~ \E k \in Nat : Put(k) \/ PutAlign(k) \/ PutFlush(k) \/ (k = 0 /\ Flush)
    BY <2>1 DEF Put, PutAlign, PutFlush, Flush, Give
  <2>4. ~ WriteFails
    <3>1. rc' # -1  OBVIOUS
    <3> QED  BY <3>1 DEF WriteFails, Return
  <2> QED  BY <2>2, <2>3, <2>4
<1>2. /\ OutInv' /\ Unwritten' = Unwritten - r /\ r \in 1 .. Unwritten
      /\ fd' = fd \o [i \in 1 .. r |-> given - Unwritten + i]
  BY <1>1, WriteKeeps
<1>3. p' = 0  BY <1>1, WriteSomeIs
<1>4. PICK u \in Nat : u = Unwritten
  BY BufferOutAssumption DEF OutInv, OutTypeOK, Unwritten, WritesStayInBuffer
<1>5. r = u /\ r \in Nat /\ r >= 1
  <2>1. Unwritten' = 0  BY <1>2, <1>3 DEF OutInv, WritesStayInBuffer, Unwritten
  <2> QED  BY <1>2, <1>4, <2>1
<1>6. fd \in Seq(Int) /\ given \in Nat
  <2>1. fd \in Seq(Nat) /\ given \in Nat  BY DEF OutInv, OutTypeOK
  <2> QED  BY <2>1
<1>7. PICK t \in Seq(Int) : t = [i \in 1 .. r |-> given - Unwritten + i] /\ Len(t) = r /\ t[r] = given
  <2>1. \A i \in 1 .. r : given - Unwritten + i = given - r + i  BY <1>4, <1>5, <1>6
  <2>2. [i \in 1 .. r |-> given - Unwritten + i] = UpTo(given, r)  BY <2>1 DEF UpTo
  <2>3. UpTo(given, r)[r] = given
    <3>1. r \in 1 .. r /\ given - r + r = given  BY <1>5, <1>6
    <3> QED  BY <3>1 DEF UpTo
  <2>4. given \in Int /\ r \in Nat  BY <1>5, <1>6
  <2>5. UpTo(given, r) \in Seq(Int) /\ Len(UpTo(given, r)) = r  BY <2>4, UpToSeq
  <2> QED  BY <2>2, <2>3, <2>5
<1>8. Len(fd) \in Nat /\ Len(fd') = Len(fd) + r /\ fd'[Len(fd) + r] = t[r]
  <2>1. Len(fd) \in Nat  BY <1>6, LenProperties
  <2>2. fd' = fd \o t  BY <1>2, <1>7
  <2>3. Len(fd) + r \in 1 .. Len(fd) + Len(t) /\ ~(Len(fd) + r <= Len(fd)) /\ Len(fd) + r - Len(fd) = r
    BY <1>5, <1>7, <2>1
  <2> QED  BY <1>6, <1>7, <2>1, <2>2, <2>3, ConcatProperties
<1> QED  BY <1>3, <1>7, <1>8 DEF LastOf

\* A read of the standard input finds nothing held of the output.
LEMMA ReadTells ==
  ASSUME Inv, Next, rp = 0, taken' # taken
  PROVE  p = 0 /\ (failed \/ Len(fd) = given)
<1>1. CASE part = "copy" /\ PairNext
  <2>1. ~ UNCHANGED invars  BY DEF invars
  <2>2. ~ SeekIn
    <3>1. ~ PeekSeek(rp)
      <4>1. rp \notin 1 .. rp  OBVIOUS
      <4> QED  BY <4>1 DEF PeekSeek
    <3> QED  BY <2>1, <3>1 DEF SeekIn
  <2>3. Read  BY <1>1, <2>1, <2>2 DEF PairNext, Copy, FeedIn, PutOut, Write
  <2>4. step = "read" /\ call = "none" /\ rc = 0 /\ CopyInv /\ OutInv  BY <1>1, <2>1, <2>3 DEF Read, Inv
  <2>5. p = 0 /\ src = "none"  BY <2>4 DEF CopyInv, OutInv, WritesStayInBuffer
  <2>6. ~failed => Len(fd) = given - 0  BY <2>4, <2>5 DEF CopyInv, CopyGood, Unwritten
  <2>7. given \in Nat  BY <2>4 DEF OutInv, OutTypeOK
  <2> QED  BY <2>5, <2>6, <2>7
<1>2. CASE part \in {"read", "lines"}
  <2>1. p = 0 /\ given = 0 /\ fd = <<>>  BY <1>2 DEF Inv
  <2> QED  BY <2>1, EmptySeq
<1>3. CASE part = "write" /\ UNCHANGED <<part, invars, pairOnly, lineOnly>>
  BY <1>3 DEF invars
<1> QED  BY <1>1, <1>2, <1>3 DEF Next

\* A caller may trust what a call tells: a flush that returns 0 has written all that was
\* put, a read that returns 0 is at the end of the input, and input is waited for only
\* with the output shown (ResultsTellTruth, buffer.c:24, 77-142, 160-185).
THEOREM ResultsTrue == Spec => ResultsTellTruth
<1>1. Inv /\ [Next]_<<part, pairvars, lineOnly>>
        => [(call \in {"flush", "putflush"} /\ call' = "none" /\ rc' = 0)
              => p' = 0 /\ LastOf(fd)' = given]_outvars
  <2>1. ASSUME Inv, Next, call \in {"flush", "putflush"}, call' = "none", rc' = 0
        PROVE  p' = 0 /\ LastOf(fd)' = given
    <3>1. OutInv  BY <2>1 DEF Inv
    <3> QED  BY <2>1, <3>1, OutStep, FlushTells
  <2>2. UNCHANGED <<part, pairvars, lineOnly>> => UNCHANGED outvars  BY DEF pairvars
  <2> QED  BY <2>1, <2>2
<1>2. Inv /\ [Next]_<<part, pairvars, lineOnly>>
        => [ZeroAtEnd]_invars
  <2> SUFFICES ASSUME Inv, NEW k \in 1 .. MaxAsk, Get(k) \/ BGet(k), ret' = 0
               PROVE  taken' = Input /\ Len(got') = Input
    BY DEF ZeroAtEnd
  <2>1. k \in Nat /\ k # 0 /\ InInv  BY BufferInAssumption DEF Inv
  <2>2. InInv' /\ taken' = Input /\ rp' = 0  BY <2>1, GetKeeps
  <2>3. Input \in Nat /\ Input \in Int /\ Input - 0 = Input  BY BufferInAssumption
  <2>4. got' = UpTo(Input, Input)  BY <2>2, <2>3 DEF InInv
  <2> QED  BY <2>2, <2>3, <2>4, UpToSeq
<1>3. Inv /\ [Next]_<<part, pairvars, lineOnly>>
        => [rp = 0 /\ taken' # taken => p = 0 /\ (failed \/ Len(fd) = given)]_pairvars
  <2>1. UNCHANGED <<part, pairvars, lineOnly>> => UNCHANGED pairvars  OBVIOUS
  <2> QED  BY <2>1, ReadTells
<1>4. Spec => FlushEmpties  BY <1>1, InvAlways, PTL DEF Spec, FlushEmpties
<1>5. Spec => ZeroMeansEnd  BY <1>2, InvAlways, PTL DEF Spec, ZeroMeansEnd
<1>6. Spec => ReadsAfterFlush  BY <1>3, InvAlways, PTL DEF Spec, ReadsAfterFlush
<1> QED  BY <1>4, <1>5, <1>6 DEF ResultsTellTruth
=============================================================================
