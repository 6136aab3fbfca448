----------------------------- MODULE BufferOut -----------------------------
(***************************************************************************)
(* A write buffer of buffer.c: a struct buffer whose op writes, and the    *)
(* calls buffer_put, buffer_putalign, buffer_putflush and buffer_flush.    *)
(* Every call of op is a step of its own: it may take any part of what it  *)
(* is given, nothing, be interrupted, or fail.                             *)
(*                                                                         *)
(* The i-th byte that a caller hands over is the number i, so a position   *)
(* tells one byte from another and nothing else does.                      *)
(***************************************************************************)
EXTENDS Integers, Sequences

CONSTANTS
  Size,      \* s->n: bytes of the buffer
  OutSize,   \* BUFFER_OUTSIZE
  MaxGiven,  \* bound: bytes handed over in a behaviour
  MaxLen     \* bound: bytes handed over in a call

ASSUME BufferOutAssumption ==
  /\ Size \in Nat \ {0} /\ OutSize \in Nat \ {0}
  /\ MaxGiven \in Nat /\ MaxLen \in Nat

VARIABLES
  x,      \* s->x
  p,      \* s->p: bytes held, x[0] to x[p - 1]
  call,   \* the function called, "none" between calls
  len,    \* bytes of its argument not yet taken: the last len of those given
  src,    \* what allwrite writes: "x", "buf", or "none" if it is not running
  at,     \* bytes it has written of that
  left,   \* bytes it has yet to write
  rc,     \* return value of the last call
  given,  \* bytes handed over so far
  fd      \* what op has written, in order

state == <<x, p, call, len, src, at, left, rc>>
outvars == <<state, given, fd>>

Calls == {"put", "putalign", "putflush", "flush"}

OutTypeOK ==
  /\ x \in [0 .. Size - 1 -> Nat]
  /\ p \in 0 .. Size
  /\ call \in Calls \cup {"none"}
  /\ len \in 0 .. given
  /\ src \in {"x", "buf", "none"}
  /\ at \in Nat /\ left \in Nat
  /\ rc \in {0, -1}
  /\ given \in Nat
  /\ fd \in Seq(Nat)

-----------------------------------------------------------------------------
\* byte k (from 1) of the argument, of which l bytes are left and g were given
Arg(g, l, k) == g - l + k

\* byte_copy(s->x + q,k,buf) with the next k bytes of the argument
Copied(y, q, k, l, g) ==
  [i \in 0 .. Size - 1 |-> IF i \in q .. q + k - 1 THEN Arg(g, l, i - q + 1) ELSE y[i]]

Return(code) == call' = "none" /\ rc' = code /\ src' = "none" /\ at' = 0 /\ left' = 0

\* allwrite(op,fd,what,k) begins
AllWrite(what, k) == src' = what /\ at' = 0 /\ left' = k

\* the rest l of the argument fits: copy it behind the q bytes in y and return
CopyRest(y, q, l) ==
  /\ x' = Copied(y, q, l, l, given') /\ p' = q + l /\ len' = 0
  /\ Return(0)

\* faulty variant of FlushIn: empties the buffer only after the write
FlushInLate(c, y, q, l) ==
  /\ call' = c /\ x' = y /\ p' = q /\ len' = l
  /\ AllWrite("x", q)
  /\ UNCHANGED rc

\* buffer_flush from within call c, with y and q in the buffer and l to come
FlushIn(c, y, q, l) ==
  /\ call' = c /\ x' = y /\ p' = 0 /\ len' = l
  /\ AllWrite("x", q)
  /\ UNCHANGED rc

\* the direct writes of buffer_put once the buffer is empty; n is what the
\* previous one was asked to write
PutDirect(l, n) ==
  IF l > Size
  THEN /\ AllWrite("buf", IF n > l THEN l ELSE n)
       /\ call' = "put" /\ len' = l
       /\ UNCHANGED <<x, p, rc>>
  ELSE CopyRest(x, p, l)

FirstDirect == IF Size < OutSize THEN OutSize ELSE Size

\* the loop of buffer_putalign, with q bytes in y and l bytes to come
PutAligned(y, q, l) ==
  LET n == Size - q IN
  IF l > n THEN FlushIn("putalign", Copied(y, q, n, l, given'), Size, l - n)
           ELSE CopyRest(y, q, l)

\* buffer_putflush once the buffer is empty
PutThrough(l) ==
  IF l > 0
  THEN /\ AllWrite("buf", l)
       /\ call' = "putflush" /\ len' = l
       /\ UNCHANGED <<x, p, rc>>
  ELSE Return(0) /\ len' = 0 /\ UNCHANGED <<x, p>>

-----------------------------------------------------------------------------
Give(k) == call = "none" /\ given' = given + k /\ given' <= MaxGiven

Put(k) ==
  /\ Give(k)
  /\ IF k <= Size - p THEN CopyRest(x, p, k)
     ELSE IF p > 0 THEN FlushIn("put", x, p, k) ELSE PutDirect(k, FirstDirect)
  /\ UNCHANGED fd

PutAlign(k) == Give(k) /\ PutAligned(x, p, k) /\ UNCHANGED fd

PutFlush(k) ==
  /\ Give(k)
  /\ IF p > 0 THEN FlushIn("putflush", x, p, k) ELSE PutThrough(k)
  /\ UNCHANGED fd

Flush ==
  /\ Give(0)
  /\ IF p > 0 THEN FlushIn("flush", x, p, 0)
              ELSE Return(0) /\ len' = 0 /\ UNCHANGED <<x, p>>
  /\ UNCHANGED fd

\* the bytes allwrite is at
Pending(i) == IF src = "x" THEN x[at + i - 1] ELSE Arg(given, len, at + i)

\* where the call goes on when allwrite has returned 0
Continue ==
  CASE src = "x" /\ call = "put"       -> PutDirect(len, FirstDirect)
    [] src = "x" /\ call = "putalign"  -> PutAligned(x, p, len)
    [] src = "x" /\ call = "putflush"  -> PutThrough(len)
    [] src = "buf" /\ call = "put"     -> PutDirect(len - (at + left), at + left)
    [] OTHER                           -> Return(0) /\ len' = 0 /\ UNCHANGED <<x, p>>

\* op takes r bytes
WriteSome(r) ==
  /\ r \in 1 .. left
  /\ fd' = fd \o [i \in 1 .. r |-> Pending(i)]
  /\ UNCHANGED given
  /\ IF r < left
     THEN /\ at' = at + r /\ left' = left - r
          /\ UNCHANGED <<x, p, call, len, src, rc>>
     ELSE Continue

\* op returns 0 or is interrupted: allwrite tries again
WriteNothing == left > 0 /\ UNCHANGED outvars

\* faulty variant of WriteFails: the bytes are gone and the call returns 0
WriteFailsQuietly ==
  /\ left > 0
  /\ Return(0) /\ len' = 0
  /\ UNCHANGED <<x, p, given, fd>>

\* op fails: what allwrite had left, and the rest of the argument, are dropped
WriteFails ==
  /\ left > 0
  /\ Return(-1) /\ len' = 0
  /\ UNCHANGED <<x, p, given, fd>>

OutInit ==
  /\ x = [i \in 0 .. Size - 1 |-> 0] /\ p = 0
  /\ call = "none" /\ len = 0 /\ src = "none" /\ at = 0 /\ left = 0 /\ rc = 0
  /\ given = 0 /\ fd = <<>>

OutNext ==
  \/ \E k \in 0 .. MaxLen : Put(k) \/ PutAlign(k) \/ PutFlush(k)
  \/ Flush
  \/ \E r \in 1 .. left : WriteSome(r)
  \/ WriteNothing \/ WriteFails

OutSpec == OutInit /\ [][OutNext]_outvars

-----------------------------------------------------------------------------
(***************************************************************************)
(* Properties                                                              *)
(***************************************************************************)
\* What is not yet written: the rest of a flush under way, then what the
\* buffer holds, then the rest of the argument.
InFlight == IF src = "x" THEN [i \in 1 .. left |-> x[at + i - 1]] ELSE <<>>
Held     == [i \in 1 .. p |-> x[i - 1]]
Rest     == LET taken == IF src = "buf" THEN at ELSE 0
            IN  [i \in 1 .. len - taken |-> Arg(given, len, taken + i)]

LastOf(s) == s[Len(s)]

Queue == INSTANCE ByteQueue WITH queue <- InFlight \o Held \o Rest, busy <- call # "none"

\* Whatever mix of buffer_put, buffer_putalign, buffer_putflush and
\* buffer_flush is called, and however op cuts up, delays or fails the writes,
\* the buffer is a queue: bytes come out once and in the order they went in; a
\* call that returns 0 has lost none, and bytes are dropped only by a failing
\* write, in the call that returns -1 for it (buffer.c:142-210).
QueueSpec == Queue!Spec

\* buffer_flush and buffer_putflush return 0 only with everything written that
\* no earlier failure dropped (man/buffer.3:44-48).
FlushEmpties ==
  [][(call \in {"flush", "putflush"} /\ call' = "none" /\ rc' = 0)
       => p' = 0 /\ LastOf(fd)' = given]_outvars

\* While allwrite is at the contents of x, nothing has been put there, and what
\* it writes of the argument is part of it (buffer.c:160-204).
WritesStayInBuffer ==
  /\ src = "x" => p = 0 /\ at + left <= Size
  /\ src = "buf" => p = 0 /\ at + left <= len
  /\ (src = "none") = (call = "none") /\ (left = 0) = (src = "none")
=============================================================================
