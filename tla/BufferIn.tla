------------------------------ MODULE BufferIn ------------------------------
(***************************************************************************)
(* A read buffer of buffer.c: a struct buffer whose op reads, with the     *)
(* calls buffer_feed, buffer_get, buffer_bget and buffer_seek.  The bytes  *)
(* held are kept at the end of the space, so that rn is both the room for  *)
(* the next read and the place where they begin.                           *)
(*                                                                         *)
(* The i-th byte of the input is the number i.  A read may return any      *)
(* part of what was asked for, or fail; interrupted reads are repeated at  *)
(* once and leave no trace.                                                *)
(***************************************************************************)
EXTENDS Integers, Sequences

CONSTANTS
  RSize,   \* s->n of the empty buffer
  Input,   \* bytes of the input
  MaxAsk   \* bound: len of a call

ASSUME BufferInAssumption == RSize \in Nat \ {0} /\ Input \in Nat /\ MaxAsk \in Nat

VARIABLES
  rx,     \* s->x
  rp,     \* s->p: bytes held
  rn,     \* s->n
  taken,  \* bytes that op has delivered
  got,    \* bytes that the caller has received, in order
  ret     \* last return value

invars == <<rx, rp, rn, taken, got, ret>>

InTypeOK ==
  /\ rx \in [0 .. RSize - 1 -> Nat]
  /\ rp \in 0 .. RSize /\ rn \in 0 .. RSize /\ rp + rn <= RSize
  /\ taken \in 0 .. Input
  /\ got \in Seq(Nat)
  /\ ret \in Int

\* what oneread(op,fd,buf,k) may return: bytes, 0 for the end of the input or
\* for k = 0, -1 for an error
Outcomes(k) ==
  {r \in 1 .. k : taken + r <= Input}
    \cup (IF k = 0 \/ taken = Input THEN {0} ELSE {}) \cup {-1}

Fresh(r) == [i \in 1 .. r |-> taken + i]

(***************************************************************************)
(* The struct as a value: buffer_feed after a read of r bytes, and getthis *)
(***************************************************************************)
Struct == [x |-> rx, p |-> rp, n |-> rn]

\* faulty variant of MovedUp: byte_copy, which copies the first byte first
MovedUpByCopy(x, n, r) ==
  [i \in 0 .. RSize - 1 |-> IF i \in n .. n + r - 1 THEN x[(i - n) % n] ELSE x[i]]

\* byte_copyr(x + n,r,x): copies the last byte first, so the bytes survive
\* when the two places overlap
MovedUp(x, n, r) == [i \in 0 .. RSize - 1 |-> IF i \in n .. n + r - 1 THEN x[i - n] ELSE x[i]]

Fed(b, r) ==
  LET x == [i \in 0 .. RSize - 1 |-> IF i < r THEN taken + i + 1 ELSE b.x[i]]
      n == b.n - r
  IN  [x |-> IF n > 0 THEN MovedUp(x, n, r) ELSE x, p |-> r, n |-> n]

Count(b, len) == IF len > b.p THEN b.p ELSE len
Bytes(b, k) == [i \in 1 .. k |-> b.x[b.n + i - 1]]

Seek(b, k) == [x |-> b.x, p |-> b.p - k, n |-> b.n + k]

SetStruct(b) == rx' = b.x /\ rp' = b.p /\ rn' = b.n

\* getthis(s,buf,len) from b, bytes delivered included
GetThis(b, len) ==
  LET k == Count(b, len) IN
  /\ got' = got \o Bytes(b, k)
  /\ SetStruct(Seek(b, k))
  /\ ret' = k

\* buffer_feed that finds the buffer empty
FeedEmpty ==
  /\ rp = 0
  /\ \E r \in Outcomes(rn) :
       /\ ret' = r
       /\ IF r <= 0 THEN UNCHANGED <<rx, rp, rn, taken>>
          ELSE SetStruct(Fed(Struct, r)) /\ taken' = taken + r
  /\ UNCHANGED got

FeedHeld == rp > 0 /\ ret' = rp /\ UNCHANGED <<rx, rp, rn, taken, got>>

\* buffer_get and buffer_bget that find bytes
GetHeld(len) == rp > 0 /\ GetThis(Struct, len) /\ UNCHANGED taken

\* past the buffer: a read into the caller's space, of up to k bytes
GetDirect(k) ==
  /\ \E r \in Outcomes(k) :
       /\ ret' = r
       /\ IF r <= 0 THEN UNCHANGED <<taken, got>>
          ELSE got' = got \o Fresh(r) /\ taken' = taken + r
  /\ UNCHANGED <<rx, rp, rn>>

\* through the buffer
GetFed(len) ==
  \E r \in Outcomes(rn) :
    IF r <= 0 THEN ret' = r /\ UNCHANGED <<rx, rp, rn, taken, got>>
    ELSE GetThis(Fed(Struct, r), len) /\ taken' = taken + r

\* buffer_get and buffer_bget that find nothing
GetEmpty(len)  == rp = 0 /\ IF rn <= len THEN GetDirect(len) ELSE GetFed(len)
BGetEmpty(len) == rp = 0 /\ IF rn <= len THEN GetDirect(rn) ELSE GetFed(len)

Feed      == FeedHeld \/ FeedEmpty
Get(len)  == GetHeld(len) \/ GetEmpty(len)
BGet(len) == GetHeld(len) \/ BGetEmpty(len)

\* the caller uses the first k bytes of buffer_peek and seeks past them
PeekSeek(k) ==
  /\ k \in 1 .. rp
  /\ got' = got \o Bytes(Struct, k)
  /\ SetStruct(Seek(Struct, k))
  /\ UNCHANGED <<taken, ret>>

InInit ==
  /\ rx = [i \in 0 .. RSize - 1 |-> 0] /\ rp = 0 /\ rn = RSize
  /\ taken = 0 /\ got = <<>> /\ ret = 0

InNext ==
  \/ Feed
  \/ \E len \in 0 .. MaxAsk : Get(len) \/ BGet(len)
  \/ \E k \in 1 .. RSize : PeekSeek(k)

InSpec == InInit /\ [][InNext]_invars

-----------------------------------------------------------------------------
(***************************************************************************)
(* Properties                                                              *)
(***************************************************************************)
\* Whatever mix of feeding, getting and seeking: what the caller has received,
\* followed by what the buffer holds, is the input up to what was read, and the
\* bytes held end where the space ends (buffer.c:77-140).
NothingSkipped ==
  /\ rp + rn = RSize
  /\ got \o Bytes(Struct, rp) = [i \in 1 .. taken |-> i]

\* a get that returns 0
ZeroAtEnd ==
  \A len \in 1 .. MaxAsk : (Get(len) \/ BGet(len)) /\ ret' = 0
    => taken' = Input /\ Len(got') = Input

\* buffer_get and buffer_bget return 0 only when the input is at its end or
\* nothing was asked for, never because the buffer is empty (man/buffer.3:80-84).
ZeroMeansEnd == [][ZeroAtEnd]_invars
=============================================================================
