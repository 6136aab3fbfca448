----------------------------- MODULE ByteQueue -----------------------------
(***************************************************************************)
(* What a write buffer promises: a queue of bytes between its callers and  *)
(* a file.  A call hands its bytes over at the end and, until it returns,  *)
(* bytes at the head go to the file.  It returns 0 with every byte still   *)
(* in the queue or in the file.  Bytes are lost in one way only: the call  *)
(* under way fails, empties the queue and tells so by returning -1.        *)
(***************************************************************************)
EXTENDS Integers, Sequences

VARIABLES
  given, queue, fd,
  busy,   \* a call is under way
  rc      \* result of the last call that returned

qvars == <<given, queue, fd, busy, rc>>

Init == given = 0 /\ queue = <<>> /\ fd = <<>> /\ ~busy /\ rc = 0

\* the call goes on, or returns 0
GoesOn  == busy' /\ UNCHANGED rc
Returns == ~busy' /\ rc' = 0

Moved(q, r) == /\ fd' = fd \o SubSeq(q, 1, r)
               /\ queue' = SubSeq(q, r + 1, Len(q))

Give == /\ ~busy
        /\ given' >= given
        /\ queue' = queue \o [i \in 1 .. given' - given |-> given + i]
        /\ UNCHANGED fd
        /\ GoesOn \/ Returns

Emit == /\ busy
        /\ \E r \in 1 .. Len(queue) : Moved(queue, r)
        /\ UNCHANGED given
        /\ GoesOn \/ Returns

Drop == /\ busy
        /\ queue' = <<>> /\ UNCHANGED <<given, fd>>
        /\ ~busy' /\ rc' = -1

Next == Give \/ Emit \/ Drop

Spec == Init /\ [][Next]_qvars
=============================================================================
