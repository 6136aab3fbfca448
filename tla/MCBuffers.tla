----------------------------- MODULE MCBuffers -----------------------------
(***************************************************************************)
(* The buffers of buffer.c, used in four ways: a write buffer by itself,   *)
(* a read buffer by itself, lines read from a read buffer, and input       *)
(* copied to output through one of each.  The input has lines shorter and  *)
(* longer than the read buffer, an empty one, and a rest without a         *)
(* separator.                                                              *)
(***************************************************************************)
EXTENDS BufferPair, Getln

VARIABLE part

pairOnly == <<step, outcome, sent, failed>>
lineOnly == <<inside, sa, match, code, lines, broken>>

Init == part \in {"write", "read", "lines", "copy"} /\ PairInit /\ LineInit

Next ==
  \/ part = "write" /\ OutNext /\ UNCHANGED <<part, invars, pairOnly, lineOnly>>
  \/ part = "read" /\ InNext /\ UNCHANGED <<part, outvars, pairOnly, lineOnly>>
  \/ part = "lines" /\ LineNext /\ UNCHANGED <<part, outvars, pairOnly>>
  \/ part = "copy" /\ PairNext /\ UNCHANGED <<part, lineOnly>>

Spec == Init /\ [][Next]_<<part, pairvars, lineOnly>>
-----------------------------------------------------------------------------
\* Neither buffer is left, filled or written beyond its bounds, and what allwrite is
\* at has been taken out of the buffer before (buffer.c:92-204).
StaysInBuffers == OutTypeOK /\ WritesStayInBuffer /\ InTypeOK /\ (part = "copy" => PairTypeOK)

\* The lines getln gives are the input, no byte twice or lost, and each ends in its
\* only separator or at the end of the input (getln.c:23-42).
LinesAreInput == part = "lines" => LinesPartitionInput /\ LineShape

\* What a copy writes is what it has read, in its order (buffer.c:60-75).
CopyInOrder == part = "copy" => CopiesInOrder

\* A caller may trust what a call tells: a flush that returns 0 has written all that
\* was put, a read that returns 0 is at the end of the input, and whoever reads from
\* the other side has been shown the output before (buffer.c:24, 77-142, 160-185).
ResultsTellTruth == FlushEmpties /\ ZeroMeansEnd /\ ReadsAfterFlush
=============================================================================
