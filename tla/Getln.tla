------------------------------- MODULE Getln -------------------------------
(***************************************************************************)
(* getln and sgetln, getln.c, on a read buffer: lines that end in a        *)
(* separator, gathered in a stralloc.  Reads and allocations may fail.     *)
(***************************************************************************)
EXTENDS BufferIn, SequencesExt

CONSTANT Seps   \* places of the separators in the input

ASSUME GetlnAssumption == Seps \subseteq 1 .. Input

VARIABLES
  inside,  \* a call is under way
  sa,      \* the stralloc
  match,   \* *match
  code,    \* return value of the last call
  lines,   \* the lines returned so far
  broken   \* a call has failed

lnvars == <<invars, inside, sa, match, code, lines, broken>>

LineTypeOK ==
  /\ inside \in BOOLEAN /\ broken \in BOOLEAN
  /\ match \in {0, 1} /\ code \in {0, -1}
  /\ sa \in Seq(Nat) /\ lines \in Seq(Seq(Nat))

\* byte_chr(x,rp,sep): how many held bytes come before the first separator
Chr(b) ==
  LET seps == {i \in 1 .. b.p : Bytes(b, b.p)[i] \in Seps}
  IN  IF seps = {} THEN b.p ELSE (CHOOSE i \in seps : \A j \in seps : i <= j) - 1

Fail == inside' = FALSE /\ code' = -1 /\ broken' = TRUE /\ UNCHANGED <<match, lines>>

\* getln returns 0 with the line and *match
Matched(m, line) ==
  /\ inside' = FALSE /\ code' = 0 /\ match' = m /\ sa' = line
  /\ lines' = Append(lines, line)
  /\ UNCHANGED broken

\* faulty variant of Begin: appends to the line before
BeginAppends ==
  /\ ~inside
  /\ inside' = TRUE /\ UNCHANGED <<sa, match, code, lines, broken>>
  /\ UNCHANGED invars

\* stralloc_ready(sa,0) may fail
Begin ==
  /\ ~inside
  /\ \/ inside' = TRUE /\ sa' = <<>> /\ UNCHANGED <<match, code, lines, broken>>
     \/ Fail /\ UNCHANGED sa
  /\ UNCHANGED invars

\* the loop finds the buffer empty: read, or give up, or the input ends
Refill ==
  /\ inside /\ rp = 0 /\ FeedEmpty
  /\ \/ ret' > 0 /\ UNCHANGED <<inside, sa, match, code, lines, broken>>
     \/ ret' = 0 /\ Matched(0, sa)
     \/ ret' = -1 /\ Fail /\ UNCHANGED sa

\* it finds the separator; getln appends what lies before and the separator,
\* having taken both from the buffer, or fails to
Complete ==
  /\ inside /\ rp > 0 /\ Chr(Struct) < rp
  /\ PeekSeek(Chr(Struct) + 1)
  /\ \/ Matched(1, sa \o Bytes(Struct, Chr(Struct) + 1))
     \/ Fail /\ UNCHANGED sa

\* it does not: all that is held goes to the stralloc, if there is memory
Gather ==
  /\ inside /\ rp > 0 /\ Chr(Struct) = rp
  /\ \/ /\ sa' = sa \o Bytes(Struct, rp)
        /\ GetHeld(rp)
        /\ UNCHANGED <<inside, match, code, lines, broken>>
     \/ Fail /\ UNCHANGED <<invars, sa>>

LineInit ==
  /\ InInit
  /\ inside = FALSE /\ sa = <<>> /\ match = 0 /\ code = 0
  /\ lines = <<>> /\ broken = FALSE

\* the caller stops at the end of the input
LineNext ==
  \/ (lines = <<>> \/ match = 1) /\ Begin
  \/ Refill \/ Complete \/ Gather

LineSpec == LineInit /\ [][LineNext]_lnvars

-----------------------------------------------------------------------------
(***************************************************************************)
(* Properties                                                              *)
(***************************************************************************)
\* As long as no call has failed, the lines returned and the line being
\* gathered are the input taken from the buffer, cut in pieces: nothing is
\* lost, repeated or reordered at the joins (getln.c:23-42).
LinesPartitionInput ==
  ~broken => FlattenSeq(lines) \o (IF inside THEN sa ELSE <<>>) = got

\* A matched line ends in its only separator; the partial line is returned with
\* match 0, has none, and comes only at the end of the input (man/getln.3).
LineShape ==
  code = 0 /\ ~inside /\ lines # <<>> /\ ~broken =>
    LET line == lines[Len(lines)]
        cuts == {i \in DOMAIN line : line[i] \in Seps}
    IN  IF match = 1 THEN cuts = {Len(line)} ELSE cuts = {} /\ got = [i \in 1 .. Input |-> i]
=============================================================================
