------------------------------- MODULE Alloc -------------------------------
(***************************************************************************)
(* Memory (alloc.c): a static space that is given away from its end and    *)
(* never taken back, and malloc behind it.  Lengths are unsigned int, and  *)
(* rounding them up may wrap.                                              *)
(***************************************************************************)
EXTENDS Integers

CONSTANTS
  UWord,     \* values of an unsigned int (2^32)
  Align,     \* ALIGNMENT
  Space,     \* SPACE
  Requests,  \* lengths the callers ask for
  BlocksMax  \* bound: blocks asked for

ASSUME AllocAssumption ==
  /\ Align \in Nat \ {0} /\ Space \in Nat /\ UWord \in Nat /\ Space % Align = 0 /\ Space < UWord /\ UWord % Align = 0
  /\ Requests \subseteq 0 .. UWord - 1

VARIABLES
  avail,    \* bytes of the space that are left
  blocks,   \* blocks in use: where, of what length, and what was asked for
  number,   \* history: calls of alloc
  wrapped,  \* history: the rounding of a length has wrapped
  foreign   \* history: free was called with a pointer that is not from malloc

allocVars == <<avail, blocks, number, wrapped, foreign>>

AllocInit == avail = Space /\ blocks = {} /\ number = 0 /\ wrapped = FALSE /\ foreign = FALSE

\* faulty variant of Rounded: a multiple of the alignment is enough for any length
RoundedDown(n) == (n - (n % Align)) % UWord

Rounded(n) == (Align + n - (n % Align)) % UWord

\* alloc: the block of n bytes is in the space or from malloc
Given(n) ==
  [asked |-> n, size |-> Rounded(n), heap |-> IF Rounded(n) <= avail THEN 0 ELSE number + 1,
   at |-> IF Rounded(n) <= avail THEN avail - Rounded(n) ELSE 0]

Gets(n) ==
  /\ number < BlocksMax /\ number' = number + 1
  /\ avail' = IF Rounded(n) <= avail THEN avail - Rounded(n) ELSE avail
  /\ wrapped' = (wrapped \/ Align + n - (n % Align) >= UWord)

NoMemory(n) == Rounded(n) > avail /\ UNCHANGED allocVars

\* alloc_free: what is in the space stays there, anything else goes to free
Frees(b) == foreign' = (foreign \/ (b.heap = 0 /\ b.at >= Space))

AllocNew(n) == Gets(n) /\ blocks' = blocks \cup {Given(n)} /\ UNCHANGED foreign
AllocFree(b) == Frees(b) /\ blocks' = blocks \ {b} /\ UNCHANGED <<avail, number, wrapped>>

\* alloc_re: the new block before the old one is given back
AllocRe(b, n) == Gets(n) /\ Frees(b) /\ blocks' = (blocks \ {b}) \cup {Given(n)}

AllocNext ==
  \/ \E n \in Requests : AllocNew(n) \/ NoMemory(n) \/ \E b \in blocks : AllocRe(b, n)
  \/ \E b \in blocks : AllocFree(b)

AllocSpec == AllocInit /\ [][AllocNext]_allocVars

-----------------------------------------------------------------------------
\* Blocks in use lie apart, each with the room that was asked for, and free is given only
\* what malloc gave, as long as no length was so large that rounding it up wraps, which
\* the code leaves open (alloc.c:14-42).
BlocksApart ==
  ~wrapped =>
    /\ ~foreign
    /\ \A b \in blocks :
         /\ b.size >= b.asked
         /\ b.heap = 0 =>
              /\ b.at >= avail /\ b.at + b.size <= Space /\ b.at % Align = 0
              /\ \A c \in blocks \ {b} : c.heap = 0 => b.at + b.size <= c.at \/ c.at + c.size <= b.at
=============================================================================
