---------------------------- MODULE Descriptors ----------------------------
(***************************************************************************)
(* Moving descriptors to the numbers a program expects them at (fd.c).     *)
(* The table of the process maps numbers to open files; F_DUPFD takes the  *)
(* lowest free number from its argument on, or fails.                      *)
(***************************************************************************)
EXTENDS Naturals

CONSTANTS Fds, OpenFiles, Closed

ASSUME FdAssumption == Fds \subseteq Nat

VARIABLES
  table,
  fret,   \* of the last call
  moved   \* history: the last call, and the table it found

fdVars == <<table, fret, moved>>

FdInit ==
  /\ table \in [Fds -> OpenFiles \cup {Closed}] /\ fret = 0
  /\ moved = [call |-> "none", to |-> 0, from |-> 0, found |-> table]

FreeFrom(t, n) == {k \in Fds : k >= n /\ t[k] = Closed}

\* faulty variant of Copied: the target is closed before the source is looked at
CopiedBlindly(to, from) ==
  LET shut == [table EXCEPT ![to] = Closed]
  IN  IF to = from THEN {[ret |-> 0, table |-> table]}
      ELSE IF table[from] = Closed THEN {[ret |-> 1, table |-> shut]}
      ELSE {[ret |-> 1, table |-> shut]}
           \cup {[ret |-> 0, table |-> [shut EXCEPT ![k] = table[from]]] :
                   k \in {j \in FreeFrom(shut, to) : \A l \in FreeFrom(shut, to) : j <= l}}

\* fd_copy: how it may end
Copied(to, from) ==
  LET shut == [table EXCEPT ![to] = Closed]
  IN  IF to = from THEN {[ret |-> 0, table |-> table]}
      ELSE IF table[from] = Closed THEN {[ret |-> 1, table |-> table]}
      ELSE {[ret |-> 1, table |-> shut]}
           \cup {[ret |-> 0, table |-> [shut EXCEPT ![k] = table[from]]] :
                   k \in {j \in FreeFrom(shut, to) : \A l \in FreeFrom(shut, to) : j <= l}}

FdCopy(to, from) ==
  /\ \E c \in Copied(to, from) : table' = c.table /\ fret' = c.ret
  /\ moved' = [call |-> "copy", to |-> to, from |-> from, found |-> table]

\* fd_move
FdMove(to, from) ==
  /\ \E c \in Copied(to, from) :
       /\ fret' = c.ret
       /\ table' = IF to # from /\ c.ret = 0 THEN [c.table EXCEPT ![from] = Closed] ELSE c.table
  /\ moved' = [call |-> "move", to |-> to, from |-> from, found |-> table]

FdNext == \E to, from \in Fds : FdCopy(to, from) \/ FdMove(to, from)

FdSpec == FdInit /\ [][FdNext]_fdVars

-----------------------------------------------------------------------------
\* A copy that succeeds gives the target what the source was, and takes it from there
\* when it is a move; one that fails can only have closed the target, and not when the
\* source was closed; no other descriptor is touched (fd.c:13-28).
CopyOrKeep ==
  LET t == moved.found IN
  moved.call # "none" =>
    /\ \A n \in Fds \ {moved.to, moved.from} : table[n] = t[n]
    /\ fret = 0 /\ moved.to # moved.from =>
         table[moved.to] = t[moved.from] /\ table[moved.from] = IF moved.call = "move" THEN Closed ELSE t[moved.from]
    /\ fret = 1 => /\ table[moved.from] = t[moved.from]
                   /\ table[moved.to] = t[moved.to] \/ (table[moved.to] = Closed /\ t[moved.from] # Closed)
=============================================================================
