----------------------------- MODULE ReadClose -----------------------------
(***************************************************************************)
(* A whole file read into a dynamic string: openreadclose, readclose and   *)
(* readclose_append (readclose.c).  The string grows before each read;     *)
(* signals interrupt reads, reads are short, and memory may run out.       *)
(***************************************************************************)
EXTENDS Stralloc

CONSTANTS BufSize, FileMax

\* a length of callers, as those of stralloc are
ASSUME ReadCloseAssumption == BufSize \in 1 .. UInt - 1 /\ FileMax \in Nat

VARIABLES
  at,      \* where the call is
  file,    \* bytes of the file
  taken,   \* bytes read of it
  isopen,  \* is the descriptor open
  before,  \* what the string held in front of them
  append,  \* readclose_append was called itself
  result   \* of the last call

readVars == <<at, file, taken, isopen, before, append, result>>

ReadInit ==
  /\ at = "idle" /\ file = 0 /\ taken = 0 /\ isopen = FALSE /\ before = <<>>
  /\ append = FALSE /\ result = 0

\* the string's history is kept for its own calls
Into(x) == sa' = x /\ UNCHANGED <<ret, end, want, count>>
Same == UNCHANGED strallocVars

\* openreadclose: a file that does not exist is no error
Open(n) ==
  /\ at = "idle" /\ file' = n /\ taken' = 0 /\ before' = <<>> /\ append' = FALSE /\ Same
  /\ \/ at' = "clear" /\ isopen' = TRUE /\ UNCHANGED result
     \/ at' = "idle" /\ result' \in {0, -1} /\ UNCHANGED isopen

\* readclose_append, of a descriptor the caller has opened
AppendFile(n) ==
  /\ at = "idle" /\ file' = n /\ taken' = 0 /\ before' = sa.text /\ append' = TRUE
  /\ at' = "append" /\ isopen' = TRUE /\ Same /\ UNCHANGED result

Close(r) == isopen' = FALSE /\ at' = "idle" /\ result' = r

\* readclose
Clear(mem) ==
  LET r == CopyB(sa, <<>>, mem) IN
  /\ at = "clear" /\ Into(r.sa) /\ UNCHANGED <<file, taken, before, append>>
  /\ IF r.ret = 0 THEN Close(-1) ELSE at' = "append" /\ UNCHANGED <<isopen, result>>

\* readclose_append: room for one more read
Grow(mem) ==
  LET r == ReadyPlus(sa, BufSize, mem) IN
  /\ at = "append" /\ Into(r.sa) /\ UNCHANGED <<file, taken, before, append>>
  /\ IF r.ret = 0 THEN Close(-1) ELSE at' = "read" /\ UNCHANGED <<isopen, result>>

\* faulty variant of Read: an interrupted read is taken for the end
ReadEndsEarly ==
  /\ at = "read" /\ UNCHANGED <<file, before, append>>
  /\ \/ \E n \in 1 .. BufSize :
          /\ n <= file - taken /\ Into([sa EXCEPT !.text = @ \o Some("f", n)])
          /\ taken' = taken + n /\ at' = "append" /\ UNCHANGED <<isopen, result>>
     \/ Close(IF append THEN 0 ELSE 1) /\ Same /\ UNCHANGED taken
     \/ Close(-1) /\ Same /\ UNCHANGED taken

\* readclose_append: read gives bytes, the end, EINTR, or another error; at the end it
\* returns 0, and openreadclose 1
Read ==
  /\ at = "read" /\ UNCHANGED <<file, before, append>>
  /\ \/ \E n \in 1 .. BufSize :
          /\ n <= file - taken /\ Into([sa EXCEPT !.text = @ \o Some("f", n)])
          /\ taken' = taken + n /\ at' = "append" /\ UNCHANGED <<isopen, result>>
     \/ taken = file /\ Close(IF append THEN 0 ELSE 1) /\ Same /\ UNCHANGED taken
     \/ at' = "append" /\ Same /\ UNCHANGED <<taken, isopen, result>>
     \/ Close(-1) /\ Same /\ UNCHANGED taken

ReadNext ==
  \/ \E n \in 0 .. FileMax : Open(n) \/ AppendFile(n)
  \/ \E mem \in BOOLEAN : Clear(mem) \/ Grow(mem)
  \/ Read

ReadSpec == StrallocInit /\ ReadInit /\ [][ReadNext]_<<strallocVars, readVars>>

\* the same string is used in other calls as well
FilesNext == InRoom /\ (ReadNext \/ (at = "idle" /\ StrallocNext /\ UNCHANGED readVars))
FilesSpec == StrallocInit /\ ReadInit /\ [][FilesNext]_<<strallocVars, readVars>>

-----------------------------------------------------------------------------
\* No byte is written behind what is allocated, neither by the string's own calls with
\* the byte they put behind a text nor by a read, although every sum of lengths may wrap.
\* The sum of stralloc_copyb and stralloc_catb is not looked at: a text of 2^32 - 1 bytes,
\* or that and a multiple of 2^32, finds no room made for it and is written all the same
\* (stralloc.c:29, 49-68, 72, readclose.c:17-20).
WritesInRoom == /\ InRoom \/ count % UInt = UInt - 1
                /\ at = "read" => Len(sa.text) + BufSize <= sa.a

\* However a read of a file is interrupted or fails, its descriptor is closed once it
\* returns, the string holds what was read behind what it held before, and success
\* means all of it (readclose.c:14-45).
FileIsRead ==
  at = "idle" =>
    /\ ~isopen
    /\ taken > 0 => sa.text = before \o Some("f", taken)
    /\ (result = 1 \/ (append /\ result = 0)) => sa.text = before \o Some("f", file)
=============================================================================
