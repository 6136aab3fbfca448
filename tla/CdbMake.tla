------------------------------ MODULE CdbMake ------------------------------
(***************************************************************************)
(* The writer of a constant database, cdbmake.c: cdb_make_start,           *)
(* cdb_make_add and cdb_make_finish.                                       *)
(*                                                                         *)
(* The file is a function from offsets to what was written there, item by  *)
(* item: the two lengths of a record, its key, its data, a hash slot, half *)
(* an entry of the header.  The write buffer is the queue of items that    *)
(* module ByteQueue makes of it.  A failing write, seek or alloc and the   *)
(* death of the process all leave the file as it is at that moment.        *)
(***************************************************************************)
EXTENDS Integers, SequencesExt

CONSTANTS
  Key, KeyLen,  \* keys and their lengths
  Hash,         \* cdb_hash
  DataLens,     \* lengths of data
  Tables,       \* hash tables: 256
  HPList,       \* CDB_HPLIST, entries of a struct cdb_hplist
  Mod,          \* positions are 32 bits wide: 2^32
  MaxRecords    \* bound: records added

HeaderSize == 8 * Tables   \* sizeof(c->final)

ASSUME CdbMakeAssumption ==
  /\ KeyLen \in [Key -> Nat] /\ Hash \in [Key -> Nat]
  /\ \A k, l \in Key : KeyLen[k] = 0 /\ KeyLen[l] = 0 => k = l   \* one empty key
  /\ DataLens \subseteq Nat
  /\ Tables \in Nat \ {0} /\ HPList \in Nat \ {0}
  /\ Mod \in Nat /\ HeaderSize < Mod
  /\ MaxRecords \in Nat

VARIABLES
  stage,   \* "add", "flush" and "header" within cdb_make_finish, "done", "failed"
  head,    \* c->head: the lists of hash and position, the newest list first
  pos,     \* c->pos
  final,   \* c->final: the header, once it is known
  queue,   \* items put and not yet written
  off,     \* file offset of the descriptor
  file,    \* what the file holds
  records  \* history: the records added

cdbvars == <<stage, head, pos, final, queue, off, file, records>>

Item(size, what) == [size |-> size, is |-> what]

\* an item without bytes is nothing
PutItem(size, what) == IF size > 0 THEN <<Item(size, what)>> ELSE <<>>

SizeOf(s) ==
  LET sum[n \in 0 .. Len(s)] == IF n = 0 THEN 0 ELSE sum[n - 1] + s[n].size
  IN  sum[Len(s)]

-----------------------------------------------------------------------------
(***************************************************************************)
(* Hash tables                                                             *)
(***************************************************************************)
Table(h) == h % Tables

\* faulty variant of Newest: the oldest entry first
NewestForward(hs) == Reverse(FlattenSeq([i \in DOMAIN hs |-> Reverse(hs[i])]))

\* the entries in the order of the two loops of cdb_make_finish over x and i:
\* the last one added comes first
Newest(hs) == FlattenSeq([i \in DOMAIN hs |-> Reverse(hs[i])])

\* c->split from c->start[i] on, filled from its end
Split(hs, i) ==
  LET es == Newest(hs)
      split[n \in 0 .. Len(es)] ==
        IF n = 0 THEN <<>>
        ELSE IF Table(es[n].h) = i THEN <<es[n]>> \o split[n - 1] ELSE split[n - 1]
  IN  split[Len(es)]

NoEntry == [h |-> 0, p |-> 0]

\* faulty variant of Insert: does not look whether the slot is taken
InsertOver(t, e) ==
  LET len == Len(t) IN [t EXCEPT ![((e.h \div Tables) % len) + 1] = e]

\* the first free slot from where on, around the end
Insert(t, e) ==
  LET len   == Len(t)
      Slot(k) == (((e.h \div Tables) + k) % len) + 1
      free  == {k \in 0 .. len - 1 : t[Slot(k)].p = 0}
      first == CHOOSE k \in free : \A j \in free : k <= j
  IN  [t EXCEPT ![Slot(first)] = e]

\* c->hash for table i: twice as many slots as entries
HashTable(hs, i) ==
  LET entries == Split(hs, i)
      hash[n \in 0 .. Len(entries)] ==
        IF n = 0 THEN [u \in 1 .. 2 * Len(entries) |-> NoEntry]
        ELSE Insert(hash[n - 1], entries[n])
  IN  hash[Len(entries)]

AllTables(hs) == [i \in 1 .. Tables |-> HashTable(hs, i - 1)]

Slots(hs) ==
  LET cells == FlattenSeq(AllTables(hs))
  IN  [u \in DOMAIN cells |-> Item(8, cells[u])]

\* the header: where each table begins when the first begins at q, and its slots
Header(hs, q) ==
  FlattenSeq([i \in 1 .. Tables |->
    <<Item(4, q + 8 * Len(FlattenSeq(SubSeq(AllTables(hs), 1, i - 1)))),
      Item(4, Len(AllTables(hs)[i]))>>])

-----------------------------------------------------------------------------
\* cdb_make_addend: a new list if the newest is full
Listed(hs, e) ==
  IF hs = <<>> \/ Len(hs[1]) >= HPList
  THEN <<<<e>>>> \o hs
  ELSE [hs EXCEPT ![1] = Append(@, e)]

\* faulty variant of Fits: the sum wraps and nobody looks
FitsAlways(q, len) == TRUE

\* posplus succeeds
Fits(q, len) == (q + len) % Mod >= len

Record(k, dlen) ==
  <<Item(8, <<KeyLen[k], dlen>>)>> \o PutItem(KeyLen[k], k) \o PutItem(dlen, "data")

\* cdb_make_add; if the position overflows the caller gives up
Add(k, dlen) ==
  /\ stage = "add" /\ Len(records) < MaxRecords
  /\ queue' = queue \o Record(k, dlen)
  /\ head' = Listed(head, [h |-> Hash[k], p |-> pos])
  /\ records' = Append(records, [key |-> k, p |-> pos])
  /\ LET fits == /\ Fits(pos, 8)
                 /\ Fits((pos + 8) % Mod, KeyLen[k])
                 /\ Fits((pos + 8 + KeyLen[k]) % Mod, dlen)
     IN  /\ stage' = IF fits THEN "add" ELSE "failed"
         /\ pos' = IF fits THEN (pos + 8 + KeyLen[k] + dlen) % Mod ELSE pos
  /\ UNCHANGED <<final, off, file>>

\* cdb_make_finish up to buffer_flush: the slots of all tables are put
Finish ==
  /\ stage = "add"
  /\ LET cells == Slots(head)
         over  == {u \in 1 .. Len(cells) : ~Fits((pos + 8 * (u - 1)) % Mod, 8)}
     IN  IF over = {}
         THEN /\ stage' = "flush" /\ final' = Header(head, pos)
              /\ queue' = queue \o cells
              /\ pos' = (pos + 8 * Len(cells)) % Mod
         ELSE /\ stage' = "failed"
              /\ queue' = queue \o SubSeq(cells, 1, CHOOSE u \in over : \A v \in over : u <= v)
              /\ UNCHANGED <<pos, final>>
  /\ UNCHANGED <<head, off, file, records>>

\* the first item in the buffer is written where the descriptor is; what was put
\* by a call that then failed may still come out
Emit ==
  /\ queue # <<>>
  /\ file' = [o \in DOMAIN file \cup {off} |-> IF o = off THEN queue[1] ELSE file[o]]
  /\ off' = off + queue[1].size
  /\ queue' = Tail(queue)
  /\ UNCHANGED <<stage, head, pos, final, records>>

\* buffer_flush has succeeded: seek_begin, and the header is written
Rewind ==
  /\ stage = "flush" /\ queue = <<>>
  /\ stage' = "header" /\ queue' = final /\ off' = 0
  /\ UNCHANGED <<head, pos, final, file, records>>

Done ==
  /\ stage = "header" /\ queue = <<>>
  /\ stage' = "done"
  /\ UNCHANGED <<head, pos, final, queue, off, file, records>>

\* a write, a seek or an alloc fails and the caller gives up, or the process dies
MakeFails ==
  /\ stage \in {"add", "flush", "header"}
  /\ stage' = "failed" /\ queue' = <<>>
  /\ UNCHANGED <<head, pos, final, off, file, records>>

\* cdb_make_start on an empty file
MakeInit ==
  /\ stage = "add" /\ head = <<>> /\ final = <<>> /\ queue = <<>>
  /\ pos = HeaderSize /\ off = HeaderSize
  /\ file = [o \in {} |-> Item(0, 0)]
  /\ records = <<>>

MakeNext ==
  \/ \E k \in Key, d \in DataLens : Add(k, d)
  \/ Finish \/ Emit \/ Rewind \/ Done \/ MakeFails

-----------------------------------------------------------------------------
(***************************************************************************)
(* Properties                                                              *)
(***************************************************************************)
\* As long as nothing has failed, the position the writer computes in 32 bits is
\* the place in the file where the next byte it puts will be written
\* (cdbmake.c:27-33, 47-53, 147-152).
PosIsOffset ==
  stage \in {"add", "flush"} => pos = off + SizeOf(queue)
=============================================================================
