------------------------------ MODULE CdbRead ------------------------------
(***************************************************************************)
(* The reader of a constant database, cdbread.c: cdb_findstart and         *)
(* cdb_findnext, on a file that module CdbMake has finished or left        *)
(* behind.  Every slot looked at is a step; any read may fail, and the     *)
(* caller may then call cdb_findnext again.                                *)
(***************************************************************************)
EXTENDS CdbMake

CONSTANT None   \* no key

ASSUME CdbReadAssumption == None \notin Key

VARIABLES
  key,      \* key of the search, None before the first cdb_findstart
  busy,     \* within cdb_findnext
  loop, khash, kpos, hpos, hslots,   \* of struct cdb
  res,       \* last return value of cdb_findnext
  answers,  \* positions of the records found since cdb_findstart
  faults    \* a call has failed since cdb_findstart

seek  == <<loop, khash, kpos, hpos, hslots>>
rvars == <<key, busy, seek, res, answers, faults>>
vars  == <<cdbvars, rvars>>

FileEnd ==
  LET ends == {o + file[o].size : o \in DOMAIN file}
  IN  IF ends = {} THEN 0 ELSE CHOOSE e \in ends : \A f \in ends : f <= e

\* cdb_read finds the n bytes
Inside(o, n) == o + n <= FileEnd

\* half an entry of the header; what was not written reads as zeros
Half(o) == IF o \in DOMAIN file THEN file[o].is ELSE 0

TypeOK ==
  /\ stage \in {"add", "flush", "header", "done", "failed"}
  /\ pos \in 0 .. Mod - 1 /\ off \in Nat
  /\ key \in Key \cup {None} /\ busy \in BOOLEAN /\ faults \in BOOLEAN
  /\ hslots \in 0 .. 2 * Len(records) /\ loop \in 0 .. hslots
  /\ res \in {-1, 0, 1}
  /\ answers \in Seq(Nat)

FindReturns(r) == busy' = FALSE /\ res' = r

Error == FindReturns(-1) /\ faults' = TRUE /\ UNCHANGED answers

Over == FindReturns(0) /\ UNCHANGED <<answers, faults>>

\* cdb_findstart
FindStart(k) ==
  /\ stage \in {"done", "failed"} /\ ~busy
  /\ key' = k /\ loop' = 0 /\ answers' = <<>> /\ faults' = FALSE /\ res' = 1
  /\ UNCHANGED <<busy, khash, kpos, hpos, hslots>>
  /\ UNCHANGED cdbvars

\* cdb_findnext, the first part: the table of the key
FindTable ==
  /\ key # None /\ ~busy /\ res # 0 /\ loop = 0
  /\ LET h == Hash[key]
         o == 8 * Table(h)
         n == Half(o + 4)
     IN  \/ Error /\ UNCHANGED seek
         \/ /\ Inside(o, 8) /\ n = 0
            /\ Over /\ hslots' = n /\ UNCHANGED <<loop, khash, kpos, hpos>>
         \/ /\ Inside(o, 8) /\ n > 0
            /\ hslots' = n /\ hpos' = Half(o) /\ khash' = h
            /\ kpos' = Half(o) + 8 * ((h \div Tables) % n)
            /\ busy' = TRUE
            /\ UNCHANGED <<loop, res, answers, faults>>
  /\ UNCHANGED <<key, cdbvars>>

\* cdb_findnext again, after a record or an error: on with the slot at kpos
FindOn ==
  /\ key # None /\ ~busy /\ res # 0 /\ loop > 0
  /\ busy' = TRUE
  /\ UNCHANGED <<key, seek, res, answers, faults, cdbvars>>

\* the next slot, around the end of the table
Advance ==
  /\ loop' = loop + 1
  /\ kpos' = IF kpos + 8 = hpos + 8 * hslots THEN hpos ELSE kpos + 8
  /\ UNCHANGED <<khash, hpos, hslots>>

\* the record at p has the key: its length, then match()
Same(p) ==
  /\ file[p].is[1] = KeyLen[key]
  /\ KeyLen[key] > 0 => file[p + 8].is = key

Found(p) == FindReturns(1) /\ answers' = Append(answers, p) /\ UNCHANGED faults

Pass == UNCHANGED <<busy, res, answers, faults>>

\* the slot at kpos
SlotRead == loop < hslots /\ Inside(kpos, 8) /\ kpos \in DOMAIN file

Slot == file[kpos].is

\* one turn of the loop of cdb_findnext: an error, the end, or a slot in use
Probe ==
  /\ busy
  /\ \/ loop < hslots /\ Error /\ UNCHANGED seek
     \/ (loop = hslots \/ (SlotRead /\ Slot.p = 0)) /\ Over /\ UNCHANGED seek
     \/ SlotRead /\ Slot.p > 0 /\ Slot.h # khash /\ Advance /\ Pass
     \/ /\ SlotRead /\ Slot.p > 0 /\ Slot.h = khash /\ Advance
        /\ \/ Error
           \/ Same(Slot.p) /\ Found(Slot.p)
           \/ ~Same(Slot.p) /\ Pass
  /\ UNCHANGED <<key, cdbvars>>

CdbInit ==
  /\ MakeInit
  /\ key = None /\ busy = FALSE /\ res = 0 /\ answers = <<>> /\ faults = FALSE
  /\ loop = 0 /\ khash = 0 /\ kpos = 0 /\ hpos = 0 /\ hslots = 0

Make == MakeNext /\ UNCHANGED rvars

CdbNext ==
  \/ Make
  \/ \E k \in Key : FindStart(k)
  \/ FindTable \/ FindOn \/ Probe

CdbSpec == CdbInit /\ [][CdbNext]_vars

-----------------------------------------------------------------------------
(***************************************************************************)
(* Properties                                                              *)
(***************************************************************************)
\* the records under a key in the order they were added
Under(k) ==
  LET under[n \in 0 .. Len(records)] ==
        IF n = 0 THEN <<>>
        ELSE IF records[n].key = k THEN Append(under[n - 1], records[n].p) ELSE under[n - 1]
  IN  under[Len(records)]

\* In a finished database, while no read fails, the n-th call of cdb_findnext
\* returns the n-th record added under the key, and 0 if there are n - 1
\* (man/cdbread.3:87-106).
NthRecord ==
  stage = "done" /\ key # None /\ ~faults /\ ~busy =>
    /\ answers = SubSeq(Under(key), 1, Len(answers))
    /\ res = 0 => answers = Under(key)

\* Whatever happened to the writer and whichever reads failed, a search yields
\* records of its key only, none twice, in the order they were added
\* (cdbmake.c:155-157, cdbread.c:121-142).
OnlyItsRecords ==
  key # None =>
    /\ \A i \in DOMAIN answers : answers[i] \in Range(Under(key))
    /\ \A i, j \in DOMAIN answers : i < j => answers[i] < answers[j]

\* In a database whose writer failed a key has no record or all those added:
\* the header points at nothing that was not written before it
\* (cdbmake.c:147-157).
AllOrNothing ==
  stage = "failed" /\ key # None /\ ~faults /\ res = 0 /\ ~busy =>
    answers = <<>> \/ answers = Under(key)

\* cdb_findnext reads as a slot only what was written as a slot of the table,
\* and follows it only to a record (cdbread.c:121-142).
ReadsSlots ==
  busy /\ loop < hslots =>
    /\ kpos \in hpos .. hpos + 8 * hslots - 1
    /\ kpos \in DOMAIN file /\ Inside(kpos, 8)
    /\ Slot.p > 0 => Slot.p \in {records[i].p : i \in DOMAIN records}

\* A search reads only what was written for it and yields only records of its key, in
\* their order, from a database that was finished, refused or cut short anywhere, with
\* any reads failing: of a writer that failed, all records of a key or none
\* (cdbmake.c:147-157, cdbread.c:87-142).
SearchesAreSound == TypeOK /\ ReadsSlots /\ OnlyItsRecords /\ AllOrNothing
=============================================================================
