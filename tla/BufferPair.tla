----------------------------- MODULE BufferPair -----------------------------
(***************************************************************************)
(* buffer_copy from the standard input to the standard output, buffer.c:   *)
(* a read buffer and a write buffer, where buffer_0_read, the op of the    *)
(* one, flushes the other before it reads.                                 *)
(*                                                                         *)
(* A caller whose buffer_copy failed may call it again.                    *)
(***************************************************************************)
EXTENDS BufferIn, BufferOut

VARIABLES
  step,   \* "idle", or where buffer_copy is: "feed", "read", "put", "seek"
  outcome,   \* return value of the last buffer_copy
  sent,   \* the bytes handed to buffer_put, in order
  failed  \* a call has failed

pairvars == <<invars, outvars, step, outcome, sent, failed>>

PairTypeOK ==
  /\ step \in {"idle", "feed", "read", "put", "seek"}
  /\ outcome \in {0, -2, -3}
  /\ sent \in Seq(1 .. Input) /\ Len(sent) = given

Leave(c) == step' = "idle" /\ outcome' = c /\ failed' = (failed \/ c < 0)
Goto(s)  == step' = s /\ UNCHANGED <<outcome, failed>>

Copy == step = "idle" /\ Goto("feed") /\ UNCHANGED <<invars, outvars, sent>>

\* faulty variant of FeedIn: buffer_0 reads with plain read
FeedInPlain ==
  /\ step = "feed"
  /\ UNCHANGED <<invars, outvars, sent>>
  /\ IF rp > 0 THEN Goto("put") ELSE Goto("read")

\* buffer_feed: bytes are there, or buffer_0_read begins with buffer_flush
FeedIn ==
  /\ step = "feed"
  /\ IF rp > 0 THEN Goto("put") /\ UNCHANGED outvars ELSE Goto("read") /\ Flush
  /\ UNCHANGED <<invars, sent>>

\* the flush is over: buffer_0_read fails, or reads
Read ==
  /\ step = "read" /\ call = "none"
  /\ UNCHANGED <<outvars, sent>>
  /\ \/ rc = -1 /\ Leave(-2) /\ UNCHANGED invars
     \/ rc = 0 /\ FeedEmpty /\ (\/ ret' > 0 /\ Goto("put")
                                \/ ret' = 0 /\ Leave(0)
                                \/ ret' < 0 /\ Leave(-2))

PutOut ==
  /\ step = "put"
  /\ Put(rp)
  /\ sent' = sent \o Bytes(Struct, rp)
  /\ Goto("seek")
  /\ UNCHANGED invars

\* faulty variant of SeekIn: goes on with the next bytes whatever the result
SeekInAnyway ==
  /\ step = "seek" /\ call = "none"
  /\ PeekSeek(rp)
  /\ Goto("feed")
  /\ UNCHANGED <<outvars, sent>>

\* buffer_put has returned: the bytes are taken, or buffer_copy fails
SeekIn ==
  /\ step = "seek" /\ call = "none"
  /\ \/ rc = 0 /\ Goto("feed") /\ PeekSeek(rp)
     \/ rc = -1 /\ Leave(-3) /\ UNCHANGED invars
  /\ UNCHANGED <<outvars, sent>>

\* a step of allwrite within buffer_flush or buffer_put
Write ==
  /\ \/ \E r \in 1 .. left : WriteSome(r)
     \/ WriteFails
  /\ UNCHANGED <<invars, step, outcome, sent, failed>>

PairInit ==
  /\ InInit /\ OutInit
  /\ step = "idle" /\ outcome = 0 /\ sent = <<>> /\ failed = FALSE

PairNext == Copy \/ FeedIn \/ Read \/ PutOut \/ SeekIn \/ Write

PairSpec == PairInit /\ [][PairNext]_pairvars

-----------------------------------------------------------------------------
(***************************************************************************)
(* Properties                                                              *)
(***************************************************************************)
\* What the standard output shows, as bytes of the input.
Shown == [i \in DOMAIN fd |-> sent[fd[i]]]

\* The program never waits for input while output it has put is still held:
\* a read of the standard input finds buffer_1 empty, and everything put was
\* written unless a write failed (buffer.c:22-26).
ReadsAfterFlush ==
  [][rp = 0 /\ taken' # taken => p = 0 /\ (failed \/ Len(fd) = given)]_pairvars

\* Until a call fails, buffer_copy shows the bytes of the input, each once and
\* in order, and when it returns 0 the whole input is shown or held
\* (buffer.c:61-75).
CopiesInOrder ==
  ~failed =>
    /\ Shown = [i \in 1 .. Len(fd) |-> i]
    /\ step = "idle" /\ taken = Input => got = [i \in 1 .. Input |-> i]
=============================================================================
