----------------------------- MODULE ConfCache -----------------------------
(***************************************************************************)
(* The cache that dns_rcip.c and dns_rcrw.c both keep of a configuration   *)
(* read from the environment and from files: it is loaded again after TTL  *)
(* seconds and after Uses calls.                                           *)
(***************************************************************************)
EXTENDS Naturals

CONSTANTS
  TTL,    \* seconds a load lasts (600)
  Uses,   \* calls a load lasts (10000)
  MaxNow  \* bound of the clock

ASSUME CacheAssumption == TTL \in Nat /\ Uses \in Nat \ {0} /\ MaxNow \in Nat

VARIABLES
  now,       \* taia_now
  ok,        \* the cached values may be used
  uses,      \* calls left
  deadline,  \* end of the cached values
  load       \* of the last load completed: its time, and the calls served since

ccvars == <<now, ok, uses, deadline, load>>

CacheTypeOK ==
  /\ now \in 0 .. MaxNow /\ ok \in BOOLEAN
  /\ uses \in 0 .. Uses /\ deadline \in 0 .. MaxNow + TTL
  /\ load \in [at : 0 .. MaxNow, served : Nat]

CacheInit ==
  /\ now = 0 /\ ok = FALSE /\ uses = 0 /\ deadline = 0
  /\ load = [at |-> 0, served |-> 0]

\* faulty variant of Usable: only the calls are counted
UsableAlways == ok /\ uses # 0

\* what is left of ok after the tests of a call
Usable == ok /\ ~(deadline < now) /\ uses # 0

\* a call takes the cached values
Hit ==
  /\ Usable
  /\ uses' = uses - 1 /\ load' = [load EXCEPT !.served = @ + 1]
  /\ UNCHANGED <<ok, deadline>>

\* it does not: init runs, and when it fails ok stays 0
Miss == ~Usable /\ ok' = FALSE /\ UNCHANGED <<uses, deadline, load>>

\* init has succeeded, and the call takes the values; now was read before it
Loaded ==
  /\ deadline' = now + TTL /\ ok' = TRUE /\ uses' = Uses - 1
  /\ load' = [at |-> now, served |-> 1]

Pass == now < MaxNow /\ now' = now + 1 /\ UNCHANGED <<ok, uses, deadline, load>>
-----------------------------------------------------------------------------
\* The values handed out by a call are at most TTL seconds old, and no load
\* serves more than Uses calls, whatever loads fail in between
\* (dns_rcip.c:98-111, dns_rcrw.c:126-138).
FreshValues ==
  [][load' # load => now <= load'.at + TTL /\ load'.served <= Uses]_ccvars
=============================================================================
