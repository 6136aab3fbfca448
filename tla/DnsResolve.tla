----------------------------- MODULE DnsResolve -----------------------------
(***************************************************************************)
(* dns_resolve, dnsstub/dns_resolve.c: the blocking loop that drives the   *)
(* one static struct dns_resolve_tx of the process through DnsTransmit,    *)
(* waiting in iopause with a clock stamp taken before the wait.            *)
(***************************************************************************)
EXTENDS DnsTransmit

CONSTANT NoiseBound  \* bound: ready sockets per call that bring nothing useful

ASSUME NoiseAssumption == NoiseBound \in Nat

VARIABLES
  pc,      \* "idle": outside; "stamp", "pause", "get": about to do so
  late,    \* stamp is not before d->deadline
  ready,   \* x->revents
  rc,      \* the last return value: "ok", "DNS_INT", "DNS_COM"
  noise    \* useless events seen in this call

loop == <<pc, late, ready, rc, noise>>
allvars == <<vars, loop>>

LoopTypeOK ==
  /\ pc \in {"idle", "stamp", "pause", "get"}
  /\ late \in BOOLEAN /\ ready \in BOOLEAN
  /\ rc \in {"none", "ok", "DNS_INT", "DNS_COM"}
  /\ noise \in 0 .. NoiseBound

Return(code) == pc' = "idle" /\ rc' = code

\* the configuration cannot be read
ResolveNoConf ==
  /\ pc = "idle" /\ Return("DNS_INT")
  /\ UNCHANGED <<vars, late, ready, noise>>

\* dns_resolve always asks for recursion
Resolve(q, l) ==
  /\ pc = "idle" /\ l.scope # Null
  /\ Start(q, l, TRUE)
  /\ IF result' = "error" THEN Return("DNS_COM")
                          ELSE pc' = "stamp" /\ UNCHANGED rc
  /\ noise' = 0
  /\ UNCHANGED <<late, ready>>

\* faulty variant of Stamp: the loop goes on with its first stamp
StampOnce ==
  /\ pc = "stamp" /\ pc' = "pause"
  /\ UNCHANGED <<vars, late, ready, rc, noise>>

\* taia_now(&stamp); the deadline of 120 s is never the earlier one
Stamp ==
  /\ pc = "stamp" /\ pc' = "pause"
  /\ late' = due
  /\ UNCHANGED <<vars, ready, rc, noise>>

\* iopause returns because the socket is ready, because the time up to the
\* deadline (or none, if the stamp is past it) is over, or with an error
Pause ==
  /\ pc = "pause"
  /\ \/ ready' = TRUE /\ pc' = "get" /\ UNCHANGED rc
     \/ due /\ ready' = FALSE /\ pc' = "get" /\ UNCHANGED rc
     \/ Return("DNS_COM") /\ ready' = FALSE
  /\ UNCHANGED <<vars, late, noise>>

AfterGet ==
  CASE result' = "error"   -> Return("DNS_COM")
    [] result' = "done"    -> Return("ok")
    [] OTHER               -> pc' = "stamp" /\ UNCHANGED rc

\* a ready socket that changes nothing in the struct
Useless == vars' = vars

\* dns_transmit_get; when is the stamp of this round
GetStep ==
  /\ pc = "get"
  /\ IF ready
     THEN /\ GetUdp \/ GetTcp
          /\ Useless => noise < NoiseBound
          /\ noise' = IF Useless THEN noise + 1 ELSE noise
     ELSE /\ IF late THEN GetTimeout ELSE GetEarly
          /\ UNCHANGED noise
  /\ AfterGet
  /\ UNCHANGED <<late, ready>>

\* the callers in dns_ip.c and its like free dns_resolve_tx when they have
\* parsed the packet
FreeTx == pc = "idle" /\ Free /\ UNCHANGED loop

Clock == Tick /\ UNCHANGED loop

ResolveInit ==
  /\ Init
  /\ pc = "idle" /\ late = FALSE /\ ready = FALSE /\ rc = "none" /\ noise = 0

ResolveNext ==
  \/ ResolveNoConf
  \/ \E q \in Questions, l \in ServerLists : Resolve(q, l)
  \/ Stamp \/ Pause \/ GetStep
  \/ FreeTx \/ Clock

\* The process keeps running inside a call, and time passes.
ResolveSpec ==
  /\ ResolveInit /\ [][ResolveNext]_allvars
  /\ WF_allvars(Stamp) /\ WF_allvars(Pause) /\ WF_allvars(GetStep)
  /\ WF_allvars(Clock)

-----------------------------------------------------------------------------
\* dns_transmit_io and dns_transmit_get are called only while a query is under
\* way: the loop never waits on, or reads from, a struct that has ended
\* (dns_resolve.c:27-39).
LoopDrivesPending == pc # "idle" => result = "pending" /\ s1 # 0 /\ query # Null

\* When dns_resolve returns 0, the packet its callers parse answers what they
\* asked; when it fails, no packet of this or an earlier lookup is left to be
\* taken for the answer (dns_resolve.c:35-38, the callers in dns_ip.c).
ResultOfCall ==
  pc = "idle" =>
    /\ rc = "ok" /\ packet # Null => /\ result = "done"
                                     /\ packet.body.name = question.name
                                     /\ packet.body.type = question.type
    /\ rc = "DNS_COM" /\ packet # Null => packet.body = Null

\* The loop waits on and reads from a query under way only, and what a call returns is
\* the answer to its own question, or nothing that could be taken for it
\* (dns_resolve.c:27-39).
CallGetsItsAnswer == LoopDrivesPending /\ ResultOfCall

\* A call of dns_resolve returns, however the servers behave, unless they send
\* useless datagrams without end: every wait is bounded by a deadline that the
\* loop notices, and there are finitely many attempts (dns_resolve.c:29-39).
Terminates == pc # "idle" ~> pc = "idle"
=============================================================================
