----------------------------- MODULE DnsLookup -----------------------------
(***************************************************************************)
(* What one struct dns_transmit promises to its caller, without sockets,   *)
(* memory or bytes.  A lookup asks a question in a sequence of attempts.   *)
(* An attempt is a transport, a round and a server; attempts only move     *)
(* forward, and TCP is never left for UDP, so a lookup makes finitely many *)
(* of them.  It ends answered, with a complete and successful answer to    *)
(* the question asked, or failed; the answer then stays until the caller   *)
(* frees the struct or asks again.                                         *)
(***************************************************************************)
EXTENDS Integers

CONSTANTS Null, QUERY_MAXNS, Names, Types, Replies, Questions

VARIABLES
  question, phase, attempt, answer,
  turn      \* parity of the number of questions asked: tells a new question
            \* from the next attempt at an old one

vars == <<question, phase, attempt, answer, turn>>

\* proto is 0 for UDP, 1 for TCP
Attempts == [proto : {0, 1}, round : 0 .. 4, server : 0 .. QUERY_MAXNS - 1]
NoAttempt == [proto |-> 0, round |-> 0, server |-> 0]

\* a comes after b in the order in which a lookup may make attempts
Later(a, b) ==
  \/ a.proto > b.proto
  \/ a.proto = b.proto /\ a.round > b.round
  \/ a.proto = b.proto /\ a.round = b.round /\ a.server > b.server

Answers(q, r) ==
  r.name = q.name /\ r.type = q.type /\ ~r.tc /\ r.rcode \in {0, 3}

Init == phase = "idle" /\ attempt = NoAttempt /\ answer = Null
        /\ question = Null /\ turn = 0

\* the caller asks q, whatever it was doing; the first attempt starts
Ask(q) ==
  /\ question' = q /\ turn' = 1 - turn
  /\ phase' = "asking" /\ answer' = Null
  /\ attempt' \in Attempts

\* asking q fails at once
AskFails(q) ==
  /\ question' = q /\ turn' = 1 - turn
  /\ phase' = "failed" /\ answer' = Null /\ attempt' = NoAttempt

\* the attempt is given up for a later one
AskAgain ==
  /\ phase = "asking"
  /\ attempt' \in Attempts /\ Later(attempt', attempt)
  /\ UNCHANGED <<question, turn, phase, answer>>

Answered ==
  /\ phase = "asking" /\ phase' = "answered"
  /\ \E r \in Replies : Answers(question, r) /\ answer' = r
  /\ attempt' = NoAttempt /\ UNCHANGED <<question, turn>>

Failed ==
  /\ phase = "asking" /\ phase' = "failed"
  /\ attempt' = NoAttempt /\ UNCHANGED <<question, turn, answer>>

Drop ==
  /\ phase' = "idle" /\ answer' = Null
  /\ attempt' = NoAttempt /\ UNCHANGED <<question, turn>>

Next ==
  \/ \E q \in Questions : Ask(q) \/ AskFails(q)
  \/ AskAgain \/ Answered \/ Failed \/ Drop

Spec == Init /\ [][Next]_vars
=============================================================================
