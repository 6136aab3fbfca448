---------------------------- MODULE MCDnsConfig ----------------------------
(***************************************************************************)
(* The two configurations a program caches, each driven by itself: the     *)
(* name servers (part "servers") and the rules that qualify names (part    *)
(* "rules").  They share no state in the code; the variables of the cache  *)
(* serve both here because only one of them runs.                          *)
(***************************************************************************)
EXTENDS DnsConf, DnsQualify

\* part "servers": room for three servers; a cache that lasts one second and two
\* calls
CONSTANTS a4, any, lo4, a6, b6, c6, lo6, zero, lo, nul, sp, nl, pct, ns, word, unset, unreadable

MCV4 == {a4, any, lo4}
MCV6 == {a6, b6, c6, lo6}
MCIf == {lo}

\* one line for a server
S(a) == <<ns, sp, a, nl>>

\* the example of man/dnsstub.3, two servers with and without an interface,
\* more than there is room for, blanks only, and a word that is no address; in
\* memory another variable follows
MCEnv == {<<a4, sp, a6, pct, lo, sp, lo6, nul, word, sp, word, nul>>,
          <<a6, sp, b6, nul, word, sp, word, nul>>,
          <<a6, pct, lo, nul>>,
          <<sp, a4, sp, sp, a6, sp, b6, sp, c6, nul>>,
          <<sp, nul>>,
          <<a4, sp, word, nul>>}

MCFile == {S(a4) \o <<ns, sp, a6, pct, lo, sp, word, nl>> \o S(any) \o S(a4),
           S(any) \o S(a4),
           S(a6) \o S(b6),
           <<word, sp, a4, nl, ns, sp, sp, a6, pct, lo, nl, ns, nl>>,
           S(a4) \o S(b6) \o S(c6) \o S(a4) \o S(a6)}

-----------------------------------------------------------------------------
\* part "rules"

CONSTANTS
  h, d, e0, dot, plus1, cln, br, q, eq, star, minus, search, none

VARIABLE part

MCWords == {h, d, e0}

\* rule files with every operator, a malformed line and one with blanks at its end
MCRules == {none, <<<<q, cln, plus1, dot, d, sp, sp>>, <<star, dot, d, cln, dot, e0>>, <<d, e0>>, <<sp>>,
                    <<eq, h, cln, d>>, <<minus, dot, e0, cln, h, dot, d>>>>}
MCLocals == {none, <<>>, <<d, sp, e0>>}
MCResolv == {none, unreadable, <<<<d>>, <<search, sp, d, sp, sp, e0, sp>>, <<search, sp, e0>>>>, <<<<d, sp>>>>}
MCHosts == {<<h, dot, d>>}
MCAsked == {<<h>>, <<h, dot, e0, dot>>, <<br, h, br>>, <<h, plus1, dot, d, plus1, plus1, dot, e0, dot>>}

rulevars == <<rulefile, local, resolv, host, rules, goodrules, from, stage, asked, fqdn, full, plus,
              next, tried, answer>>
servervars == <<pc, env, x, file, data, i, k, ip, sid, ret, handed, good, named, lacked>>

NoRules ==
  /\ rulefile = none /\ local = none /\ resolv = none /\ host = <<h>>
  /\ rules = <<>> /\ goodrules = <<>> /\ from = <<none, none, none, <<h>>>>
  /\ stage = "idle" /\ asked = <<>> /\ fqdn = <<>> /\ full = <<>> /\ plus = 0 /\ next = 0
  /\ tried = <<>> /\ answer = 0

\* servers of a load that found none
NoConf ==
  /\ pc = "idle" /\ env = Unset /\ file = Unset /\ x = 1 /\ data = <<>> /\ i = 1 /\ k = 0 /\ ret = 0
  /\ ip = [NoServers.ip EXCEPT ![1] = Local6] /\ sid = NoServers.sid
  /\ handed = [ip |-> ip, sid |-> sid] /\ good = handed
  /\ named = [env |-> Unset, file |-> Unset] /\ lacked = FALSE

Init == \/ part = "servers" /\ ConfInit /\ NoRules
        \/ part = "rules" /\ QInit /\ NoConf

Next == \/ part = "servers" /\ ConfNext /\ UNCHANGED <<part, rulevars>>
        \/ part = "rules" /\ QNext /\ UNCHANGED <<part, servervars>>

Spec == Init /\ [][Next]_<<part, confvars, rulevars>>
=============================================================================
