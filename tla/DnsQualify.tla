---------------------------- MODULE DnsQualify ----------------------------
(***************************************************************************)
(* The rules that qualify a host name, dnsstub/dns_rcrw.c, and the         *)
(* lookups made with them, dns_ip4_qualify and dns_ip6_qualify in          *)
(* dnsstub/dns_ipq.c.  Names and rules are sequences of tokens: words and  *)
(* the characters the code looks for.  dns_ip4 is a lookup with an outcome *)
(* here; module DnsFront has its inside.                                   *)
(***************************************************************************)
EXTENDS ConfCache, Integers, Sequences, SequencesExt

CONSTANTS
  Words,   \* words of names
  DOT, PLUS, COLON, BLANK, BR,  \* the characters . + : blank and [ or ]
  Q, EQ, STAR, MINUS,        \* the operators ? = * -
  SEARCH,  \* search or domain, at the start of a line of resolv.conf
  None, Unread,  \* no such file or variable; a file that cannot be read
  RuleFiles, Locals, ResolvFiles,  \* values of the sources
  Hosts,   \* host names
  Asked    \* names to look up

\* what names, rules and lines are made of
NameTokens == Words \cup {DOT, PLUS, COLON, BLANK, BR, Q, EQ, STAR, MINUS, SEARCH}

\* of the sources and names: what they are made of
ASSUME QualifyAssumption ==
  /\ DOT \notin {PLUS, COLON} /\ Q \notin {EQ, MINUS, COLON} /\ STAR \notin {Q, EQ, MINUS, COLON}
  /\ \A lines \in (RuleFiles \cup ResolvFiles) \ {None, Unread} : lines \in Seq(Seq(NameTokens))
  /\ Locals \ {None} \subseteq Seq(NameTokens)
  /\ Hosts \cup Asked \subseteq Seq(NameTokens)

VARIABLES
  rulefile, local, resolv, host,  \* the sources
  rules,  \* the static rules of dns_rcrw.c, from which those of dns_ipq.c are copied
  goodrules,  \* the rules of the last load that was completed
  from,   \* the sources it read
  stage,  \* dns_ip4_qualify: "idle", "name" (no +), "plus" (alternatives)
  asked,  \* in
  fqdn,   \* the buffer of fqdn
  full,   \* the name after the rules
  plus, next,  \* offsets in it
  tried,  \* the names looked up by this call, with their outcomes
  answer  \* value returned

sources == <<rulefile, local, resolv, host>>
walk == <<asked, fqdn, full, plus, next, tried>>
qvars == <<ccvars, sources, rules, goodrules, from, stage, walk, answer>>

DNS_ERR == -2
DNS_INT == -4

-----------------------------------------------------------------------------
\* byte_chr: how many tokens come before the first c, or all of them
Upto(s, c) ==
  CHOOSE d \in 0 .. Len(s) :
    /\ d = Len(s) \/ s[d + 1] = c
    /\ \A e \in 1 .. d : s[e] # c

Drop(s, n) == SubSeq(s, n + 1, Len(s))

\* the pieces of s between the c
Pieces(s, c) ==
  LET cut[k \in 0 .. Len(s)] ==
        IF k = 0 THEN <<<<>>>>
        ELSE IF s[k] = c THEN Append(cut[k - 1], <<>>)
        ELSE [cut[k - 1] EXCEPT ![Len(cut[k - 1])] = Append(@, s[k])]
  IN  cut[Len(s)]

\* the pieces with something in them
NonEmpty(pieces) ==
  LET f[k \in 0 .. Len(pieces)] ==
        IF k = 0 THEN <<>> ELSE IF pieces[k] = <<>> THEN f[k - 1] ELSE Append(f[k - 1], pieces[k])
  IN  f[Len(pieces)]

\* a rule of the file loses the blanks at its end
Trimmed(line) ==
  LET last == CHOOSE n \in 0 .. Len(line) :
                (n = 0 \/ line[n] # BLANK) /\ \A m \in n + 1 .. Len(line) : line[m] = BLANK
  IN  SubSeq(line, 1, last)

AddEach(pieces) ==
  LET add[k \in 0 .. Len(pieces)] ==
        IF k = 0 THEN <<Q, COLON>> ELSE add[k - 1] \o <<PLUS, DOT>> \o pieces[k]
  IN  add[Len(pieces)]

LastDot == <<STAR, DOT, COLON>>

\* the newline appended makes one more, empty line
FromFile(lines) == [l \in DOMAIN lines |-> Trimmed(lines[l])] \o <<<<>>>>
FromLocal(text) == <<AddEach(Pieces(text, BLANK)), LastDot>>
Domains(line) == NonEmpty(Pieces(Drop(line, 2), BLANK))
FromSearch(line) == <<AddEach(Domains(line)), LastDot>>
FromHost(name) ==
  IF Upto(name, DOT) < Len(name)
  THEN <<<<Q, COLON>> \o Drop(name, Upto(name, DOT)), LastDot>>
  ELSE <<LastDot>>

IsSearch(line) == Len(line) >= 2 /\ line[1] = SEARCH /\ line[2] = BLANK
Searches(lines) == {l \in DOMAIN lines : IsSearch(lines[l])}
FirstSearch(lines) == lines[CHOOSE l \in Searches(lines) : \A m \in Searches(lines) : l <= m]

\* the rules that init builds from the first source there is
RulesOf(source) ==
  IF source[1] # None THEN FromFile(source[1])
  ELSE IF source[2] # None THEN FromLocal(source[2])
  ELSE IF source[3] # None /\ Searches(source[3]) # {} THEN FromSearch(FirstSearch(source[3]))
  ELSE FromHost(source[4])
Built == RulesOf(sources)

\* a source that init cannot read
Blocked == \/ rulefile = Unread
           \/ rulefile = None /\ local = None /\ resolv = Unread

\* init fails: no source, no memory, or no host name; what it has built stays
InitFails ==
  /\ Miss
  /\ IF Blocked THEN rules' = <<>>
     ELSE LET built == Built IN \E n \in 0 .. Len(built) : rules' = SubSeq(built, 1, n)
  /\ UNCHANGED <<goodrules, from>>

InitDone ==
  /\ ~Usable /\ ~Blocked /\ Loaded
  /\ rules' = Built /\ goodrules' = rules' /\ from' = sources

UseRules == Hit /\ UNCHANGED <<rules, goodrules, from>>

-----------------------------------------------------------------------------
\* faulty variant of Applied: ? does not look for dots
AppliedDots(work, rule) ==
  IF rule = <<>> \/ Upto(rule, COLON) \in {0, Len(rule)} THEN work
  ELSE LET colon == Upto(Tail(rule), COLON)
           prefix == Len(work) - colon
       IN  IF \/ prefix < 0
              \/ rule[1] = EQ /\ prefix > 0
              \/ Drop(work, prefix) # SubSeq(Tail(rule), 1, colon)
           THEN work
           ELSE (IF rule[1] = MINUS THEN <<>> ELSE SubSeq(work, 1, prefix)) \o Drop(Tail(rule), colon + 1)

\* doit: one rule applied to the name
Applied(work, rule) ==
  IF rule = <<>> \/ Upto(rule, COLON) \in {0, Len(rule)} THEN work
  ELSE LET colon == Upto(Tail(rule), COLON)
           prefix == Len(work) - colon
           before == SubSeq(work, 1, prefix)
       IN  IF \/ rule[1] \notin {Q, EQ, STAR, MINUS}
              \/ prefix < 0
              \/ rule[1] = EQ /\ prefix > 0
              \/ Drop(work, prefix) # SubSeq(Tail(rule), 1, colon)
              \/ rule[1] = Q /\ Range(before) \cap {DOT, BR} # {}
           THEN work
           ELSE (IF rule[1] = MINUS THEN <<>> ELSE before) \o Drop(Tail(rule), colon + 1)

Qualified(name, rs) ==
  LET work[k \in 0 .. Len(rs)] == IF k = 0 THEN name ELSE Applied(work[k - 1], rs[k]) IN work[Len(rs)]

Return(r) == stage' = "idle" /\ answer' = r

\* dns_ip4_qualify: the rules, which may not be had or not be copied
CallFails(name) ==
  /\ stage = "idle" /\ asked' = name
  /\ InitFails \/ InitDone \/ UseRules
  /\ Return(DNS_INT)
  /\ tried' = <<>> /\ UNCHANGED <<now, sources, fqdn, full, plus, next>>

\* dns_ip4_qualify_rules: the name is qualified, the first + found
Call(name) ==
  /\ stage = "idle" /\ asked' = name
  /\ InitDone \/ UseRules
  /\ full' = Qualified(name, rules') /\ fqdn' = full'
  /\ plus' = Upto(full', PLUS)
  /\ next' = plus' + 1
  /\ stage' = IF plus' >= Len(full') THEN "name" ELSE "plus"
  /\ tried' = <<>> /\ UNCHANGED <<now, sources, answer>>

\* the outcomes of dns_ip4: a number of answers, or an error
LookedUp(name, rc) == tried' = Append(tried, <<name, rc>>)

Lookup(rc) ==
  /\ stage = "name"
  /\ LookedUp(fqdn, rc) /\ Return(rc)
  /\ UNCHANGED <<ccvars, sources, rules, goodrules, from, asked, fqdn, full, plus, next>>

\* the length of the alternative at i
Piece == Upto(Drop(SubSeq(fqdn, 1, Len(full)), next), PLUS)

\* byte_copy(fqdn->s + plus,j,fqdn->s + i): over the buffer the alternatives lie in
Placed ==
  [p \in DOMAIN fqdn |-> IF p \in plus + 1 .. plus + Piece THEN fqdn[p - plus + next] ELSE fqdn[p]]

\* one turn of the loop
Alternative(rc) ==
  /\ stage = "plus"
  /\ fqdn' = Placed
  /\ LookedUp(SubSeq(fqdn', 1, plus + Piece), rc)
  /\ next' = next + Piece + 1
  /\ IF rc < 0 THEN Return(DNS_ERR)
     ELSE IF rc > 0 \/ next + Piece >= Len(full) THEN Return(0)
     ELSE UNCHANGED <<stage, answer>>
  /\ UNCHANGED <<ccvars, sources, rules, goodrules, from, asked, full, plus>>

RulesBetween ==
  /\ stage = "idle"
  /\ Pass /\ UNCHANGED <<sources, rules, goodrules, from, stage, walk, answer>>

\* somebody changes resolv.conf
Change ==
  /\ stage = "idle"
  /\ resolv' \in ResolvFiles /\ UNCHANGED <<rulefile, local, host>>
  /\ UNCHANGED <<ccvars, rules, goodrules, from, stage, walk, answer>>

QInit ==
  /\ CacheInit
  /\ rulefile \in RuleFiles /\ local \in Locals /\ resolv \in ResolvFiles /\ host \in Hosts
  /\ rules = <<>> /\ goodrules = <<>> /\ from = sources
  /\ stage = "idle" /\ asked = <<>> /\ fqdn = <<>> /\ full = <<>>
  /\ plus = 0 /\ next = 0 /\ tried = <<>> /\ answer = 0

QNext ==
  \/ \E name \in Asked : CallFails(name) \/ Call(name)
  \/ \E rc \in {DNS_ERR, 0, 1} : Lookup(rc) \/ Alternative(rc)
  \/ RulesBetween \/ Change

QSpec == QInit /\ [][QNext]_qvars

-----------------------------------------------------------------------------
(***************************************************************************)
(* Properties                                                              *)
(***************************************************************************)
QTypeOK ==
  /\ CacheTypeOK
  /\ stage \in {"idle", "name", "plus"}
  /\ answer \in {DNS_INT, DNS_ERR, 0, 1}
  /\ Len(fqdn) = Len(full) /\ plus \in 0 .. Len(full)
  /\ stage = "plus" => next \in plus + 1 .. Len(full)

\* Rules half built by a load that failed are never used (dns_rcrw.c:131).
RulesAreLastLoad == ok => rules = goodrules

\* The alternatives of a qualified name: what comes before the first +, with each
\* of the parts behind it.
MeantNames == LET ps == Pieces(full, PLUS)
         IN  IF Len(ps) = 1 THEN ps ELSE [a \in 1 .. Len(ps) - 1 |-> ps[1] \o ps[a + 1]]

\* The names looked up are the first alternatives in their order, although each
\* is built in the buffer that holds the others, and only the last of them had
\* another outcome than no answer (dns_ipq.c:61-71).
AlternativesInOrder ==
  stage # "idle" \/ tried # <<>> =>
    /\ Len(tried) <= Len(MeantNames)
    /\ \A t \in DOMAIN tried :
         /\ tried[t][1] = MeantNames[t]
         /\ t < Len(tried) => tried[t][2] = 0

NoDot(name) == Range(name) \cap {DOT, BR, PLUS} = {}
Plain(name) == Range(name) \cap {BR, PLUS} = {} /\ ~NoDot(name)
SearchWords == IF from[2] # None THEN Pieces(from[2], BLANK) ELSE Domains(FirstSearch(from[3]))
Undotted(name) == IF name[Len(name)] = DOT THEN SubSeq(name, 1, Len(name) - 1) ELSE name

\* With LOCALDOMAIN or a search list, a name without dots is looked up once with
\* each of the domains, and a name with dots as it is, without the dot at its end
\* (dnsstub/README:36-41, dns_rcrw.c:53-97).
SearchedAsConfigured ==
  /\ stage # "idle" /\ from[1] = None
  /\ from[2] # None \/ (from[3] # None /\ Searches(from[3]) # {})
  /\ SearchWords # <<>> /\ \A w \in DOMAIN SearchWords : PLUS \notin Range(SearchWords[w])
  => /\ NoDot(asked) =>
          MeantNames = [w \in DOMAIN SearchWords |->
                     LET domain == <<DOT>> \o SearchWords[w]
                     IN  asked \o IF w = Len(SearchWords) THEN Undotted(domain) ELSE domain]
     /\ Plain(asked) => MeantNames = <<Undotted(asked)>>

\* A name is looked up as the rules and the local name qualify it: by the rules of the
\* last load that went through, and with the alternatives behind a plus sign in their
\* order, each once, though they are built in the buffer they are read from
\* (dns_ipq.c:19-80, dns_rcrw.c:124-141).
QualifiedAsConfigured ==
  QTypeOK /\ RulesAreLastLoad /\ AlternativesInOrder /\ SearchedAsConfigured
=============================================================================
