---------------------------- MODULE Conf_proofs ----------------------------
(***************************************************************************)
(* Proofs about the configured name servers, for any texts of DNSCACHEIP   *)
(* and resolv.conf, any room for servers and any life of the cache.  The   *)
(* parser writes terminators into the text it reads; the proof compares    *)
(* the text with what it was when the load began.  A terminator hides a    *)
(* server, but makes none; and as long as every terminator falls on what   *)
(* the parser has gone by, or behind the end, none is hidden.              *)
(***************************************************************************)
EXTENDS DnsConf, Loops

-----------------------------------------------------------------------------
(***************************************************************************)
(* Texts and what terminators make of them                                 *)
(***************************************************************************)
\* text is orig, with terminators written into it
Cleaned(text, orig) ==
  /\ DOMAIN text = DOMAIN orig
  /\ \A p \in DOMAIN orig : text[p] = orig[p] \/ text[p] = NUL

\* A cut writes at most a terminator.
LEMMA CutCleans ==
  ASSUME NEW text \in Seq(Tokens), NEW p
  PROVE  /\ Cut(text, p) \in Seq(Tokens) /\ Len(Cut(text, p)) = Len(text)
         /\ Cleaned(Cut(text, p), text)
<1>1. NUL \in Tokens  BY DEF Tokens
<1>2. CASE p \in DOMAIN text
  <2> DEFINE cut == [text EXCEPT ![p] = NUL]
  <2>1. cut \in Seq(Tokens) /\ Len(cut) = Len(text) /\ DOMAIN cut = DOMAIN text  BY <1>1, <1>2
  <2>2. \A w \in DOMAIN text : cut[w] = text[w] \/ cut[w] = NUL  OBVIOUS
  <2>3. Cut(text, p) = cut  BY <1>2 DEF Cut
  <2> HIDE DEF cut
  <2> QED  BY <2>1, <2>2, <2>3 DEF Cleaned
<1>3. CASE p \notin DOMAIN text
  BY <1>3 DEF Cut, Cleaned
<1> QED  BY <1>2, <1>3

\* What a text holds after a cut.
LEMMA CutIs ==
  ASSUME NEW text, NEW p
  PROVE  /\ DOMAIN Cut(text, p) = DOMAIN text
         /\ \A m \in DOMAIN text : Cut(text, p)[m] = IF m = p THEN NUL ELSE text[m]
<1>1. CASE p \in DOMAIN text
  <2>1. Cut(text, p) = [text EXCEPT ![p] = NUL]  BY <1>1 DEF Cut
  <2> QED  BY <2>1
<1>2. CASE p \notin DOMAIN text
  <2>1. Cut(text, p) = text  BY <1>2 DEF Cut
  <2>2. \A m \in DOMAIN text : m # p  BY <1>2
  <2> QED  BY <2>1, <2>2
<1> QED  BY <1>1, <1>2

\* Terminators on terminators are terminators.
LEMMA CleanedTwice ==
  ASSUME NEW a, NEW b, NEW c, Cleaned(a, b), Cleaned(b, c)
  PROVE  Cleaned(a, c)
BY DEF Cleaned

\* What is read in a text with terminators, other than a terminator, was there before.
LEMMA WasThere ==
  ASSUME NEW text, NEW orig, Cleaned(text, orig), NEW p, At(text, p) # NUL
  PROVE  p \in DOMAIN orig /\ p \in DOMAIN text /\ At(text, p) = text[p] /\ text[p] = orig[p]
BY DEF Cleaned, At

\* ip6_ifscan, however it ends: the text it leaves, and what it has read of it.
LEMMA ScanCleans ==
  ASSUME NEW text \in Seq(Tokens), NEW p, NEW r \in IfScan(text, p)
  PROVE  /\ r.mem \in Seq(Tokens) /\ Len(r.mem) = Len(text) /\ Cleaned(r.mem, text)
         /\ r.n \in {0, 1} /\ r.scope \in IfName \cup {NUL}
         /\ r.n # 0 => At(text, p) \in Addr
<1> DEFINE j == StrChr(text, p, PCT)
           a == p + j + 1
           blank == StrChr(text, a, SP)
           e == IF blank # 0 THEN blank ELSE StrChr(text, a, NL)
           cut == IF e # 0 THEN Cut(text, a + e) ELSE text
           end == IF j = 0 THEN text ELSE Cut(cut, p + j)
           found == [mem |-> end,
                     n |-> IF At(end, p) \in Addr THEN 1 ELSE 0,
                     scope |-> IF j = 0 THEN NUL ELSE IfIdx(cut, a), short |-> FALSE]
           left == IF j = 0 THEN {text} ELSE {text, cut, end}
<1>1. Cleaned(text, text)  BY DEF Cleaned
<1>2. cut \in Seq(Tokens) /\ Len(cut) = Len(text) /\ Cleaned(cut, text)
  <2> HIDE DEF e, a
  <2> QED  BY <1>1, CutCleans
<1>3. end \in Seq(Tokens) /\ Len(end) = Len(text) /\ Cleaned(end, text)
  <2> HIDE DEF cut, j
  <2> QED  BY <1>1, <1>2, CutCleans, CleanedTwice
<1>4. IfIdx(cut, a) \in IfName \cup {NUL}  BY DEF IfIdx
<1>5. r = found \/ \E m \in left : r = [mem |-> m, n |-> 0, scope |-> NUL, short |-> TRUE]
  BY DEF IfScan
<1> HIDE DEF cut, end, j, a
<1>9. \A m \in left : m \in {text, cut, end}  OBVIOUS
<1> HIDE DEF left
<1>6. At(end, p) \in Addr => At(text, p) \in Addr
  <2> SUFFICES ASSUME At(end, p) \in Addr PROVE At(text, p) \in Addr  OBVIOUS
  <2>1. At(end, p) # NUL  BY ConfAssumption
  <2>2. p \in DOMAIN text /\ At(end, p) = text[p]  BY <1>3, <2>1, WasThere
  <2> QED  BY <2>2 DEF At
<1>7. CASE r = found
  <2>1. r.mem = end /\ r.scope \in IfName \cup {NUL} /\ r.n = IF At(end, p) \in Addr THEN 1 ELSE 0
    BY <1>4, <1>7
  <2> QED  BY <1>3, <1>6, <2>1
<1>8. CASE \E m \in left : r = [mem |-> m, n |-> 0, scope |-> NUL, short |-> TRUE]
  BY <1>1, <1>2, <1>3, <1>8, <1>9
<1> QED  BY <1>5, <1>7, <1>8

\* str_chr stops at the first place of the character or of a terminator.
LEMMA StrChrFinds ==
  ASSUME NEW text \in Seq(Tokens), NEW p \in Nat \ {0}, NEW c
  PROVE  /\ StrChr(text, p, c) \in Nat /\ At(text, p + StrChr(text, p, c)) \in {c, NUL}
         /\ \A d \in 0 .. StrChr(text, p, c) - 1 : At(text, p + d) \notin {c, NUL}
<1> DEFINE T == {d \in 0 .. Len(text) + 1 : At(text, p + d) \in {c, NUL}}
<1>1. T \in SUBSET Nat  OBVIOUS
<1>2. Len(text) + 1 \in T
  <2>1. Len(text) \in Nat /\ p + (Len(text) + 1) \notin DOMAIN text  OBVIOUS
  <2> QED  BY <2>1 DEF At
<1>3. PICK m \in T : \A n \in T : m <= n
  <2> HIDE DEF T
  <2> QED  BY <1>1, <1>2, LeastNat
<1>4. m \in 0 .. Len(text) + 1 /\ At(text, p + m) \in {c, NUL}  OBVIOUS
<1>5. \A d \in 0 .. m - 1 : At(text, p + d) \notin {c, NUL}
  <2> SUFFICES ASSUME NEW d \in 0 .. m - 1, At(text, p + d) \in {c, NUL} PROVE FALSE  OBVIOUS
  <2>1. d \in T /\ d < m  BY <1>4
  <2> QED  BY <1>3, <1>4, <2>1
<1> HIDE DEF T
<1>6. \E w \in 0 .. Len(text) + 1 : At(text, p + w) \in {c, NUL} /\ \A d \in 0 .. w - 1 : At(text, p + d) \notin {c, NUL}
  BY <1>4, <1>5
<1>7. /\ StrChr(text, p, c) \in 0 .. Len(text) + 1 /\ At(text, p + StrChr(text, p, c)) \in {c, NUL}
      /\ \A d \in 0 .. StrChr(text, p, c) - 1 : At(text, p + d) \notin {c, NUL}
  BY <1>6 DEF StrChr
<1> QED  BY <1>7

\* where the terminators of ip6_ifscan fall: j to the % or the end, e from behind it on
Falls(text, p, j, e) ==
  /\ j \in Nat /\ e \in Nat
  /\ At(text, p + j) \in {PCT, NUL} /\ \A d \in 0 .. j - 1 : At(text, p + d) \notin {PCT, NUL}
  /\ \/ /\ e # 0 /\ At(text, p + j + 1 + e) \in {SP, NUL}
        /\ \A d \in 0 .. e - 1 : At(text, p + j + 1 + d) \notin {SP, NUL}
     \/ /\ At(text, p + j + 1) \in {SP, NUL} /\ At(text, p + j + 1 + e) \in {NL, NUL}
        /\ \A d \in 0 .. e - 1 : At(text, p + j + 1 + d) \notin {NL, NUL}

\* what it reads, when memory suffices
Reads(text, p, j, r) ==
  /\ r.n = IF At(text, p) \in Addr THEN 1 ELSE 0
  /\ r.scope = IF /\ j # 0 /\ At(text, p + j + 1) \in IfName
                  /\ At(text, p + j + 2) \in {SP, NUL}
               THEN At(text, p + j + 1) ELSE NUL

\* ip6_ifscan, part by part.
LEMMA ScanParts ==
  ASSUME NEW text \in Seq(Tokens), NEW p \in Nat \ {0}, NEW r \in IfScan(text, p)
  PROVE  \E j, e \in Nat :
           /\ Falls(text, p, j, e)
           /\ \A m \in DOMAIN text :
                \/ r.mem[m] = text[m]
                \/ j # 0 /\ r.mem[m] = NUL /\ (m = p + j \/ (e # 0 /\ m = p + j + 1 + e))
           /\ \/ r.short /\ r.n = 0
              \/ ~r.short /\ Reads(text, p, j, r)
<1> DEFINE j == StrChr(text, p, PCT)
           a == p + j + 1
           blank == StrChr(text, a, SP)
           e == IF blank # 0 THEN blank ELSE StrChr(text, a, NL)
           cut == IF e # 0 THEN Cut(text, a + e) ELSE text
           end == IF j = 0 THEN text ELSE Cut(cut, p + j)
           found == [mem |-> end,
                     n |-> IF At(end, p) \in Addr THEN 1 ELSE 0,
                     scope |-> IF j = 0 THEN NUL ELSE IfIdx(cut, a), short |-> FALSE]
           left == IF j = 0 THEN {text} ELSE {text, cut, end}
<1>1. r = found \/ \E m \in left : r = [mem |-> m, n |-> 0, scope |-> NUL, short |-> TRUE]
  BY DEF IfScan
<1>2. /\ j \in Nat /\ At(text, p + j) \in {PCT, NUL}
      /\ \A d \in 0 .. j - 1 : At(text, p + d) \notin {PCT, NUL}
  BY StrChrFinds
<1>3. a \in Nat \ {0}
  <2> HIDE DEF j
  <2> QED  BY <1>2
<1>4. /\ blank \in Nat /\ At(text, a + blank) \in {SP, NUL}
      /\ \A d \in 0 .. blank - 1 : At(text, a + d) \notin {SP, NUL}
  <2> HIDE DEF a
  <2> QED  BY <1>3, StrChrFinds
<1>5. /\ StrChr(text, a, NL) \in Nat /\ At(text, a + StrChr(text, a, NL)) \in {NL, NUL}
      /\ \A d \in 0 .. StrChr(text, a, NL) - 1 : At(text, a + d) \notin {NL, NUL}
  <2> HIDE DEF a
  <2> QED  BY <1>3, StrChrFinds
<1>6. /\ e \in Nat
      /\ \/ /\ e # 0 /\ At(text, a + e) \in {SP, NUL}
            /\ \A d \in 0 .. e - 1 : At(text, a + d) \notin {SP, NUL}
         \/ /\ At(text, a) \in {SP, NUL} /\ At(text, a + e) \in {NL, NUL}
            /\ \A d \in 0 .. e - 1 : At(text, a + d) \notin {NL, NUL}
  <2>1. CASE blank # 0
    <3>1. e = blank  BY <2>1
    <3> HIDE DEF e, blank, a
    <3> QED  BY <1>4, <2>1, <3>1
  <2>2. CASE blank = 0
    <3>1. e = StrChr(text, a, NL)  BY <2>2
    <3> HIDE DEF e, blank
    <3>2. a + 0 = a  BY <1>3
    <3> HIDE DEF a
    <3> QED  BY <1>4, <1>5, <2>2, <3>1, <3>2
  <2> QED  BY <2>1, <2>2
<1>7. e # 0 /\ At(text, a) \in IfName => (At(text, a + 1) \in {SP, NUL} <=> At(text, a + 1) = NUL \/ e = 1)
  <2> HIDE DEF a, e
  <2> SUFFICES ASSUME e # 0, At(text, a) \in IfName
               PROVE  At(text, a + 1) \in {SP, NUL} <=> (At(text, a + 1) = NUL \/ e = 1)
    OBVIOUS
  <2>1. At(text, a) \notin {SP, NUL}  BY ConfAssumption
  <2>2. /\ At(text, a + e) \in {SP, NUL}
        /\ \A d \in 0 .. e - 1 : At(text, a + d) \notin {SP, NUL}
    BY <1>6, <2>1
  <2>3. CASE e = 1  BY <2>2, <2>3
  <2>4. CASE e # 1
    <3>1. 1 \in 0 .. e - 1  BY <1>6, <2>4
    <3> QED  BY <2>2, <2>4, <3>1
  <2> QED  BY <2>3, <2>4
<1>8. e = 0 => ~(At(text, a) \in IfName)
  <2> HIDE DEF a, e
  <2> SUFFICES ASSUME e = 0 PROVE ~(At(text, a) \in IfName)  OBVIOUS
  <2>1. At(text, a) \in {SP, NUL}  BY <1>6
  <2> QED  BY <2>1, ConfAssumption
<1>9. Falls(text, p, j, e)
  <2> HIDE DEF j, e
  <2> QED  BY <1>2, <1>6 DEF Falls
<1>10. /\ DOMAIN cut = DOMAIN text
       /\ \A m \in DOMAIN text : cut[m] = IF e # 0 /\ m = a + e THEN NUL ELSE text[m]
  <2> HIDE DEF a, e
  <2> QED  BY CutIs
<1>11. /\ DOMAIN end = DOMAIN text
       /\ \A m \in DOMAIN text : end[m] = IF j = 0 THEN text[m] ELSE IF m = p + j THEN NUL ELSE cut[m]
  <2>1. CASE j = 0
    <3>1. end = text  BY <2>1
    <3> HIDE DEF end, cut, j
    <3> QED  BY <1>10, <2>1, <3>1
  <2>2. CASE j # 0
    <3>1. end = Cut(cut, p + j)  BY <2>2
    <3>2. PICK q : q = p + j  OBVIOUS
    <3> HIDE DEF cut, end, j
    <3>3. DOMAIN end = DOMAIN cut /\ \A m \in DOMAIN cut : end[m] = IF m = q THEN NUL ELSE cut[m]
      BY <3>1, <3>2, CutIs
    <3> QED  BY <1>10, <2>2, <3>2, <3>3
  <2> QED  BY <2>1, <2>2
<1> HIDE DEF cut, end, e, blank, j
<1>12. \A m \in DOMAIN text :
         \/ r.mem[m] = text[m]
         \/ j # 0 /\ r.mem[m] = NUL /\ (m = p + j \/ (e # 0 /\ m = p + j + 1 + e))
  <2>1. \A m \in left : (j = 0 /\ m = text) \/ (j # 0 /\ m \in {text, cut, end})  OBVIOUS
  <2>2. CASE j = 0
    <3>1. r.mem \in {text, end}  BY <1>1, <2>1, <2>2
    <3> HIDE DEF left, found
    <3>2. \A m \in DOMAIN text : end[m] = text[m]  BY <1>10, <1>11, <2>2 DEF end
    <3> QED  BY <3>1, <3>2
  <2>3. CASE j # 0
    <3>1. r.mem \in {text, cut, end}  BY <1>1, <2>1
    <3> HIDE DEF left, found
    <3> QED  BY <1>10, <1>11, <2>3, <3>1
  <2> QED  BY <2>2, <2>3
<1>13. (r.short /\ r.n = 0) \/ (~r.short /\ Reads(text, p, j, r))
  <2>1. CASE \E m \in left : r = [mem |-> m, n |-> 0, scope |-> NUL, short |-> TRUE]
    BY <2>1
  <2>2. CASE r = found
    <3>1. r.n = (IF At(end, p) \in Addr THEN 1 ELSE 0) /\ r.scope = (IF j = 0 THEN NUL ELSE IfIdx(cut, a)) /\ r.short = FALSE
      BY <2>2
    <3> HIDE DEF found, left
    <3>2. At(end, p) = At(text, p)
      <4>1. p # a + e /\ (j # 0 => p # p + j)  BY <1>2, <1>6
      <4> QED  BY <1>10, <1>11, <4>1 DEF At
    <3>3. CASE j = 0  BY <3>1, <3>2, <3>3 DEF Reads
    <3>4. CASE j # 0
      <4>1. At(cut, a) = At(text, a)
        <5>1. e # 0 => a # a + e  BY <1>3, <1>6
        <5> QED  BY <1>10, <5>1 DEF At
      <4>2. At(cut, a + 1) = NUL <=> (At(text, a + 1) = NUL \/ e = 1)
        <5>1. e # 0 => (a + 1 = a + e <=> e = 1)  BY <1>3, <1>6
        <5> QED  BY <1>10, <5>1 DEF At
      <4>3. IfIdx(cut, a) = IF At(text, a) \in IfName /\ At(text, a + 1) \in {SP, NUL} THEN At(text, a) ELSE NUL
        <5> HIDE DEF a
        <5> QED  BY <1>7, <1>8, <4>1, <4>2 DEF IfIdx
      <4>4. a = p + j + 1 /\ a + 1 = p + j + 2  BY <1>2
      <4> HIDE DEF a
      <4> QED  BY <3>1, <3>2, <3>4, <4>3, <4>4 DEF Reads
    <3> QED  BY <3>1, <3>3, <3>4
  <2> QED  BY <1>1, <2>1, <2>2
<1>14. e \in Nat /\ j \in Nat  BY <1>2, <1>6
<1> HIDE DEF left, found, a
<1> QED  BY <1>9, <1>12, <1>13, <1>14

-----------------------------------------------------------------------------
(***************************************************************************)
(* Servers in the order of a text                                          *)
(***************************************************************************)
\* The order is that of more places, too.
LEMMA MorePlaces ==
  ASSUME NEW servers, NEW n \in Nat, NEW P, NEW Q, P \subseteq Q, NEW address,
         InOrder(servers, n, P, address)
  PROVE  InOrder(servers, n, Q, address)
<1>1. PICK f \in [1 .. n -> P] :
        /\ \A s \in 1 .. n : servers[s] = address[f[s]]
        /\ \A s, t \in 1 .. n : s < t => f[s] < f[t]
  BY DEF InOrder
<1>2. f \in [1 .. n -> Q]  BY <1>1
<1> QED  BY <1>1, <1>2 DEF InOrder

\* No servers are in order.
LEMMA NoneInOrder ==
  ASSUME NEW servers, NEW P, NEW address
  PROVE  InOrder(servers, 0, P, address)
<1> DEFINE f == [s \in 1 .. 0 |-> 0]
<1>1. f \in [1 .. 0 -> P]  OBVIOUS
<1>2. \A s \in 1 .. 0 : FALSE  OBVIOUS
<1> HIDE DEF f
<1> QED  BY <1>1, <1>2 DEF InOrder

\* Servers that do not differ are in the same order.
LEMMA SameOrder ==
  ASSUME NEW servers, NEW others, NEW n \in Nat, NEW P, NEW address,
         \A s \in 1 .. n : others[s] = servers[s], InOrder(servers, n, P, address)
  PROVE  InOrder(others, n, P, address)
<1>1. PICK f \in [1 .. n -> P] :
        /\ \A s \in 1 .. n : servers[s] = address[f[s]]
        /\ \A s, t \in 1 .. n : s < t => f[s] < f[t]
  BY DEF InOrder
<1>2. \A s \in 1 .. n : others[s] = address[f[s]]  BY <1>1
<1> QED  BY <1>1, <1>2 DEF InOrder

\* A server from a later place is the next one.
LEMMA OneMoreServer ==
  ASSUME NEW servers, NEW others, NEW n \in Nat, NEW P \in SUBSET Nat, NEW address,
         InOrder(servers, n, P, address), NEW Q \in SUBSET Nat, P \subseteq Q,
         NEW p \in Q, \A w \in P : w < p,
         \A s \in 1 .. n : others[s] = servers[s], others[n + 1] = address[p]
  PROVE  InOrder(others, n + 1, Q, address)
<1>1. PICK f \in [1 .. n -> P] :
        /\ \A s \in 1 .. n : servers[s] = address[f[s]]
        /\ \A s, t \in 1 .. n : s < t => f[s] < f[t]
  BY DEF InOrder
<1> DEFINE g == [s \in 1 .. n + 1 |-> IF s = n + 1 THEN p ELSE f[s]]
<1>2. \A s \in 1 .. n + 1 : s = n + 1 \/ s \in 1 .. n  OBVIOUS
<1>3. ~ (n + 1 \in 1 .. n)  OBVIOUS
<1>4. g[n + 1] = p /\ \A s \in 1 .. n : s \in 1 .. n + 1 /\ g[s] = f[s] /\ f[s] \in P
  BY <1>1, <1>3
<1>5. g \in [1 .. n + 1 -> Q]  BY <1>1, <1>2
<1> HIDE DEF g
<1>6. \A s \in 1 .. n + 1 : others[s] = address[g[s]]
  BY <1>1, <1>2, <1>4
<1>7. \A s, t \in 1 .. n + 1 : s < t => g[s] < g[t]
  <2> SUFFICES ASSUME NEW s \in 1 .. n + 1, NEW t \in 1 .. n + 1, s < t
               PROVE  g[s] < g[t]
    OBVIOUS
  <2>1. s \in 1 .. n  OBVIOUS
  <2>2. CASE t = n + 1  BY <1>4, <2>1, <2>2
  <2>3. CASE t \in 1 .. n  BY <1>1, <1>4, <2>1, <2>3
  <2> QED  BY <1>2, <2>2, <2>3
<1> QED  BY <1>5, <1>6, <1>7 DEF InOrder

-----------------------------------------------------------------------------
(***************************************************************************)
(* All servers of a text                                                   *)
(***************************************************************************)
\* Where there are no places there are no servers.
LEMMA NoneAll ==
  ASSUME NEW servers, NEW scopes, NEW P, P = {}, NEW address, NEW scope
  PROVE  AllInOrder(servers, scopes, 0, P, address, scope)
<1> DEFINE f == [s \in 1 .. 0 |-> 0]
<1>1. f \in [1 .. 0 -> P]  OBVIOUS
<1>2. \A s \in 1 .. 0 : FALSE  OBVIOUS
<1> HIDE DEF f
<1> QED  BY <1>1, <1>2 DEF AllInOrder

\* Servers that do not differ are as many of the same.
LEMMA SameAll ==
  ASSUME NEW servers, NEW scopes, NEW others, NEW their, NEW n \in Nat, NEW P, NEW address, NEW scope,
         \A s \in 1 .. n : others[s] = servers[s] /\ their[s] = scopes[s],
         AllInOrder(servers, scopes, n, P, address, scope)
  PROVE  AllInOrder(others, their, n, P, address, scope)
<1>1. PICK f \in [1 .. n -> P] :
        /\ \A s \in 1 .. n : servers[s] = address[f[s]] /\ scopes[s] = scope[f[s]]
        /\ \A s, t \in 1 .. n : s < t => f[s] < f[t]
        /\ \A p \in P : (\E s \in 1 .. n : f[s] = p) \/ (n = MaxNs /\ \A s \in 1 .. n : f[s] < p)
  BY DEF AllInOrder
<1>2. \A s \in 1 .. n : others[s] = address[f[s]] /\ their[s] = scope[f[s]]  BY <1>1
<1> QED  BY <1>1, <1>2 DEF AllInOrder

\* When there is no room, places that come later are left over.
LEMMA FullAll ==
  ASSUME NEW servers, NEW scopes, MaxNs \in Nat, NEW P, NEW Q, P \subseteq Q,
         \A p \in Q \ P : \A w \in P : w < p, NEW address, NEW scope,
         AllInOrder(servers, scopes, MaxNs, P, address, scope)
  PROVE  AllInOrder(servers, scopes, MaxNs, Q, address, scope)
<1>1. PICK f \in [1 .. MaxNs -> P] :
        /\ \A s \in 1 .. MaxNs : servers[s] = address[f[s]] /\ scopes[s] = scope[f[s]]
        /\ \A s, t \in 1 .. MaxNs : s < t => f[s] < f[t]
        /\ \A p \in P : (\E s \in 1 .. MaxNs : f[s] = p) \/ (\A s \in 1 .. MaxNs : f[s] < p)
  BY DEF AllInOrder
<1>2. f \in [1 .. MaxNs -> Q] /\ \A s \in 1 .. MaxNs : f[s] \in P  BY <1>1
<1>3. \A p \in Q : (\E s \in 1 .. MaxNs : f[s] = p) \/ (\A s \in 1 .. MaxNs : f[s] < p)
  BY <1>1, <1>2
<1> QED  BY <1>1, <1>2, <1>3 DEF AllInOrder

\* All of at least one place are at least one.
LEMMA AllAreSome ==
  ASSUME NEW servers, NEW scopes, NEW n, NEW P, P # {}, NEW address, NEW scope,
         AllInOrder(servers, scopes, n, P, address, scope)
  PROVE  n # 0
<1> SUFFICES ASSUME n = 0 PROVE FALSE  OBVIOUS
<1>1. PICK p : p \in P  OBVIOUS
<1>2. \A s \in 1 .. 0 : FALSE  OBVIOUS
<1>3. n = MaxNs  BY <1>1, <1>2 DEF AllInOrder
<1> QED  BY <1>3, ConfAssumption

\* the places of Q are those of P and p behind them
OneMorePlace(P, Q, p) ==
  P \subseteq Q /\ p \in Q /\ (\A w \in Q : w \in P \/ w = p) /\ \A w \in P : w < p

\* the first n servers with their scopes do not differ
SameServers(servers, scopes, others, their, n) ==
  \A s \in 1 .. n : others[s] = servers[s] /\ their[s] = scopes[s]

\* A server from the next place is the next one.
LEMMA OneMoreAll ==
  ASSUME NEW servers, NEW scopes, NEW others, NEW their, NEW n \in Nat, n < MaxNs, MaxNs \in Nat,
         NEW P \in SUBSET Nat, NEW Q \in SUBSET Nat, NEW p, OneMorePlace(P, Q, p),
         NEW address, NEW scope, AllInOrder(servers, scopes, n, P, address, scope),
         SameServers(servers, scopes, others, their, n),
         NEW next, next = n + 1, others[next] = address[p], their[next] = scope[p]
  PROVE  AllInOrder(others, their, next, Q, address, scope)
<1>9. /\ P \subseteq Q /\ p \in Q /\ (\A w \in Q : w \in P \/ w = p) /\ \A w \in P : w < p
      /\ \A s \in 1 .. n : others[s] = servers[s] /\ their[s] = scopes[s]
  BY DEF OneMorePlace, SameServers
<1>1. PICK f \in [1 .. n -> P] :
        /\ \A s \in 1 .. n : servers[s] = address[f[s]] /\ scopes[s] = scope[f[s]]
        /\ \A s, t \in 1 .. n : s < t => f[s] < f[t]
        /\ \A w \in P : (\E s \in 1 .. n : f[s] = w) \/ (n = MaxNs /\ \A s \in 1 .. n : f[s] < w)
  BY DEF AllInOrder
<1> DEFINE g == [s \in 1 .. n + 1 |-> IF s = n + 1 THEN p ELSE f[s]]
<1>2. \A s \in 1 .. n + 1 : s = n + 1 \/ s \in 1 .. n  OBVIOUS
<1>3. ~ (n + 1 \in 1 .. n) /\ n # MaxNs /\ n + 1 \in 1 .. n + 1  OBVIOUS
<1>4. g[n + 1] = p /\ \A s \in 1 .. n : s \in 1 .. n + 1 /\ g[s] = f[s] /\ f[s] \in P
  BY <1>1, <1>3
<1>5. g \in [1 .. n + 1 -> Q]  BY <1>1, <1>2, <1>9
<1> HIDE DEF g
<1>6. \A s \in 1 .. n + 1 : others[s] = address[g[s]] /\ their[s] = scope[g[s]]
  BY <1>1, <1>2, <1>4, <1>9
<1>7. \A s, t \in 1 .. n + 1 : s < t => g[s] < g[t]
  <2> SUFFICES ASSUME NEW s \in 1 .. n + 1, NEW t \in 1 .. n + 1, s < t
               PROVE  g[s] < g[t]
    OBVIOUS
  <2>1. s \in 1 .. n  OBVIOUS
  <2>2. CASE t = n + 1  BY <1>4, <1>9, <2>1, <2>2
  <2>3. CASE t \in 1 .. n  BY <1>1, <1>4, <2>1, <2>3
  <2> QED  BY <1>2, <2>2, <2>3
<1>8. \A w \in Q : \E s \in 1 .. n + 1 : g[s] = w
  <2> SUFFICES ASSUME NEW w \in Q PROVE \E s \in 1 .. n + 1 : g[s] = w  OBVIOUS
  <2>1. CASE w = p  BY <1>3, <1>4, <2>1
  <2>2. CASE w \in P
    <3>1. PICK s \in 1 .. n : f[s] = w  BY <1>1, <1>3, <2>2
    <3> QED  BY <1>4, <3>1
  <2> QED  BY <1>9, <2>1, <2>2
<1> QED  BY <1>5, <1>6, <1>7, <1>8 DEF AllInOrder

-----------------------------------------------------------------------------
(***************************************************************************)
(* The inductive invariant                                                 *)
(***************************************************************************)
\* the cache: what is usable has a deadline from its load, and as many calls left as
\* have not been served
FreshInv == ok => deadline = load.at + TTL /\ load.served + uses = Uses

\* the texts, and how far the parser has come in them
TextInv ==
  /\ env = Unset \/ env \in Seq(Tokens)
  /\ file \in FileTexts \cup {Unset, Unreadable}
  /\ x \in Nat \ {0} /\ i \in Nat \ {0}
  /\ pc \in {"env", "file", "lines"} => named.file = file
  /\ pc = "env" => /\ env \in Seq(Tokens) /\ x <= Len(env) + 1
                   /\ named.env # Unset /\ Cleaned(env, named.env)
  /\ pc = "lines" => /\ data \in Seq(Tokens) /\ i <= Len(data) + 1
                     /\ named.file \in FileTexts /\ named.file \notin {Unset, Unreadable}
                     /\ Cleaned(data, Append(named.file, NL))

\* the servers found so far are those of the places the parser has gone by
FoundInv ==
  /\ pc # "idle" => ~ok
  /\ pc = "env" => InOrder(ip, k, EnvPlaces(named.env) \cap 1 .. x - 1, named.env)
  /\ pc = "file" => k = 0
  /\ pc = "lines" => InOrder(ip, k, FilePlaces(named.file) \cap 1 .. i - 1, Meaning(named.file))
  /\ pc = "done" => k = 0 \/ EnvServers(ip, k, named.env) \/ FileServers(ip, k, named.file)

\* up to its first terminator a text is what it was
SameUpToEnd(text, orig) ==
  \A p \in DOMAIN orig : (\A m \in 1 .. p - 1 : orig[m] # NUL) => text[p] = orig[p]

\* there is no scope behind the last server
SlotsInv == pc # "idle" => \A s \in k + 1 .. MaxNs : sid[s] = NUL

\* of a plain value nothing is lost: no terminator falls before its end
PlainEnvInv ==
  pc = "env" =>
    /\ \A w \in 1 .. x - 1 : named.env[w] # NUL
    /\ PlainEnv(named.env) =>
         /\ SameUpToEnd(env, named.env)
         /\ AllInOrder(ip, sid, k, EnvPlaces(named.env) \cap 1 .. x - 1, named.env, NoScope(named.env))

\* of a plain file nothing is lost: the terminators fall on lines that are gone by
PlainFileInv ==
  /\ pc \in {"file", "lines"} => ~PlainEnv(named.env)
  /\ pc = "lines" /\ PlainFile(named.file) =>
       /\ \A p \in DOMAIN data : p >= i => data[p] = Append(named.file, NL)[p]
       /\ i = 1 \/ Append(named.file, NL)[i - 1] = NL
       /\ (lacked => OnlyV4(named.file)) =>
            AllInOrder(ip, sid, k, FilePlaces(named.file) \cap 1 .. i - 1,
                       Meaning(named.file), ScopeOf(named.file))

\* at the end all are found
AllFoundInv ==
  pc = "done" =>
    /\ PlainEnv(named.env) =>
         k # 0 /\ AllInOrder(ip, sid, k, EnvPlaces(named.env), named.env, NoScope(named.env))
    /\ ~EnvNames(named.env) /\ PlainFile(named.file) /\ (lacked => OnlyV4(named.file)) =>
         k # 0 /\ AllInOrder(ip, sid, k, FilePlaces(named.file), Meaning(named.file), ScopeOf(named.file))

CompleteInv == SlotsInv /\ PlainEnvInv /\ PlainFileInv /\ AllFoundInv

ConfInv == ServersInOrder /\ FreshInv /\ TextInv /\ FoundInv /\ CompleteInv

-----------------------------------------------------------------------------
(***************************************************************************)
(* Each step keeps the invariant                                           *)
(***************************************************************************)
\* What ConfTypeOK says of the variables, one by one
LEMMA Types ==
  ASSUME ConfTypeOK
  PROVE  /\ now \in 0 .. MaxNow /\ uses \in 0 .. Uses /\ deadline \in 0 .. MaxNow + TTL
         /\ load.at \in 0 .. MaxNow /\ load.served \in Nat
         /\ load = [at |-> load.at, served |-> load.served]
         /\ k \in 0 .. MaxNs /\ ip \in Servers /\ sid \in Scopes
BY DEF ConfTypeOK, CacheTypeOK

\* A server that is stored in the next slot keeps the type of the arrays.
LEMMA PutKeeps ==
  ASSUME ConfTypeOK, k < MaxNs, NEW a \in Addr, NEW scope \in IfName \cup {NUL}, Put(a, scope)
  PROVE  /\ ip' \in Servers /\ sid' \in Scopes /\ k' = k + 1 /\ k' \in 0 .. MaxNs
         /\ ip'[k + 1] = a /\ \A s \in 1 .. k : ip'[s] = ip[s]
         /\ sid'[k + 1] = scope /\ \A s \in 1 .. MaxNs : s # k + 1 => sid'[s] = sid[s]
<1>1. k \in 0 .. MaxNs /\ ip \in Servers /\ sid \in Scopes /\ MaxNs \in Nat
  BY Types, ConfAssumption
<1>2. k + 1 \in 1 .. MaxNs /\ k \in Nat  BY <1>1
<1>3. /\ ip' = [ip EXCEPT ![k + 1] = a] /\ sid' = [sid EXCEPT ![k + 1] = scope] /\ k' = k + 1
  BY DEF Put
<1>4. ip' \in Servers /\ sid' \in Scopes  BY <1>1, <1>2, <1>3 DEF Servers, Scopes
<1>5. ip'[k + 1] = a  BY <1>1, <1>2, <1>3 DEF Servers
<1>6. \A s \in 1 .. k : s # k + 1 /\ s \in 1 .. MaxNs  BY <1>1, <1>2
<1>7. \A s \in 1 .. k : ip'[s] = ip[s]  BY <1>1, <1>3, <1>6 DEF Servers
<1>8. sid'[k + 1] = scope  BY <1>1, <1>2, <1>3 DEF Scopes
<1>9. \A s \in 1 .. MaxNs : s # k + 1 => sid'[s] = sid[s]  BY <1>1, <1>3 DEF Scopes
<1> QED  BY <1>1, <1>2, <1>3, <1>4, <1>5, <1>7, <1>8, <1>9

\* A step of a load that leaves the cache and what it has handed out.
LEMMA LoadGoesOn ==
  ASSUME ConfInv, pc # "idle", pc' \in {"env", "file", "lines", "done"},
         UNCHANGED <<ccvars, ret, handed, good>>,
         k' \in 0 .. MaxNs, ip' \in Servers, sid' \in Scopes
  PROVE  ServersInOrder' /\ FreshInv' /\ (pc' # "idle" => ~ok')
<1>1. ~ok /\ ok' = ok  BY DEF ConfInv, FoundInv, ccvars
<1>2. ConfTypeOK'
  BY DEF ConfInv, ServersInOrder, ConfTypeOK, CacheTypeOK, ccvars, Servers, Scopes
<1>3. CacheIsLastLoad' /\ ServersOfOneSource' /\ ServersComplete' /\ FreshInv'
  BY <1>1 DEF CacheIsLastLoad, ServersOfOneSource, ServersComplete, FreshInv
<1> QED  BY <1>1, <1>2, <1>3 DEF ServersInOrder

\* Outside of a load there is nothing to be complete.
LEMMA IdleCompletes ==
  ASSUME pc' = "idle"
  PROVE  CompleteInv'
BY DEF CompleteInv, SlotsInv, PlainEnvInv, PlainFileInv, AllFoundInv

LEMMA CallHitKeeps ==
  ASSUME ConfInv, CallHit
  PROVE  ConfInv'
<1>1. /\ ok /\ uses # 0 /\ uses' = uses - 1 /\ load' = [load EXCEPT !.served = @ + 1]
      /\ UNCHANGED <<ok, deadline, now, env, x, file, data, i, k, ip, sid, good, named, lacked>>
      /\ pc = "idle" /\ pc' = "idle" /\ ret' = 0 /\ handed' = [ip |-> ip, sid |-> sid]
  BY DEF CallHit, Hit, Usable, Serve
<1>2. /\ uses \in 0 .. Uses /\ load.at \in 0 .. MaxNow /\ load.served \in Nat /\ Uses \in Nat
      /\ load = [at |-> load.at, served |-> load.served] /\ ip \in Servers /\ sid \in Scopes
  BY Types, CacheAssumption DEF ConfInv, ServersInOrder
<1>3. load' = [at |-> load.at, served |-> load.served + 1]  BY <1>1, <1>2
<1>4. uses' \in 0 .. Uses /\ load'.at = load.at /\ load'.served = load.served + 1
      /\ load' \in [at : 0 .. MaxNow, served : Nat]
  BY <1>1, <1>2, <1>3
<1>5. CacheTypeOK'
  BY <1>1, <1>4 DEF ConfInv, ServersInOrder, ConfTypeOK, CacheTypeOK
<1>6. ConfTypeOK'
  BY <1>1, <1>2, <1>5 DEF ConfInv, ServersInOrder, ConfTypeOK, Servers, Scopes
<1>7. FreshInv'  BY <1>1, <1>2, <1>4 DEF ConfInv, FreshInv
<1>8. CacheIsLastLoad' /\ ServersOfOneSource' /\ ServersComplete'
  BY <1>1 DEF ConfInv, ServersInOrder, CacheIsLastLoad, ServersOfOneSource, ServersComplete
<1>9. TextInv' /\ FoundInv'
  BY <1>1 DEF ConfInv, TextInv, FoundInv
<1>10. CompleteInv'  BY <1>1, IdleCompletes
<1> QED  BY <1>6, <1>7, <1>8, <1>9, <1>10 DEF ConfInv, ServersInOrder

LEMMA CallMissKeeps ==
  ASSUME ConfInv, CallMiss
  PROVE  ConfInv'
<1>1. /\ pc = "idle" /\ ok' = FALSE /\ UNCHANGED <<uses, deadline, load, now>>
      /\ sid' = NoServers.sid /\ k' = 0 /\ x' = 1
      /\ pc' = (IF env = Unset THEN "file" ELSE "env")
      /\ named' = [env |-> env, file |-> file]
      /\ UNCHANGED <<env, file, data, i, ip, ret, handed, good>>
  BY DEF CallMiss, Miss
<1>2. NoServers.sid \in Scopes  BY DEF NoServers, Scopes
<1>3. 0 \in 0 .. MaxNs  BY ConfAssumption
<1>4. ConfTypeOK'
  BY <1>1, <1>2, <1>3 DEF ConfInv, ServersInOrder, ConfTypeOK, CacheTypeOK, Servers, Scopes
<1>5. CacheIsLastLoad' /\ ServersOfOneSource' /\ ServersComplete' /\ FreshInv'
  BY <1>1 DEF CacheIsLastLoad, ServersOfOneSource, ServersComplete, FreshInv
<1>6. named'.env = env /\ named'.file = file  BY <1>1
<1>7. TextInv'
  <2>1. CASE env = Unset
    BY <1>1, <1>6, <2>1 DEF ConfInv, TextInv
  <2>2. CASE env # Unset
    <3>1. env \in Seq(Tokens) /\ 1 <= Len(env) + 1  BY <2>2 DEF ConfInv, TextInv
    <3>2. Cleaned(env, env)  BY DEF Cleaned
    <3> QED  BY <1>1, <1>6, <2>2, <3>1, <3>2 DEF ConfInv, TextInv
  <2> QED  BY <2>1, <2>2
<1>8. FoundInv'
  <2>1. InOrder(ip', 0, (EnvPlaces(named.env) \cap 1 .. x - 1)', named'.env)  BY NoneInOrder
  <2> QED  BY <1>1, <2>1 DEF FoundInv
<1>9. CompleteInv'
  <2>1. SlotsInv'
    <3>1. \A s \in 1 .. MaxNs : NoServers.sid[s] = NUL  BY DEF NoServers
    <3>2. k' + 1 = 1  BY <1>1
    <3> QED  BY <1>1, <3>1, <3>2 DEF SlotsInv
  <2>2. PlainEnvInv'
    <3>1. SameUpToEnd(env', env)  BY <1>1 DEF SameUpToEnd
    <3>2. EnvPlaces(named'.env) \cap 1 .. x' - 1 = {}  BY <1>1
    <3>3. AllInOrder(ip', sid', 0, EnvPlaces(named'.env) \cap 1 .. x' - 1, named'.env, NoScope(named'.env))
      BY <3>2, NoneAll
    <3>4. \A w \in 1 .. x' - 1 : FALSE  BY <1>1
    <3> QED  BY <1>1, <1>6, <3>1, <3>3, <3>4 DEF PlainEnvInv
  <2>3. PlainFileInv'
    <3>1. env = Unset => ~PlainEnv(env)  BY DEF PlainEnv, EnvNames
    <3> QED  BY <1>1, <1>6, <3>1 DEF PlainFileInv
  <2>4. AllFoundInv'  BY <1>1 DEF AllFoundInv
  <2> QED  BY <2>1, <2>2, <2>3, <2>4 DEF CompleteInv
<1> QED  BY <1>4, <1>5, <1>7, <1>8, <1>9 DEF ConfInv, ServersInOrder

LEMMA EnvBlankKeeps ==
  ASSUME ConfInv, EnvBlank
  PROVE  ConfInv'
<1>1. /\ pc = "env" /\ At(env, x) = SP /\ x' = x + 1
      /\ UNCHANGED <<ccvars, pc, env, file, data, i, k, ip, sid, ret, handed, good, named, lacked>>
  BY DEF EnvBlank
<1>2. /\ env \in Seq(Tokens) /\ x \in Nat /\ x # 0 /\ x <= Len(env) + 1
  BY <1>1 DEF ConfInv, TextInv
<1>3. x \in DOMAIN env /\ x <= Len(env)
  <2>1. x \in DOMAIN env  BY <1>1, ConfAssumption DEF At
  <2> QED  BY <1>2, <2>1
<1>4. TextInv'
  BY <1>1, <1>2, <1>3 DEF ConfInv, TextInv
<1>5. FoundInv'
  <2>1. InOrder(ip, k, EnvPlaces(named.env) \cap 1 .. x - 1, named.env) /\ k \in Nat
    BY <1>1, Types, ConfAssumption DEF ConfInv, FoundInv, ServersInOrder
  <2>2. EnvPlaces(named.env) \cap 1 .. x - 1 \subseteq EnvPlaces(named.env) \cap 1 .. x' - 1
    BY <1>1, <1>2
  <2>3. InOrder(ip, k, EnvPlaces(named.env) \cap 1 .. x' - 1, named.env)
    BY <2>1, <2>2, MorePlaces
  <2> QED  BY <1>1, <2>3 DEF ConfInv, FoundInv, ccvars
<1>6. ServersInOrder' /\ FreshInv'
  BY <1>1, Types, LoadGoesOn DEF ConfInv, ServersInOrder
<1>7. CompleteInv'
  <2>1. Cleaned(env, named.env)  BY <1>1 DEF ConfInv, TextInv
  <2>2. At(env, x) # NUL /\ SP \notin Addr  BY <1>1, ConfAssumption
  <2>3. named.env[x] = SP  BY <1>1, <2>1, <2>2, WasThere
  <2>4. PlainEnvInv /\ SlotsInv  BY DEF ConfInv, CompleteInv
  <2>5. \A w \in 1 .. x' - 1 : named.env[w] # NUL
    <3>1. \A w \in 1 .. x' - 1 : w \in 1 .. x - 1 \/ w = x  BY <1>1, <1>2
    <3> QED  BY <1>1, <2>2, <2>3, <2>4, <3>1, ConfAssumption DEF PlainEnvInv
  <2>6. EnvPlaces(named.env) \cap 1 .. x' - 1 = EnvPlaces(named.env) \cap 1 .. x - 1
    <3>1. x \notin EnvPlaces(named.env)  BY <2>2, <2>3 DEF EnvPlaces
    <3>2. \A w : w \in 1 .. x' - 1 <=> w \in 1 .. x - 1 \/ w = x  BY <1>1, <1>2
    <3> HIDE DEF EnvPlaces
    <3> QED  BY <3>1, <3>2
  <2>7. PlainEnvInv'  BY <1>1, <2>4, <2>5, <2>6 DEF PlainEnvInv
  <2>8. SlotsInv'  BY <1>1, <2>4 DEF SlotsInv
  <2> QED  BY <1>1, <2>7, <2>8 DEF CompleteInv, PlainFileInv, AllFoundInv
<1> QED  BY <1>4, <1>5, <1>6, <1>7 DEF ConfInv

\* In a text that names no interface ip6_ifscan spoils nothing before the end.
LEMMA ScanPlain ==
  ASSUME NEW text \in Seq(Tokens), NEW p \in Nat \ {0}, NEW r \in IfScan(text, p),
         \A w \in DOMAIN text : text[w] \notin IfName \cup {PCT}
  PROVE  /\ \A m \in DOMAIN text : (\A w \in 1 .. m - 1 : text[w] # NUL) => r.mem[m] = text[m]
         /\ r.n # 0 => r.scope = NUL
<1>1. PICK j, e \in Nat :
        /\ Falls(text, p, j, e)
        /\ \A m \in DOMAIN text :
             \/ r.mem[m] = text[m]
             \/ j # 0 /\ r.mem[m] = NUL /\ (m = p + j \/ (e # 0 /\ m = p + j + 1 + e))
        /\ \/ r.short /\ r.n = 0
           \/ ~r.short /\ Reads(text, p, j, r)
  BY ScanParts
<1>2. At(text, p + j) = NUL
  BY <1>1, ConfAssumption DEF Falls, At
<1>3. \A m \in DOMAIN text : (\A w \in 1 .. m - 1 : text[w] # NUL) => r.mem[m] = text[m]
  <2> SUFFICES ASSUME NEW m \in DOMAIN text, \A w \in 1 .. m - 1 : text[w] # NUL, r.mem[m] # text[m]
               PROVE  FALSE
    OBVIOUS
  <2>1. r.mem[m] = NUL /\ (m = p + j \/ (e # 0 /\ m = p + j + 1 + e))  BY <1>1
  <2>2. CASE m = p + j  BY <1>2, <2>1, <2>2 DEF At
  <2>3. CASE m = p + j + 1 + e
    <3>1. p + j \in 1 .. m - 1 /\ p + j \in DOMAIN text  BY <1>1, <2>3
    <3> QED  BY <1>2, <3>1 DEF At
  <2> QED  BY <2>1, <2>2, <2>3
<1>4. At(text, p + j + 1) \notin IfName  BY ConfAssumption DEF At
<1>5. r.n # 0 => r.scope = NUL  BY <1>1, <1>4 DEF Reads
<1> QED  BY <1>3, <1>5

LEMMA EnvWordCompletes ==
  ASSUME ConfInv, EnvWord
  PROVE  CompleteInv'
<1>1. PICK r \in IfScan(env, x) :
        /\ env' = r.mem /\ x' = x + r.n
        /\ IF r.n # 0 THEN Put(env[x], r.scope) ELSE NoPut
  BY DEF EnvWord
<1>2. /\ pc = "env" /\ pc' = "env" /\ k < MaxNs /\ At(env, x) # NUL /\ named' = named
  BY DEF EnvWord
<1>3. PICK orig : orig = named.env  OBVIOUS
<1>4. /\ env \in Seq(Tokens) /\ x \in Nat \ {0} /\ Cleaned(env, orig)
  BY <1>2, <1>3 DEF ConfInv, TextInv
<1>5. x \in DOMAIN orig /\ x \in DOMAIN env /\ At(env, x) = env[x] /\ env[x] = orig[x] /\ orig[x] # NUL
  BY <1>2, <1>4, WasThere
<1>6. r.n \in {0, 1} /\ r.scope \in IfName \cup {NUL} /\ (r.n # 0 => env[x] \in Addr)
  BY <1>4, <1>5, ScanCleans
<1>7. ConfTypeOK /\ k \in Nat /\ MaxNs \in Nat /\ ip \in Servers /\ sid \in Scopes
  BY Types, ConfAssumption DEF ConfInv, ServersInOrder
<1>8. SlotsInv /\ PlainEnvInv  BY DEF ConfInv, CompleteInv
<1>9. \/ r.n = 0 /\ x' = x /\ UNCHANGED <<ip, sid, k>>
      \/ /\ r.n = 1 /\ x' = x + 1 /\ orig[x] \in Addr /\ k' = k + 1
         /\ ip'[k + 1] = orig[x] /\ \A s \in 1 .. k : ip'[s] = ip[s]
         /\ sid'[k + 1] = r.scope /\ \A s \in 1 .. MaxNs : s # k + 1 => sid'[s] = sid[s]
  <2>1. CASE r.n = 0  BY <1>1, <1>4, <2>1 DEF NoPut
  <2>2. CASE r.n = 1
    <3>1. env[x] \in Addr /\ Put(env[x], r.scope)  BY <1>1, <1>6, <2>2
    <3> QED  BY <1>1, <1>2, <1>5, <1>6, <1>7, <2>2, <3>1, PutKeeps
  <2> QED  BY <1>6, <2>1, <2>2
<1>10. SlotsInv'
  <2>1. \A s \in k' + 1 .. MaxNs : s \in k + 1 .. MaxNs /\ s \in 1 .. MaxNs /\ (k' = k + 1 => s # k + 1)
    BY <1>7, <1>9
  <2> QED  BY <1>2, <1>8, <1>9, <2>1 DEF SlotsInv
<1>11. \A w \in 1 .. x' - 1 : orig[w] # NUL
  <2>1. \A w \in 1 .. x - 1 : orig[w] # NUL  BY <1>2, <1>3, <1>8 DEF PlainEnvInv
  <2>2. \A w \in 1 .. x' - 1 : w \in 1 .. x - 1 \/ w = x  BY <1>4, <1>9
  <2> QED  BY <1>5, <2>1, <2>2
<1>12. ASSUME PlainEnv(orig)
       PROVE  /\ SameUpToEnd(env', orig)
              /\ AllInOrder(ip', sid', k', EnvPlaces(orig) \cap 1 .. x' - 1, orig, NoScope(orig))
  <2>1. /\ SameUpToEnd(env, orig)
        /\ AllInOrder(ip, sid, k, EnvPlaces(orig) \cap 1 .. x - 1, orig, NoScope(orig))
    BY <1>2, <1>3, <1>8, <1>12 DEF PlainEnvInv
  <2>2. \A w \in DOMAIN env : env[w] \notin IfName \cup {PCT}
    <3>1. \A w \in DOMAIN env : w \in DOMAIN orig /\ (env[w] = orig[w] \/ env[w] = NUL)
      BY <1>4 DEF Cleaned
    <3>2. \A w \in DOMAIN orig : orig[w] \notin IfName \cup {PCT}  BY <1>12 DEF PlainEnv
    <3> QED  BY <3>1, <3>2, ConfAssumption
  <2>3. /\ \A m \in DOMAIN env : (\A w \in 1 .. m - 1 : env[w] # NUL) => env'[m] = env[m]
        /\ r.n # 0 => r.scope = NUL
    BY <1>1, <1>4, <2>2, ScanPlain
  <2>4. SameUpToEnd(env', orig)
    <3> SUFFICES ASSUME NEW m \in DOMAIN orig, \A w \in 1 .. m - 1 : orig[w] # NUL
                 PROVE  env'[m] = orig[m]
      BY DEF SameUpToEnd
    <3>1. DOMAIN orig = DOMAIN env /\ DOMAIN env = 1 .. Len(env) /\ Len(env) \in Nat
      BY <1>4 DEF Cleaned
    <3>2. \A w \in 1 .. m - 1 : w \in DOMAIN orig /\ \A v \in 1 .. w - 1 : v \in 1 .. m - 1
      BY <3>1
    <3>3. \A w \in 1 .. m - 1 : env[w] # NUL  BY <2>1, <3>2 DEF SameUpToEnd
    <3>4. env[m] = orig[m]  BY <2>1 DEF SameUpToEnd
    <3> QED  BY <2>3, <3>1, <3>3, <3>4
  <2>5. CASE r.n = 0  BY <1>9, <2>1, <2>4, <2>5
  <2>6. CASE r.n # 0
    <3> DEFINE P == EnvPlaces(orig) \cap 1 .. x - 1
               Q == EnvPlaces(orig) \cap 1 .. x' - 1
    <3>1. x \in EnvPlaces(orig)
      <4>1. \A w \in 1 .. x - 1 : orig[w] # NUL  BY <1>2, <1>3, <1>8 DEF PlainEnvInv
      <4> QED  BY <1>5, <1>9, <2>6, <4>1 DEF EnvPlaces
    <3>2. /\ P \in SUBSET Nat /\ Q \in SUBSET Nat /\ P \subseteq Q /\ x \in Q
          /\ \A w \in Q : w \in P \/ w = x
          /\ \A w \in P : w < x
      <4>1. \A w : w \in 1 .. x' - 1 <=> w \in 1 .. x - 1 \/ w = x  BY <1>4, <1>9, <2>6
      <4>2. \A w \in 1 .. x - 1 : w < x /\ w \in Nat  BY <1>4
      <4> QED  BY <1>4, <3>1, <4>1, <4>2
    <3>3. NoScope(orig)[x] = NUL  BY <1>5 DEF NoScope
    <3>4. \A s \in 1 .. k : ip'[s] = ip[s] /\ sid'[s] = sid[s]
      <4>1. \A s \in 1 .. k : s \in 1 .. MaxNs /\ s # k + 1  BY <1>2, <1>7
      <4> QED  BY <1>9, <2>6, <4>1
    <3> HIDE DEF P, Q
    <3>5. AllInOrder(ip, sid, k, P, orig, NoScope(orig))  BY <2>1 DEF P
    <3>6. ip'[k + 1] = orig[x] /\ sid'[k + 1] = NoScope(orig)[x]  BY <1>9, <2>3, <2>6, <3>3
    <3>8. PICK n, p, scope : n = k /\ p = x /\ scope = NoScope(orig)  OBVIOUS
    <3>12. P \in SUBSET Nat /\ Q \in SUBSET Nat  BY <3>2
    <3>9. n \in Nat /\ n < MaxNs /\ MaxNs \in Nat  BY <1>2, <1>7, <3>8
    <3>10. OneMorePlace(P, Q, p)  BY <3>2, <3>8 DEF OneMorePlace
    <3>11. /\ AllInOrder(ip, sid, n, P, orig, scope)
           /\ SameServers(ip, sid, ip', sid', n)
           /\ k' = n + 1 /\ ip'[k'] = orig[p] /\ sid'[k'] = scope[p]
      BY <1>9, <2>6, <3>4, <3>5, <3>6, <3>8 DEF SameServers
    <3>7. AllInOrder(ip', sid', k', Q, orig, scope)
      BY <3>9, <3>10, <3>11, <3>12, OneMoreAll
    <3> QED  BY <2>4, <3>7, <3>8 DEF Q
  <2> QED  BY <2>5, <2>6
<1>13. PlainEnvInv'  BY <1>2, <1>3, <1>11, <1>12 DEF PlainEnvInv
<1> QED  BY <1>2, <1>10, <1>13 DEF CompleteInv, PlainFileInv, AllFoundInv

LEMMA EnvWordKeeps ==
  ASSUME ConfInv, EnvWord
  PROVE  ConfInv'
<1>1. PICK r \in IfScan(env, x) :
        /\ env' = r.mem /\ x' = x + r.n
        /\ IF r.n # 0 THEN Put(env[x], r.scope) ELSE NoPut
  BY DEF EnvWord
<1>13. CompleteInv'  BY <1>1, EnvWordCompletes
<1>2. /\ pc = "env" /\ k < MaxNs /\ At(env, x) # NUL
      /\ UNCHANGED <<ccvars, pc, file, data, i, ret, handed, good, named>>
  BY DEF EnvWord
<1>3. /\ env \in Seq(Tokens) /\ x \in Nat /\ x # 0 /\ x <= Len(env) + 1
      /\ named.env # Unset /\ Cleaned(env, named.env) /\ named.file = file
  BY <1>2 DEF ConfInv, TextInv
<1>4. /\ r.mem \in Seq(Tokens) /\ Len(r.mem) = Len(env) /\ Cleaned(r.mem, env)
      /\ r.n \in {0, 1} /\ r.scope \in IfName \cup {NUL}
      /\ r.n # 0 => At(env, x) \in Addr
  BY <1>3, ScanCleans
<1>5. /\ x \in DOMAIN named.env /\ x \in DOMAIN env /\ At(env, x) = env[x] /\ env[x] = named.env[x]
  BY <1>2, <1>3, WasThere
<1>6. x <= Len(env) /\ x \in 1 .. Len(env)  BY <1>3, <1>5
<1>7. TextInv'
  <2>1. Cleaned(env', named.env)  BY <1>1, <1>3, <1>4, CleanedTwice
  <2>2. x' \in Nat \ {0} /\ x' <= Len(env') + 1  BY <1>1, <1>3, <1>4, <1>6
  <2> QED  BY <1>1, <1>2, <1>3, <1>4, <2>1, <2>2 DEF ConfInv, TextInv
<1>8. ConfTypeOK /\ k \in Nat /\ k \in 0 .. MaxNs /\ ip \in Servers /\ sid \in Scopes
  BY Types, ConfAssumption DEF ConfInv, ServersInOrder
<1> DEFINE P == EnvPlaces(named.env) \cap 1 .. x - 1
           Q == EnvPlaces(named.env) \cap 1 .. x' - 1
<1>9. InOrder(ip, k, P, named.env)  BY <1>2 DEF ConfInv, FoundInv
<1>10. /\ k' \in 0 .. MaxNs /\ ip' \in Servers /\ sid' \in Scopes
       /\ InOrder(ip', k', Q, named.env)
  <2>1. CASE r.n = 0
    <3>1. UNCHANGED <<ip, sid, k>> /\ x' = x  BY <1>1, <1>3, <2>1 DEF NoPut
    <3> QED  BY <1>8, <1>9, <3>1
  <2>2. CASE r.n # 0
    <3>1. r.n = 1 /\ x' = x + 1 /\ env[x] \in Addr /\ Put(env[x], r.scope)
      BY <1>1, <1>4, <1>5, <2>2
    <3>2. /\ ip' \in Servers /\ sid' \in Scopes /\ k' = k + 1 /\ k' \in 0 .. MaxNs
          /\ ip'[k + 1] = env[x] /\ \A s \in 1 .. k : ip'[s] = ip[s]
      BY <1>2, <1>4, <1>8, <3>1, PutKeeps
    <3>6. x \in EnvPlaces(named.env)
      <4>1. \A w \in 1 .. x - 1 : named.env[w] # NUL
        BY <1>2 DEF ConfInv, CompleteInv, PlainEnvInv
      <4> QED  BY <1>5, <3>1, <4>1 DEF EnvPlaces
    <3>3. P \in SUBSET Nat /\ Q \in SUBSET Nat /\ P \subseteq Q /\ x \in Q /\ \A w \in P : w < x
      BY <1>3, <3>1, <3>6
    <3>4. ip'[k + 1] = named.env[x]  BY <1>5, <3>2
    <3> HIDE DEF P, Q
    <3>5. InOrder(ip', k + 1, Q, named.env)  BY <1>8, <1>9, <3>2, <3>3, <3>4, OneMoreServer
    <3> QED  BY <3>2, <3>5
  <2> QED  BY <2>1, <2>2
<1>11. ServersInOrder' /\ FreshInv' /\ ~ok'
  BY <1>2, <1>10, LoadGoesOn
<1>12. FoundInv'
  BY <1>2, <1>10, <1>11 DEF FoundInv
<1> QED  BY <1>7, <1>11, <1>12, <1>13 DEF ConfInv

LEMMA EnvEndCompletes ==
  ASSUME ConfInv, EnvEnd, EnvServers(ip, k, named.env)
  PROVE  CompleteInv'
<1>1. /\ pc = "env" /\ pc' = (IF k = 0 THEN "file" ELSE "done") /\ (k = MaxNs \/ At(env, x) = NUL)
      /\ UNCHANGED <<env, x, i, data, k, ip, sid, named, lacked>>
  BY DEF EnvEnd
<1>2. PICK orig : orig = named.env  OBVIOUS
<1>3. env \in Seq(Tokens) /\ x \in Nat \ {0} /\ Cleaned(env, orig)
  BY <1>1, <1>2 DEF ConfInv, TextInv
<1>4. k \in Nat /\ MaxNs \in Nat \ {0} /\ SlotsInv /\ PlainEnvInv
  BY Types, ConfAssumption DEF ConfInv, ServersInOrder, CompleteInv
<1> DEFINE P == EnvPlaces(orig) \cap 1 .. x - 1
<1>5. ASSUME PlainEnv(orig)
      PROVE  k # 0 /\ AllInOrder(ip, sid, k, EnvPlaces(orig), orig, NoScope(orig))
  <2>1. SameUpToEnd(env, orig) /\ AllInOrder(ip, sid, k, P, orig, NoScope(orig))
    BY <1>1, <1>2, <1>4, <1>5 DEF PlainEnvInv
  <2>2. EnvPlaces(orig) # {}  BY <1>5 DEF PlainEnv, EnvNames
  <2>3. CASE At(env, x) = NUL
    <3>1. EnvPlaces(orig) \subseteq 1 .. x - 1
      <4> SUFFICES ASSUME NEW p \in EnvPlaces(orig), p \notin 1 .. x - 1 PROVE FALSE  OBVIOUS
      <4>1. p \in DOMAIN orig /\ orig[p] \in Addr /\ \A m \in 1 .. p - 1 : orig[m] # NUL
        BY DEF EnvPlaces
      <4>2. DOMAIN orig = 1 .. Len(env) /\ DOMAIN env = 1 .. Len(env) /\ Len(env) \in Nat
        BY <1>3 DEF Cleaned
      <4>3. x \in DOMAIN orig /\ (x = p \/ x \in 1 .. p - 1) /\ \A m \in 1 .. x - 1 : m \in 1 .. p - 1
        BY <1>3, <4>1, <4>2
      <4>4. orig[x] # NUL  BY <4>1, <4>3, ConfAssumption
      <4>5. env[x] = orig[x]  BY <2>1, <4>1, <4>3 DEF SameUpToEnd
      <4> QED  BY <2>3, <4>2, <4>3, <4>4, <4>5 DEF At
    <3>2. P = EnvPlaces(orig)  BY <3>1
    <3> HIDE DEF P
    <3>3. k # 0  BY <2>1, <2>2, <3>2, AllAreSome
    <3> QED  BY <2>1, <3>2, <3>3
  <2>4. CASE k = MaxNs
    <3>1. P \subseteq EnvPlaces(orig) /\ \A p \in EnvPlaces(orig) \ P : \A w \in P : w < p
      <4>1. \A p \in EnvPlaces(orig) : p \in Nat \ {0}
        <5>1. DOMAIN orig = 1 .. Len(env)  BY <1>3 DEF Cleaned
        <5> QED  BY <5>1 DEF EnvPlaces
      <4> QED  BY <1>3, <4>1
    <3> HIDE DEF P
    <3>2. AllInOrder(ip, sid, MaxNs, EnvPlaces(orig), orig, NoScope(orig))
      BY <1>4, <2>1, <2>4, <3>1, FullAll
    <3> QED  BY <1>4, <2>4, <3>2
  <2> QED  BY <1>1, <2>3, <2>4
<1>6. k # 0 => EnvNames(orig)
  <2> SUFFICES ASSUME k # 0 PROVE EnvNames(orig)  OBVIOUS
  <2>1. orig # Unset /\ InOrder(ip, k, EnvPlaces(orig), orig)  BY <1>2 DEF EnvServers
  <2>2. PICK f \in [1 .. k -> EnvPlaces(orig)] : TRUE  BY <2>1 DEF InOrder
  <2>3. 1 \in 1 .. k  BY <1>4
  <2>4. f[1] \in EnvPlaces(orig)  BY <2>2, <2>3
  <2> QED  BY <2>1, <2>4 DEF EnvNames
<1>7. SlotsInv'  BY <1>1, <1>4 DEF SlotsInv
<1>8. PlainFileInv'  BY <1>1, <1>2, <1>5 DEF PlainFileInv
<1>9. AllFoundInv'  BY <1>1, <1>2, <1>5, <1>6 DEF AllFoundInv
<1> QED  BY <1>1, <1>7, <1>8, <1>9 DEF CompleteInv, PlainEnvInv

LEMMA EnvEndKeeps ==
  ASSUME ConfInv, EnvEnd
  PROVE  ConfInv'
<1>1. /\ pc = "env" /\ pc' = (IF k = 0 THEN "file" ELSE "done")
      /\ UNCHANGED <<ccvars, env, x, file, data, i, k, ip, sid, ret, handed, good, named, lacked>>
  BY DEF EnvEnd
<1>2. k \in Nat /\ k \in 0 .. MaxNs /\ ip \in Servers /\ sid \in Scopes
  BY Types, ConfAssumption DEF ConfInv, ServersInOrder
<1>3. ServersInOrder' /\ FreshInv' /\ ~ok'  BY <1>1, <1>2, LoadGoesOn
<1>4. TextInv'  BY <1>1 DEF ConfInv, TextInv
<1>5. EnvServers(ip, k, named.env)
  <2>1. InOrder(ip, k, EnvPlaces(named.env) \cap 1 .. x - 1, named.env)
    BY <1>1 DEF ConfInv, FoundInv
  <2>2. InOrder(ip, k, EnvPlaces(named.env), named.env)  BY <1>2, <2>1, MorePlaces
  <2> QED  BY <1>1, <2>2 DEF EnvServers, ConfInv, TextInv
<1>6. FoundInv'  BY <1>1, <1>3, <1>5 DEF FoundInv
<1>7. CompleteInv'  BY <1>5, EnvEndCompletes
<1> QED  BY <1>3, <1>4, <1>6, <1>7 DEF ConfInv

\* A load that fails leaves nothing that could be used.
LEMMA FailKeeps ==
  ASSUME ConfInv, pc = "file", Fail, UNCHANGED <<ccvars, env, x, file, k, ip, sid, named, lacked>>,
         i' = i
  PROVE  ConfInv'
<1>1. ~ok' /\ pc' = "idle" /\ ret' = -1 /\ UNCHANGED <<handed, good>>
  BY DEF Fail, ConfInv, FoundInv, ccvars
<1>2. ConfTypeOK'
  BY <1>1 DEF ConfInv, ServersInOrder, ConfTypeOK, CacheTypeOK, ccvars, Servers, Scopes
<1>3. CacheIsLastLoad' /\ ServersOfOneSource' /\ ServersComplete' /\ FreshInv'
  BY <1>1 DEF CacheIsLastLoad, ServersOfOneSource, ServersComplete, FreshInv
<1>4. TextInv' /\ FoundInv'  BY <1>1 DEF ConfInv, TextInv, FoundInv
<1>5. CompleteInv'  BY <1>1, IdleCompletes
<1> QED  BY <1>2, <1>3, <1>4, <1>5 DEF ConfInv, ServersInOrder

LEMMA FileKeeps ==
  ASSUME ConfInv, File
  PROVE  ConfInv'
<1>1. pc = "file" /\ UNCHANGED <<ccvars, env, x, file, k, ip, sid, named, lacked>>  BY DEF File
<1>2. k = 0 /\ k \in 0 .. MaxNs /\ ip \in Servers /\ sid \in Scopes
  BY <1>1, Types DEF ConfInv, ServersInOrder, FoundInv
<1>3. CASE Fail /\ UNCHANGED <<data, i>>
  BY <1>1, <1>3, FailKeeps
<1>4. CASE file = Unset /\ pc' = "done" /\ UNCHANGED <<data, i, ret, handed, good>>
  <2>1. ServersInOrder' /\ FreshInv' /\ ~ok'  BY <1>1, <1>2, <1>4, LoadGoesOn
  <2>2. TextInv' /\ FoundInv'  BY <1>1, <1>2, <1>4, <2>1 DEF ConfInv, TextInv, FoundInv
  <2>3. named.file = Unset /\ ~PlainEnv(named.env)
    BY <1>1, <1>4 DEF ConfInv, TextInv, CompleteInv, PlainFileInv
  <2>4. ~PlainFile(named.file)  BY <2>3 DEF PlainFile, FileNames
  <2>5. SlotsInv'  BY <1>1, <1>4 DEF ConfInv, CompleteInv, SlotsInv
  <2>6. CompleteInv'
    BY <1>1, <1>4, <2>3, <2>4, <2>5 DEF CompleteInv, PlainEnvInv, PlainFileInv, AllFoundInv
  <2> QED  BY <2>1, <2>2, <2>6 DEF ConfInv
<1>5. CASE /\ file \notin {Unset, Unreadable} /\ pc' = "lines"
           /\ data' = Append(file, NL) /\ i' = 1
           /\ UNCHANGED <<ret, handed, good>>
  <2>1. ServersInOrder' /\ FreshInv' /\ ~ok'  BY <1>1, <1>2, <1>5, LoadGoesOn
  <2>2. file \in FileTexts /\ file \in Seq(Tokens) /\ NL \in Tokens /\ named.file = file
    BY <1>1, <1>5, ConfAssumption DEF ConfInv, TextInv, Tokens
  <2>3. data' \in Seq(Tokens) /\ 1 <= Len(data') + 1  BY <1>5, <2>2
  <2>4. Cleaned(data', Append(file, NL))  BY <1>5 DEF Cleaned
  <2>5. TextInv'  BY <1>1, <1>5, <2>2, <2>3, <2>4 DEF ConfInv, TextInv
  <2>6. InOrder(ip', 0, (FilePlaces(named.file) \cap 1 .. i - 1)', Meaning(named.file)')
    BY NoneInOrder
  <2>7. FoundInv'  BY <1>1, <1>2, <1>5, <2>1, <2>6 DEF FoundInv
  <2>8. SlotsInv' /\ ~PlainEnv(named.env)
    BY <1>1, <1>5 DEF ConfInv, CompleteInv, SlotsInv, PlainFileInv
  <2>9. PlainFileInv'
    <3>1. FilePlaces(named'.file) \cap 1 .. i' - 1 = {}  BY <1>5
    <3>2. AllInOrder(ip', sid', 0, FilePlaces(named'.file) \cap 1 .. i' - 1,
                     Meaning(named'.file), ScopeOf(named'.file))
      BY <3>1, NoneAll
    <3> QED  BY <1>1, <1>2, <1>5, <2>2, <2>8, <3>2 DEF PlainFileInv
  <2>10. CompleteInv'  BY <1>5, <2>8, <2>9 DEF CompleteInv, PlainEnvInv, AllFoundInv
  <2> QED  BY <2>1, <2>5, <2>7, <2>10 DEF ConfInv
<1> QED  BY <1>3, <1>4, <1>5 DEF File

LEMMA LinesEndKeeps ==
  ASSUME ConfInv, LinesEnd
  PROVE  ConfInv'
<1>1. /\ pc = "lines" /\ pc' = "done"
      /\ UNCHANGED <<ccvars, env, x, file, data, i, k, ip, sid, ret, handed, good, named, lacked>>
  BY DEF LinesEnd
<1>2. k \in Nat /\ k \in 0 .. MaxNs /\ ip \in Servers /\ sid \in Scopes
  BY Types, ConfAssumption DEF ConfInv, ServersInOrder
<1>3. ServersInOrder' /\ FreshInv' /\ ~ok'  BY <1>1, <1>2, LoadGoesOn
<1>4. TextInv'  BY <1>1 DEF ConfInv, TextInv
<1>5. FileServers(ip, k, named.file)
  <2>1. InOrder(ip, k, FilePlaces(named.file) \cap 1 .. i - 1, Meaning(named.file))
    BY <1>1 DEF ConfInv, FoundInv
  <2>2. InOrder(ip, k, FilePlaces(named.file), Meaning(named.file))  BY <1>2, <2>1, MorePlaces
  <2> QED  BY <1>1, <2>2 DEF FileServers, Meaning, ConfInv, TextInv
<1>6. FoundInv'  BY <1>1, <1>3, <1>5 DEF FoundInv
<1>7. CompleteInv'
  <2>1. /\ data \in Seq(Tokens) /\ named.file \in Seq(Tokens) /\ i \in Nat \ {0} /\ Ends = {}
        /\ Cleaned(data, Append(named.file, NL))
    BY ConfAssumption DEF LinesEnd, ConfInv, TextInv
  <2>2. SlotsInv' /\ ~PlainEnv(named.env) /\ PlainFileInv
    BY <1>1 DEF ConfInv, CompleteInv, SlotsInv, PlainFileInv
  <2>3. ASSUME PlainFile(named.file), lacked => OnlyV4(named.file)
        PROVE  k # 0 /\ AllInOrder(ip, sid, k, FilePlaces(named.file), Meaning(named.file), ScopeOf(named.file))
    <3>1. PICK orig \in Seq(Tokens) : orig = named.file  BY <2>1
    <3>2. /\ \A p \in DOMAIN data : p >= i => data[p] = Append(orig, NL)[p]
          /\ AllInOrder(ip, sid, k, FilePlaces(orig) \cap 1 .. i - 1, Meaning(orig), ScopeOf(orig))
      BY <1>1, <2>2, <2>3, <3>1 DEF PlainFileInv
    <3>3. Len(orig) \in Nat /\ Len(orig) + 1 \in DOMAIN data /\ Append(orig, NL)[Len(orig) + 1] = NL
      BY <2>1, <3>1 DEF Cleaned
    <3>4. Len(orig) + 1 < i
      <4> SUFFICES ASSUME ~(Len(orig) + 1 < i) PROVE FALSE  OBVIOUS
      <4>1. Len(orig) + 1 >= i  BY <2>1, <3>3
      <4>2. Len(orig) + 1 \in Ends  BY <3>2, <3>3, <4>1 DEF Ends
      <4> QED  BY <2>1, <4>2
    <3>5. FilePlaces(orig) \cap 1 .. i - 1 = FilePlaces(orig)
      <4>1. FilePlaces(orig) \subseteq 3 .. Len(orig) + 1  BY DEF FilePlaces, ServerWords
      <4> QED  BY <2>1, <3>3, <3>4, <4>1
    <3>6. FilePlaces(orig) # {}  BY <2>3, <3>1 DEF PlainFile, FileNames
    <3>7. k # 0  BY <3>2, <3>5, <3>6, AllAreSome
    <3> QED  BY <3>1, <3>2, <3>5, <3>7
  <2> QED  BY <1>1, <2>2, <2>3 DEF CompleteInv, PlainEnvInv, PlainFileInv, AllFoundInv
<1> QED  BY <1>3, <1>4, <1>6, <1>7 DEF ConfInv

LEMMA LoadEndsKeeps ==
  ASSUME ConfInv, LoadEnds
  PROVE  ConfInv'
<1>1. /\ pc = "done" /\ pc' = "idle" /\ ret' = 0 /\ ok' = TRUE
      /\ deadline' = now + TTL /\ uses' = Uses - 1 /\ load' = [at |-> now, served |-> 1]
      /\ ip' = Filled /\ good' = [ip |-> Filled, sid |-> sid] /\ handed' = [ip |-> Filled, sid |-> sid]
      /\ UNCHANGED <<now, env, x, file, data, i, k, sid, named, lacked>>
  BY DEF LoadEnds, Loaded, Serve
<1>2. /\ now \in 0 .. MaxNow /\ k \in 0 .. MaxNs /\ ip \in Servers /\ sid \in Scopes
      /\ MaxNs \in Nat \ {0} /\ TTL \in Nat /\ Uses \in Nat \ {0} /\ MaxNow \in Nat
  BY Types, ConfAssumption, CacheAssumption DEF ConfInv, ServersInOrder
<1>3. /\ Filled \in Servers /\ \A s \in 1 .. k : Filled[s] = ip[s]
      /\ \A s \in k + 1 .. MaxNs : (k = 0 /\ s = 1) \/ Filled[s] = Zero
      /\ k = 0 => Filled[1] = Local6
  <2>1. Filled \in Servers  BY <1>2, ConfAssumption DEF Filled, Servers, Addr
  <2>2. \A s \in 1 .. MaxNs : Filled[s] = IF s <= k THEN ip[s] ELSE IF k = 0 /\ s = 1 THEN Local6 ELSE Zero
    BY DEF Filled
  <2>3. \A s \in 1 .. k : s \in 1 .. MaxNs /\ s <= k  BY <1>2
  <2>4. \A s \in k + 1 .. MaxNs : s \in 1 .. MaxNs /\ ~(s <= k)  BY <1>2
  <2>5. 1 \in 1 .. MaxNs /\ (k = 0 => ~(1 <= k))  BY <1>2
  <2> QED  BY <2>1, <2>2, <2>3, <2>4, <2>5
<1>10. \A s \in k + 1 .. MaxNs : sid[s] = NUL  BY <1>1 DEF ConfInv, CompleteInv, SlotsInv
<1> HIDE DEF Filled
<1>4. ConfTypeOK'
  <2>1. uses' \in 0 .. Uses /\ deadline' \in 0 .. MaxNow + TTL /\ load' \in [at : 0 .. MaxNow, served : Nat]
    BY <1>1, <1>2
  <2>2. CacheTypeOK'  BY <1>1, <1>2, <2>1 DEF CacheTypeOK
  <2>3. {handed', good'} \subseteq [ip : Servers', sid : Scopes']
    BY <1>1, <1>2, <1>3 DEF Servers, Scopes
  <2> QED  BY <1>1, <1>2, <1>3, <2>2, <2>3 DEF ConfTypeOK, Servers, Scopes
<1>5. CacheIsLastLoad'  BY <1>1 DEF CacheIsLastLoad
<1>6. FreshInv'
  <2>1. load'.at = now /\ load'.served = 1 /\ 1 + (Uses - 1) = Uses  BY <1>1, <1>2
  <2> QED  BY <1>1, <2>1 DEF FreshInv
<1>7. ServersOfOneSource'
  <2>1. good'.ip = Filled  BY <1>1
  <2>2. CASE k = 0
    <3>1. 1 \in 1 .. MaxNs /\ Filled[1] = Local6 /\ \A s \in 1 + 1 .. MaxNs : Filled[s] = Zero
      BY <1>2, <1>3, <2>2
    <3>2. \A s \in 1 .. MaxNs : sid[s] = NUL  BY <1>2, <1>10, <2>2
    <3>3. \A s \in 1 + 1 .. MaxNs : s \in 1 .. MaxNs  BY <1>2
    <3> QED  BY <1>1, <2>1, <3>1, <3>2, <3>3 DEF ServersOfOneSource, EndsAt
  <2>3. CASE k # 0
    <3>1. k \in 1 .. MaxNs /\ k \in Nat /\ \A s \in k + 1 .. MaxNs : Filled[s] = Zero
      BY <1>2, <1>3, <2>3
    <3>2. EnvServers(ip, k, named.env) \/ FileServers(ip, k, named.file)
      BY <1>1, <2>3 DEF ConfInv, FoundInv
    <3>3. EnvServers(Filled, k, named.env) \/ FileServers(Filled, k, named.file)
      BY <1>3, <3>1, <3>2, SameOrder DEF EnvServers, FileServers
    <3>4. EndsAt(good', k)  BY <1>1, <1>10, <2>1, <3>1 DEF EndsAt
    <3> QED  BY <1>1, <2>1, <3>1, <3>3, <3>4 DEF ServersOfOneSource, EnvServers, FileServers
  <2> QED  BY <2>2, <2>3
<1>8. TextInv' /\ FoundInv'  BY <1>1 DEF ConfInv, TextInv, FoundInv
<1>9. ServersComplete'
  <2>1. good'.ip = Filled /\ good'.sid = sid  BY <1>1
  <2>2. ASSUME NEW P, NEW address, NEW scope, k # 0, AllInOrder(ip, sid, k, P, address, scope)
        PROVE  \E n \in 1 .. MaxNs :
                 EndsAt(good', n) /\ AllInOrder(good'.ip, good'.sid, n, P, address, scope)
    <3>1. k \in 1 .. MaxNs /\ k \in Nat  BY <1>2, <2>2
    <3>2. AllInOrder(Filled, sid, k, P, address, scope)  BY <1>3, <2>2, <3>1, SameAll
    <3>3. EndsAt(good', k)  BY <2>1, <1>3, <2>2, <1>10 DEF EndsAt
    <3> QED  BY <2>1, <3>1, <3>2, <3>3
  <2>3. AllFoundInv /\ pc = "done"  BY <1>1 DEF ConfInv, CompleteInv
  <2>4. PlainEnv(named.env) => \E n \in 1 .. MaxNs : EndsAt(good', n) /\ EnvAll(good', n, named.env)
    BY <2>2, <2>3 DEF AllFoundInv, EnvAll
  <2>5. ~EnvNames(named.env) /\ PlainFile(named.file) /\ (lacked => OnlyV4(named.file)) =>
          \E n \in 1 .. MaxNs : EndsAt(good', n) /\ FileAll(good', n, named.file)
    BY <2>2, <2>3 DEF AllFoundInv, FileAll
  <2> QED  BY <1>1, <2>4, <2>5 DEF ServersComplete
<1>11. CompleteInv'  BY <1>1, IdleCompletes
<1> QED  BY <1>4, <1>5, <1>6, <1>7, <1>8, <1>9, <1>11 DEF ConfInv, ServersInOrder

LEMMA BetweenKeeps ==
  ASSUME ConfInv, Between
  PROVE  ConfInv'
<1>1. /\ pc = "idle" /\ file' \in FileTexts \cup {Unset, Unreadable}
      /\ now' = now \/ (now < MaxNow /\ now' = now + 1)
      /\ UNCHANGED <<ok, uses, deadline, load, pc, env, x, data, i, k, ip, sid, ret, handed, good, named, lacked>>
  BY DEF Between, Pass, ccvars, ConfInv, TextInv
<1>2. now' \in 0 .. MaxNow  BY <1>1, Types, CacheAssumption DEF ConfInv, ServersInOrder
<1>3. ConfTypeOK'
  BY <1>1, <1>2 DEF ConfInv, ServersInOrder, ConfTypeOK, CacheTypeOK, Servers, Scopes
<1>4. CacheIsLastLoad' /\ ServersOfOneSource' /\ ServersComplete' /\ FreshInv'
  BY <1>1 DEF ConfInv, ServersInOrder, CacheIsLastLoad, ServersOfOneSource, ServersComplete, FreshInv
<1>5. TextInv' /\ FoundInv'  BY <1>1 DEF ConfInv, TextInv, FoundInv
<1>6. CompleteInv'  BY <1>1, IdleCompletes
<1> QED  BY <1>3, <1>4, <1>5, <1>6 DEF ConfInv, ServersInOrder

\* The end of a line is the first newline from its start on.
LEMMA EndOfLine ==
  ASSUME data \in Seq(Tokens), i \in Nat \ {0}, Ends # {}
  PROVE  LineEnd \in Nat /\ LineEnd \in DOMAIN data /\ LineEnd >= i /\ LineEnd <= Len(data) /\ data[LineEnd] = NL
<1>1. Ends \in SUBSET Nat  BY DEF Ends
<1>2. \E j \in Ends : \A e \in Ends : j <= e  BY <1>1, LeastNat
<1>3. LineEnd \in Ends  BY <1>2 DEF LineEnd
<1> QED  BY <1>3 DEF Ends

\* The place behind the keyword and the blanks, which may be the end of the line.
LEMMA ServerPlace ==
  ASSUME data \in Seq(Tokens), i \in Nat \ {0}, Ends # {}, IsServerLine
  PROVE  /\ ServerAt \in Nat /\ ServerAt \in i + 2 .. LineEnd /\ ServerAt \in DOMAIN data /\ data[ServerAt] # SP
         /\ \A q \in i + 1 .. ServerAt - 1 : data[q] = SP
<1>1. /\ LineEnd \in Nat /\ LineEnd \in DOMAIN data /\ LineEnd <= Len(data) /\ data[LineEnd] = NL
      /\ i < LineEnd /\ data[i + 1] = SP
  BY EndOfLine DEF IsServerLine
<1> DEFINE T == {p \in i + 1 .. LineEnd : data[p] # SP}
<1>2. T \in SUBSET Nat  OBVIOUS
<1>3. LineEnd \in T  BY <1>1, ConfAssumption
<1>4. PICK p \in T : \A n \in T : p <= n
  <2> HIDE DEF T
  <2> QED  BY <1>2, <1>3, LeastNat
<1>5. p \in i + 1 .. LineEnd /\ data[p] # SP /\ p \in Nat  OBVIOUS
<1>6. \A q \in i + 1 .. p - 1 : data[q] = SP
  <2> SUFFICES ASSUME NEW q \in i + 1 .. p - 1, data[q] # SP PROVE FALSE  OBVIOUS
  <2>1. q \in T /\ q < p  BY <1>1, <1>5
  <2> QED  BY <1>4, <1>5, <2>1
<1> HIDE DEF T
<1>7. /\ ServerAt \in i + 1 .. LineEnd /\ data[ServerAt] # SP
      /\ \A q \in i + 1 .. ServerAt - 1 : data[q] = SP
  <2>1. \E w \in i + 1 .. LineEnd : data[w] # SP /\ \A q \in i + 1 .. w - 1 : data[q] = SP
    BY <1>5, <1>6
  <2> QED  BY <2>1 DEF ServerAt
<1>8. ServerAt # i + 1 /\ ServerAt \in Nat  BY <1>1, <1>7
<1> QED  BY <1>1, <1>7, <1>8

\* data is the file with its newline, as far as it has still to be read, from the start of a line on
Unspoilt(orig) ==
  /\ DOMAIN data = DOMAIN Append(orig, NL)
  /\ \A p \in DOMAIN data : p >= i => data[p] = Append(orig, NL)[p]
  /\ i = 1 \/ Append(orig, NL)[i - 1] = NL

\* A line and its copy with the terminator: the same up to the end, and the same behind it.
LEMMA TextOfLine ==
  ASSUME data \in Seq(Tokens), i \in Nat \ {0}, Ends # {}, NEW orig \in Seq(Tokens), Unspoilt(orig)
  PROVE  /\ \A m \in i .. LineEnd : m # LineEnd =>
              m \in DOMAIN orig /\ At(Cut(data, LineEnd), m) = orig[m] /\ data[m] = orig[m] /\ orig[m] # NL
         /\ At(Cut(data, LineEnd), LineEnd) = NUL
         /\ data[LineEnd] = NL /\ At(orig, LineEnd) \in {NL, NUL} /\ Append(orig, NL)[LineEnd] = NL
         /\ \A m \in DOMAIN data : m > LineEnd => Cut(data, LineEnd)[m] = data[m]
<1>1. LineEnd \in Nat /\ LineEnd \in DOMAIN data /\ LineEnd >= i /\ LineEnd <= Len(data) /\ data[LineEnd] = NL
  BY EndOfLine
<1>2. \A e \in Ends : LineEnd <= e
  <2>1. Ends \in SUBSET Nat  BY DEF Ends
  <2>2. \E j \in Ends : \A e \in Ends : j <= e  BY <2>1, LeastNat
  <2> QED  BY <2>2 DEF LineEnd
<1>3. PICK n : n = LineEnd  OBVIOUS
<1>4. /\ DOMAIN data = 1 .. Len(orig) + 1 /\ DOMAIN orig = 1 .. Len(orig) /\ Len(orig) \in Nat
      /\ Append(orig, NL)[Len(orig) + 1] = NL /\ \A w \in 1 .. Len(orig) : Append(orig, NL)[w] = orig[w]
  BY DEF Unspoilt
<1>5. \A m \in DOMAIN data : Cut(data, n)[m] = IF m = n THEN NUL ELSE data[m]
  BY <1>1, <1>3 DEF Cut
<1>6. DOMAIN Cut(data, n) = DOMAIN data  BY <1>1, <1>3 DEF Cut
<1>7. n \in Nat /\ n \in DOMAIN data /\ n >= i /\ data[n] = NL /\ \A e \in Ends : n <= e
  BY <1>1, <1>2, <1>3
<1>8. \A m \in i .. n : m # n => m \in DOMAIN orig /\ m \in DOMAIN data /\ data[m] # NL
  <2> SUFFICES ASSUME NEW m \in i .. n, m # n
               PROVE  m \in DOMAIN orig /\ m \in DOMAIN data /\ data[m] # NL
    OBVIOUS
  <2>1. m \in 1 .. Len(orig) /\ m < n /\ m >= i  BY <1>4, <1>7
  <2>2. m \in DOMAIN data  BY <1>4, <2>1
  <2>3. m \notin Ends  BY <1>7, <2>1
  <2> QED  BY <1>4, <2>1, <2>2, <2>3 DEF Ends
<1>9. \A m \in i .. n : m # n => At(Cut(data, n), m) = orig[m] /\ data[m] = orig[m]
  <2> SUFFICES ASSUME NEW m \in i .. n, m # n
               PROVE  At(Cut(data, n), m) = orig[m] /\ data[m] = orig[m]
    OBVIOUS
  <2>1. data[m] = orig[m]  BY <1>4, <1>8 DEF Unspoilt
  <2> QED  BY <1>5, <1>6, <1>8, <2>1 DEF At
<1>10. At(Cut(data, n), n) = NUL  BY <1>5, <1>6, <1>7 DEF At
<1>11. Append(orig, NL)[n] = NL /\ At(orig, n) \in {NL, NUL}
  <2>1. Append(orig, NL)[n] = NL  BY <1>7 DEF Unspoilt
  <2> QED  BY <1>4, <1>7, <2>1 DEF At
<1>12. \A m \in DOMAIN data : m > n => Cut(data, n)[m] = data[m]  BY <1>5, <1>7
<1> QED  BY <1>3, <1>7, <1>8, <1>9, <1>10, <1>11, <1>12

\* The only place of a line is the one the parser looks at.
LEMMA OnlyServerAt ==
  ASSUME data \in Seq(Tokens), i \in Nat \ {0}, Ends # {}, NEW orig \in Seq(Tokens), orig \in FileTexts,
         Unspoilt(orig), NEW p \in FilePlaces(orig), p \in i .. LineEnd
  PROVE  IsServerLine /\ p = ServerAt
<1>1. PICK n : n = LineEnd  OBVIOUS
<1>2. n \in Nat /\ n \in DOMAIN data /\ n >= i /\ data[n] = NL  BY <1>1, EndOfLine
<1>3. \A m \in i .. n : m # n => m \in DOMAIN orig /\ data[m] = orig[m] /\ orig[m] # NL
  BY <1>1, TextOfLine
<1>4. p \in 3 .. Len(orig) + 1 /\ At(orig, p) \in Addr  BY DEF FilePlaces, ServerWords
<1>5. PICK h \in 1 .. p - 2 : orig[h] = NS /\ \A m \in h + 1 .. p - 1 : orig[m] = SP
  BY DEF FilePlaces, ServerWords
<1>6. Len(orig) \in Nat /\ DOMAIN orig = 1 .. Len(orig)  OBVIOUS
<1>7. p \in DOMAIN orig /\ orig[p] \in Addr  BY <1>4, ConfAssumption DEF At
<1>8. p \in i .. n /\ p \in Nat /\ h \in Nat /\ h <= p - 2  BY <1>1, <1>2
<1>9. h = i
  <2>1. CASE h < i
    <3>1. i # 1 /\ i - 1 \in h .. p - 1 /\ i - 1 \in 1 .. Len(orig)  BY <1>6, <1>7, <1>8, <2>1
    <3>2. Append(orig, NL)[i - 1] = orig[i - 1]  BY <1>6, <3>1
    <3>3. orig[i - 1] = NL  BY <3>1, <3>2 DEF Unspoilt
    <3>4. i - 1 = h \/ i - 1 \in h + 1 .. p - 1  BY <3>1, <1>8
    <3> QED  BY <1>5, <3>3, <3>4, ConfAssumption
  <2>2. CASE h > i
    <3>1. h \in DOMAIN orig /\ h > 1  BY <1>6, <1>7, <1>8, <2>2
    <3>2. orig[h - 1] = NL  BY <1>5, <3>1, ConfAssumption
    <3>3. h - 1 \in i .. n /\ h - 1 # n  BY <1>2, <1>8, <2>2
    <3> QED  BY <1>3, <3>2, <3>3
  <2> QED  BY <1>8, <2>1, <2>2
<1>10. IsServerLine
  <2>1. i \in i .. n /\ i # n /\ i + 1 \in i .. n /\ i + 1 # n /\ i + 1 \in h + 1 .. p - 1 /\ i < n
    BY <1>2, <1>8, <1>9
  <2> QED  BY <1>1, <1>3, <1>5, <1>9, <2>1 DEF IsServerLine
<1>11. PICK w : w = ServerAt  OBVIOUS
<1>12. w \in Nat /\ w \in i + 2 .. n /\ data[w] # SP /\ \A q \in i + 1 .. w - 1 : data[q] = SP
  BY <1>1, <1>10, <1>11, ServerPlace
<1>13. p # n
  <2>1. At(orig, n) \in {NL, NUL}  BY <1>1, TextOfLine
  <2> QED  BY <1>4, <2>1, ConfAssumption
<1>14. ~(p < w)
  <2> SUFFICES ASSUME p < w PROVE FALSE  OBVIOUS
  <2>1. data[p] = SP  BY <1>8, <1>9, <1>12
  <2>2. data[p] = orig[p]  BY <1>3, <1>8, <1>13
  <2> QED  BY <1>7, <2>1, <2>2, ConfAssumption
<1>15. ~(w < p)
  <2> SUFFICES ASSUME w < p PROVE FALSE  OBVIOUS
  <2>1. orig[w] = SP  BY <1>5, <1>8, <1>9, <1>12
  <2>2. data[w] = orig[w]  BY <1>2, <1>3, <1>8, <1>12
  <2> QED  BY <1>12, <2>1, <2>2
<1>16. p = w  BY <1>8, <1>12, <1>14, <1>15
<1> QED  BY <1>10, <1>11, <1>16

\* The place the parser looks at is the word of its line.
LEMMA WordOfLine ==
  ASSUME data \in Seq(Tokens), i \in Nat \ {0}, Ends # {}, NEW orig \in Seq(Tokens), Unspoilt(orig),
         IsServerLine
  PROVE  ServerAt \in ServerWords(orig)
<1>1. PICK n : n = LineEnd  OBVIOUS
<1>2. n \in Nat /\ n \in DOMAIN data /\ n >= i /\ data[n] = NL /\ n <= Len(data)  BY <1>1, EndOfLine
<1>3. \A m \in i .. n : m # n => m \in DOMAIN orig /\ data[m] = orig[m]  BY <1>1, TextOfLine
<1>4. PICK w : w = ServerAt  OBVIOUS
<1>5. w \in Nat /\ w \in i + 2 .. n /\ data[w] # SP /\ \A q \in i + 1 .. w - 1 : data[q] = SP
  BY <1>1, <1>4, ServerPlace
<1>6. data[i] = NS  BY DEF IsServerLine
<1>7. Len(data) = Len(orig) + 1 /\ Len(orig) \in Nat
  <2>1. DOMAIN Append(orig, NL) = 1 .. Len(orig) + 1 /\ Len(orig) + 1 \in Nat  OBVIOUS
  <2>2. DOMAIN data = 1 .. Len(data) /\ Len(data) \in Nat  OBVIOUS
  <2> QED  BY <2>1, <2>2 DEF Unspoilt
<1>8. w \in 3 .. Len(orig) + 1 /\ i \in 1 .. w - 2  BY <1>2, <1>5, <1>7
<1>9. orig[i] = NS  BY <1>2, <1>3, <1>5, <1>6
<1>10. \A m \in i + 1 .. w - 1 : orig[m] = SP
  <2> SUFFICES ASSUME NEW m \in i + 1 .. w - 1 PROVE orig[m] = SP  OBVIOUS
  <2>1. m \in i .. n /\ m # n  BY <1>2, <1>5
  <2> QED  BY <1>3, <1>5, <2>1
<1>11. At(orig, w) # SP
  <2>1. CASE w = n
    <3>1. At(orig, n) \in {NL, NUL}  BY <1>1, TextOfLine
    <3> QED  BY <2>1, <3>1, ConfAssumption
  <2>2. CASE w # n
    <3>1. w \in i .. n  BY <1>2, <1>5
    <3> QED  BY <1>3, <1>5, <2>2, <3>1 DEF At
  <2> QED  BY <2>1, <2>2
<1> QED  BY <1>4, <1>8, <1>9, <1>10, <1>11 DEF ServerWords

\* On a plain line ip6_ifscan keeps to the line, and finds what the line says.
LEMMA ScanInLine ==
  ASSUME data \in Seq(Tokens), i \in Nat \ {0}, Ends # {}, NEW orig \in Seq(Tokens), Unspoilt(orig),
         IsServerLine, PlainWord(orig, ServerAt), At(Cut(data, LineEnd), ServerAt) \notin V4,
         NEW r \in IfScan(Cut(data, LineEnd), ServerAt)
  PROVE  /\ \A m \in DOMAIN data : m > LineEnd => r.mem[m] = data[m]
         /\ r.n # 0 => /\ ServerAt \in DOMAIN orig /\ orig[ServerAt] \in V6
                       /\ r.scope = ScopeOf(orig)[ServerAt]
         /\ r.n = 0 /\ At(orig, ServerAt) \in Addr => r.short /\ At(orig, ServerAt) \in V6
<1>1. PICK n : n = LineEnd  OBVIOUS
<1>2. PICK p : p = ServerAt  OBVIOUS
<1>3. PICK text : text = Cut(data, n)  OBVIOUS
<1>4. n \in Nat /\ n \in DOMAIN data /\ n >= i  BY <1>1, EndOfLine
<1>5. p \in Nat \ {0} /\ p \in i + 2 .. n /\ p \in DOMAIN data  BY <1>1, <1>2, ServerPlace
<1>6. text \in Seq(Tokens) /\ DOMAIN text = DOMAIN data  BY <1>3, <1>4, CutCleans DEF Cleaned
<1>7. /\ \A m \in i .. n : m # n => m \in DOMAIN orig /\ At(text, m) = orig[m] /\ orig[m] # NL
      /\ At(text, n) = NUL /\ At(orig, n) \in {NL, NUL}
      /\ \A m \in DOMAIN data : m > n => text[m] = data[m]
  BY <1>1, <1>3, TextOfLine
<1>8. PICK j, e \in Nat :
        /\ Falls(text, p, j, e)
        /\ \A m \in DOMAIN text :
             \/ r.mem[m] = text[m]
             \/ j # 0 /\ r.mem[m] = NUL /\ (m = p + j \/ (e # 0 /\ m = p + j + 1 + e))
        /\ \/ r.short /\ r.n = 0
           \/ ~r.short /\ Reads(text, p, j, r)
  <2>1. r \in IfScan(text, p)  BY <1>1, <1>2, <1>3
  <2>2. text \in Seq(Tokens) /\ p \in Nat \ {0}  BY <1>5, <1>6
  <2> QED  BY <2>1, <2>2, ScanParts
<1>9. At(text, p) \notin V4 /\ PlainWord(orig, p)  BY <1>1, <1>2, <1>3
<1>10. p + 0 = p  BY <1>5
<1>11. CASE At(text, p) = NUL
  <2>1. j = 0
    <3> SUFFICES ASSUME j # 0 PROVE FALSE  OBVIOUS
    <3>1. 0 \in 0 .. j - 1  BY <1>8
    <3>2. At(text, p + 0) # NUL  BY <1>8, <3>1 DEF Falls
    <3> QED  BY <1>10, <1>11, <3>2
  <2>2. r.n = 0  BY <1>8, <1>11, ConfAssumption DEF Reads
  <2>3. \A m \in DOMAIN data : m > n => r.mem[m] = data[m]  BY <1>6, <1>7, <1>8, <2>1
  <2>4. At(orig, p) \notin Addr
    <3>1. CASE p = n  BY <1>7, <3>1, ConfAssumption
    <3>2. CASE p # n
      <4>1. p \in i .. n  BY <1>4, <1>5
      <4>2. p \in DOMAIN orig /\ orig[p] = NUL  BY <1>7, <1>11, <3>2, <4>1
      <4> QED  BY <4>2, ConfAssumption DEF At
    <3> QED  BY <3>1, <3>2
  <2> QED  BY <1>1, <1>2, <2>2, <2>3, <2>4
<1>12. CASE At(text, p) # NUL
  <2>1. p # n /\ p \in i .. n  BY <1>4, <1>5, <1>7, <1>12
  <2>2. p \in DOMAIN orig /\ At(text, p) = orig[p] /\ orig[p] # NL /\ At(orig, p) = orig[p]
    BY <1>7, <2>1 DEF At
  <2>3. orig[p] \in V6 /\ At(orig, p + 1) = PCT  BY <1>9, <1>12, <2>2 DEF PlainWord
  <2>4. p + 1 \in i .. n /\ p + 1 # n
    <3>1. p + 1 # n  BY <1>7, <2>3, ConfAssumption
    <3> QED  BY <1>4, <1>5, <2>1, <3>1
  <2>5. At(text, p + 1) = PCT  BY <1>7, <2>3, <2>4 DEF At
  <2>6. At(text, p) \in V6 /\ At(text, p) \notin {PCT, NUL}  BY <2>2, <2>3, ConfAssumption DEF Addr
  <2>7. j = 1
    <3>1. j # 0  BY <1>8, <1>10, <2>6 DEF Falls
    <3>2. ~(j > 1)
      <4> SUFFICES ASSUME j > 1 PROVE FALSE  OBVIOUS
      <4>1. 1 \in 0 .. j - 1  BY <1>8
      <4> QED  BY <1>8, <2>5, <4>1 DEF Falls
    <3> QED  BY <1>8, <3>1, <3>2
  <2>8. p + 2 \in i .. n /\ p + j + 1 = p + 2 /\ p + j + 2 = p + 3 /\ p + j = p + 1  BY <1>4, <1>5, <2>4, <2>7
  <2>9. p + j + 1 + e <= n
    <3> SUFFICES ASSUME ~(p + j + 1 + e <= n) PROVE FALSE  OBVIOUS
    <3>1. n - (p + 2) \in 0 .. e - 1 /\ p + 2 + (n - (p + 2)) = n  BY <1>4, <1>5, <1>8, <2>8
    <3>2. At(text, p + 2 + (n - (p + 2))) # NUL
      <4>1. \A d \in 0 .. e - 1 : At(text, p + 2 + d) # NUL  BY <1>8, <2>8 DEF Falls
      <4> QED  BY <3>1, <4>1
    <3> QED  BY <1>7, <3>1, <3>2
  <2>10. \A m \in DOMAIN data : m > n => r.mem[m] = data[m]
    <3> SUFFICES ASSUME NEW m \in DOMAIN data, m > n PROVE r.mem[m] = data[m]  OBVIOUS
    <3>1. m # p + j /\ m # p + j + 1 + e  BY <1>4, <1>5, <2>4, <2>8, <2>9
    <3> QED  BY <1>6, <1>7, <1>8, <3>1
  <2>11. ~r.short => r.n = 1 /\ r.scope = ScopeOf(orig)[p]
    <3> SUFFICES ASSUME ~r.short PROVE r.n = 1 /\ r.scope = ScopeOf(orig)[p]  OBVIOUS
    <3>1. Reads(text, p, j, r)  BY <1>8
    <3>2. r.n = 1  BY <2>6, <3>1 DEF Reads, Addr
    <3>3. r.scope = IF At(text, p + 2) \in IfName /\ At(text, p + 3) \in {SP, NUL} THEN At(text, p + 2) ELSE NUL
      BY <2>7, <2>8, <3>1 DEF Reads
    <3>4. ScopeOf(orig)[p] =
            IF At(orig, p + 2) \in IfName /\ At(orig, p + 3) \in {SP, NL, NUL} THEN At(orig, p + 2) ELSE NUL
      BY <2>2, <2>3 DEF ScopeOf
    <3>5. CASE p + 2 = n
      <4>1. At(text, p + 2) \notin IfName /\ At(orig, p + 2) \notin IfName  BY <1>7, <3>5, ConfAssumption
      <4> QED  BY <3>2, <3>3, <3>4, <4>1
    <3>6. CASE p + 2 # n
      <4>1. At(text, p + 2) = At(orig, p + 2)  BY <1>7, <2>8, <3>6 DEF At
      <4>2. At(text, p + 3) \in {SP, NUL} <=> At(orig, p + 3) \in {SP, NL, NUL}
        <5>1. p + 3 \in i .. n  BY <1>4, <1>5, <2>8, <3>6
        <5>2. CASE p + 3 = n  BY <1>7, <5>2
        <5>3. CASE p + 3 # n
          <6>1. At(text, p + 3) = orig[p + 3] /\ At(orig, p + 3) = orig[p + 3] /\ orig[p + 3] # NL
            BY <1>7, <5>1, <5>3 DEF At
          <6> QED  BY <6>1
        <5> QED  BY <5>2, <5>3
      <4> QED  BY <3>2, <3>3, <3>4, <4>1, <4>2
    <3> QED  BY <3>5, <3>6
  <2>12. r.n # 0 => ~r.short  BY <1>8
  <2>13. r.n = 0 => r.short  BY <2>11
  <2> QED  BY <1>1, <1>2, <2>2, <2>3, <2>10, <2>11, <2>12, <2>13
<1> QED  BY <1>11, <1>12

\* What is found behind the keyword in the text with its terminators is a server of the file.
LEMMA ServerOfFile ==
  ASSUME data \in Seq(Tokens), i \in Nat \ {0}, Ends # {}, IsServerLine,
         NEW orig \in Seq(Tokens), Cleaned(data, Append(orig, NL)),
         NEW text, Cleaned(text, data), At(text, ServerAt) \in Addr
  PROVE  /\ ServerAt \in FilePlaces(orig) /\ ServerAt \in i .. LineEnd
         /\ Meaning(orig)[ServerAt] = Meant(At(text, ServerAt))
<1> DEFINE p == ServerAt
           whole == Append(orig, NL)
<1>1. /\ p \in Nat /\ p \in i + 2 .. LineEnd /\ p \in DOMAIN data
      /\ \A q \in i + 1 .. p - 1 : data[q] = SP
  BY ServerPlace
<1>2. LineEnd \in Nat /\ LineEnd <= Len(data) /\ data[i] = NS
  BY EndOfLine DEF IsServerLine
<1> HIDE DEF p
<1>3. At(text, p) \in Addr /\ At(text, p) # NUL /\ At(text, p) # NL  BY ConfAssumption DEF p
<1>4. At(text, p) = data[p]  BY <1>3, WasThere
<1>5. data[p] = whole[p]  BY <1>1, <1>3, <1>4 DEF Cleaned
<1>6. /\ DOMAIN whole = 1 .. Len(orig) + 1 /\ DOMAIN orig = 1 .. Len(orig) /\ Len(orig) \in Nat
      /\ whole[Len(orig) + 1] = NL /\ \A w \in 1 .. Len(orig) : whole[w] = orig[w]
  OBVIOUS
<1> HIDE DEF whole
<1>7. p \in DOMAIN orig /\ orig[p] = At(text, p)
  <2>1. p \in DOMAIN whole  BY <1>1 DEF Cleaned, whole
  <2>2. p # Len(orig) + 1  BY <1>3, <1>4, <1>5, <1>6
  <2> QED  BY <1>4, <1>5, <1>6, <2>1, <2>2
<1>8. i \in 1 .. p - 2 /\ i \in 1 .. Len(orig)  BY <1>1, <1>6, <1>7
<1>9. \A m \in i + 1 .. p - 1 : m \in 1 .. Len(orig)  BY <1>1, <1>6, <1>7
<1>10. orig[i] = NS /\ \A m \in i + 1 .. p - 1 : orig[m] = SP
  <2>1. \A w \in 1 .. Len(orig) : data[w] = orig[w] \/ data[w] = NUL
    BY <1>6 DEF Cleaned, whole
  <2> QED  BY <1>1, <1>2, <1>8, <1>9, <2>1, ConfAssumption
<1>11. p \in FilePlaces(orig)
  <2>1. p \in 3 .. Len(orig) + 1 /\ At(orig, p) = At(text, p)  BY <1>6, <1>7, <1>8 DEF At
  <2>2. At(orig, p) \in Addr /\ At(orig, p) # SP  BY <1>3, <2>1, ConfAssumption
  <2> QED  BY <1>8, <1>10, <2>1, <2>2 DEF FilePlaces, ServerWords
<1>12. p \in i .. LineEnd  BY <1>1, <1>2
<1>13. Meaning(orig)[p] = Meant(At(text, p))  BY <1>7 DEF Meaning
<1> QED  BY <1>11, <1>12, <1>13 DEF p

\* What a line of the file may do: it leaves a text with more terminators, and stores a
\* server it names, or none.
LEMMA LineTakes ==
  ASSUME data \in Seq(Tokens), i \in Nat \ {0}, Ends # {}, IsServerLine,
         NEW orig \in Seq(Tokens), Cleaned(data, Append(orig, NL)), TakeServer(Cut(data, LineEnd))
  PROVE  /\ data' \in Seq(Tokens) /\ Len(data') = Len(data) /\ Cleaned(data', data)
         /\ \/ NoPut
            \/ /\ ServerAt \in FilePlaces(orig) /\ ServerAt \in i .. LineEnd
               /\ \E scope \in IfName \cup {NUL} : Put(Meaning(orig)[ServerAt], scope)
               /\ Meaning(orig)[ServerAt] \in Addr
<1> DEFINE text == Cut(data, LineEnd)
           a == At(text, ServerAt)
<1>1. text \in Seq(Tokens) /\ Len(text) = Len(data) /\ Cleaned(text, data)  BY CutCleans
<1>2. a \in Addr => /\ ServerAt \in FilePlaces(orig) /\ ServerAt \in i .. LineEnd
                    /\ Meaning(orig)[ServerAt] = Meant(a) /\ Meant(a) \in Addr
  <2> HIDE DEF text
  <2>1. a \in Addr => Meant(a) \in Addr  BY ConfAssumption DEF Meant, Addr
  <2> QED  BY <1>1, <2>1, ServerOfFile
<1>3. CASE a \in V4 /\ Put(IF a = Any4 THEN Local4 ELSE a, NUL) /\ data' = text
  <2>1. a \in Addr /\ (IF a = Any4 THEN Local4 ELSE a) = Meant(a)  BY <1>3 DEF Addr, Meant
  <2> HIDE DEF text, a
  <2> QED  BY <1>1, <1>2, <1>3, <2>1
<1>4. CASE a \notin V4 /\ \E r \in IfScan(text, ServerAt) :
                            /\ data' = r.mem /\ lacked' = (lacked \/ r.short)
                            /\ IF r.n # 0 THEN Put(a, r.scope) ELSE NoPut
  <2>1. PICK r \in IfScan(text, ServerAt) :
          data' = r.mem /\ IF r.n # 0 THEN Put(a, r.scope) ELSE NoPut
    BY <1>4
  <2>2. /\ r.mem \in Seq(Tokens) /\ Len(r.mem) = Len(text) /\ Cleaned(r.mem, text)
        /\ r.scope \in IfName \cup {NUL}
        /\ r.n # 0 => a \in Addr
    <3> HIDE DEF text
    <3> QED  BY <1>1, ScanCleans
  <2>3. Cleaned(r.mem, data)  BY <1>1, <2>2, CleanedTwice
  <2>4. Meant(a) = a  BY <1>4, ConfAssumption DEF Meant
  <2> HIDE DEF text, a
  <2>5. data' \in Seq(Tokens) /\ Len(data') = Len(data) /\ Cleaned(data', data)
    BY <1>1, <2>1, <2>2, <2>3
  <2>6. CASE r.n = 0  BY <2>1, <2>5, <2>6
  <2>7. CASE r.n # 0
    <3>1. a \in Addr /\ Put(a, r.scope)  BY <2>1, <2>2, <2>7
    <3>2. Meaning(orig)[ServerAt] = a  BY <1>2, <2>4, <3>1
    <3> QED  BY <1>2, <2>2, <2>5, <3>1, <3>2
  <2> QED  BY <2>6, <2>7
<1> QED  BY <1>3, <1>4 DEF TakeServer

\* What a server line of a plain file does: it stores its server with its scope, or there is
\* none on it, or memory is short.
LEMMA LineFinds ==
  ASSUME data \in Seq(Tokens), i \in Nat \ {0}, Ends # {}, NEW orig \in Seq(Tokens), Unspoilt(orig),
         IsServerLine, PlainFile(orig), Cleaned(data, Append(orig, NL)), TakeServer(Cut(data, LineEnd))
  PROVE  /\ \A m \in DOMAIN data : m > LineEnd => data'[m] = data[m]
         /\ lacked => lacked'
         /\ \/ /\ ServerAt \in FilePlaces(orig)
               /\ Put(Meaning(orig)[ServerAt], ScopeOf(orig)[ServerAt])
            \/ NoPut /\ (ServerAt \in FilePlaces(orig) => lacked' /\ ~OnlyV4(orig))
<1>1. PICK p : p = ServerAt  OBVIOUS
<1>2. PICK text : text = Cut(data, LineEnd)  OBVIOUS
<1>3. PICK a : a = At(text, p)  OBVIOUS
<1>4. p \in ServerWords(orig)  BY <1>1, WordOfLine
<1>5. PlainWord(orig, p)  BY <1>4 DEF PlainFile
<1>6. Cleaned(text, data)  BY <1>2, CutCleans
<1>7. a \in Addr => p \in FilePlaces(orig) /\ Meaning(orig)[p] = Meant(a)
  BY <1>1, <1>2, <1>3, <1>6, ServerOfFile
<1>8. \A m \in DOMAIN data : m > LineEnd => text[m] = data[m]  BY <1>2, TextOfLine
<1>9. CASE a \in V4
  <2>1. Put(IF a = Any4 THEN Local4 ELSE a, NUL) /\ data' = text /\ lacked' = lacked
    BY <1>1, <1>2, <1>3, <1>9 DEF TakeServer
  <2>2. (IF a = Any4 THEN Local4 ELSE a) = Meant(a) /\ a \in Addr  BY <1>9 DEF Meant, Addr
  <2>3. p \in DOMAIN orig /\ orig[p] = a
    <3>1. a # NUL  BY <2>2, ConfAssumption
    <3>2. Cleaned(text, Append(orig, NL))  BY <1>6, CleanedTwice
    <3>3. p \in DOMAIN Append(orig, NL) /\ a = Append(orig, NL)[p]  BY <1>3, <3>1, <3>2, WasThere
    <3>4. p # Len(orig) + 1  BY <2>2, <3>3, ConfAssumption
    <3> QED  BY <3>3, <3>4
  <2>4. ScopeOf(orig)[p] = NUL  BY <1>9, <2>3, ConfAssumption DEF ScopeOf
  <2>5. p \in FilePlaces(orig) /\ Put(Meaning(orig)[p], ScopeOf(orig)[p])  BY <1>7, <2>1, <2>2, <2>4
  <2> QED  BY <1>1, <1>8, <2>1, <2>5
<1>10. CASE a \notin V4
  <2>1. PICK r \in IfScan(text, p) :
          /\ data' = r.mem /\ lacked' = (lacked \/ r.short)
          /\ IF r.n # 0 THEN Put(a, r.scope) ELSE NoPut
    BY <1>1, <1>2, <1>3, <1>10 DEF TakeServer
  <2>2. /\ \A m \in DOMAIN data : m > LineEnd => r.mem[m] = data[m]
        /\ r.n # 0 => /\ p \in DOMAIN orig /\ orig[p] \in V6
                      /\ r.scope = ScopeOf(orig)[p]
        /\ r.n = 0 /\ At(orig, p) \in Addr => r.short /\ At(orig, p) \in V6
    BY <1>1, <1>2, <1>3, <1>5, <1>10, <2>1, ScanInLine
  <2>3. CASE r.n # 0
    <3>1. text \in Seq(Tokens)  BY <1>2, CutCleans
    <3>2. a \in Addr  BY <1>3, <2>1, <2>3, <3>1, ScanCleans
    <3>3. Meant(a) = a  BY <1>10, ConfAssumption DEF Meant
    <3>4. p \in FilePlaces(orig) /\ Put(Meaning(orig)[p], ScopeOf(orig)[p])
      BY <1>7, <2>1, <2>2, <2>3, <3>2, <3>3
    <3> QED  BY <1>1, <2>1, <2>2, <3>4
  <2>4. CASE r.n = 0
    <3>1. p \in FilePlaces(orig) => lacked' /\ ~OnlyV4(orig)
      <4> SUFFICES ASSUME p \in FilePlaces(orig) PROVE lacked' /\ ~OnlyV4(orig)  OBVIOUS
      <4>1. At(orig, p) \in Addr  BY DEF FilePlaces
      <4>2. r.short /\ At(orig, p) \in V6  BY <2>2, <2>4, <4>1
      <4>3. At(orig, p) \notin V4 \cup {NL, NUL}  BY <4>1, <4>2, ConfAssumption
      <4> QED  BY <1>4, <2>1, <4>2, <4>3 DEF OnlyV4
    <3> QED  BY <1>1, <2>1, <2>2, <2>4, <3>1
  <2> QED  BY <2>3, <2>4
<1> QED  BY <1>9, <1>10

LEMMA LineCompletes ==
  ASSUME ConfInv, Line
  PROVE  CompleteInv'
<1>1. /\ pc = "lines" /\ pc' = "lines" /\ Ends # {} /\ i' = LineEnd + 1 /\ named' = named
      /\ IF IsServerLine /\ k < MaxNs THEN TakeServer(Cut(data, LineEnd)) ELSE NoPut /\ UNCHANGED <<data, lacked>>
  BY DEF Line
<1>2. PICK orig : orig = named.file  OBVIOUS
<1>3. /\ data \in Seq(Tokens) /\ i \in Nat \ {0}
      /\ orig \in FileTexts /\ orig \in Seq(Tokens) /\ Cleaned(data, Append(orig, NL))
  BY <1>1, <1>2, ConfAssumption DEF ConfInv, TextInv
<1>4. PICK n : n = LineEnd  OBVIOUS
<1>5. n \in Nat /\ n >= i /\ n <= Len(data)  BY <1>1, <1>3, <1>4, EndOfLine
<1>6. ConfTypeOK /\ k \in Nat /\ k \in 0 .. MaxNs /\ MaxNs \in Nat /\ ip \in Servers /\ sid \in Scopes
  BY Types, ConfAssumption DEF ConfInv, ServersInOrder
<1>7. SlotsInv /\ PlainFileInv  BY DEF ConfInv, CompleteInv
<1>8. data' \in Seq(Tokens) /\ DOMAIN data' = DOMAIN data /\
      (NoPut \/ \E a \in Addr, scope \in IfName \cup {NUL} : k < MaxNs /\ Put(a, scope))
  <2>1. CASE IsServerLine /\ k < MaxNs
    <3>1. /\ data' \in Seq(Tokens) /\ Cleaned(data', data)
          /\ \/ NoPut
             \/ /\ \E scope \in IfName \cup {NUL} : Put(Meaning(orig)[ServerAt], scope)
                /\ Meaning(orig)[ServerAt] \in Addr
      BY <1>1, <1>3, <2>1, LineTakes
    <3> QED  BY <2>1, <3>1 DEF Cleaned
  <2>2. CASE ~(IsServerLine /\ k < MaxNs)  BY <1>1, <1>3, <2>2
  <2> QED  BY <2>1, <2>2
<1>9. SlotsInv'
  <2>1. CASE NoPut  BY <1>1, <1>7, <2>1 DEF NoPut, SlotsInv
  <2>2. CASE \E a \in Addr, scope \in IfName \cup {NUL} : k < MaxNs /\ Put(a, scope)
    <3>1. PICK a \in Addr, scope \in IfName \cup {NUL} : k < MaxNs /\ Put(a, scope)  BY <2>2
    <3>2. k' = k + 1 /\ \A s \in 1 .. MaxNs : s # k + 1 => sid'[s] = sid[s]  BY <1>6, <3>1, PutKeeps
    <3>3. \A s \in k' + 1 .. MaxNs : s \in k + 1 .. MaxNs /\ s \in 1 .. MaxNs /\ s # k + 1
      BY <1>6, <3>2
    <3> QED  BY <1>1, <1>7, <3>2, <3>3 DEF SlotsInv
  <2> QED  BY <1>8, <2>1, <2>2
<1>10. ASSUME PlainFile(orig)
       PROVE  /\ \A p \in DOMAIN data' : p >= i' => data'[p] = Append(orig, NL)[p]
              /\ Append(orig, NL)[i' - 1] = NL
              /\ (lacked' => OnlyV4(orig)) =>
                   AllInOrder(ip', sid', k', FilePlaces(orig) \cap 1 .. i' - 1, Meaning(orig), ScopeOf(orig))
  <2>1. /\ Unspoilt(orig)
        /\ (lacked => OnlyV4(orig)) =>
             AllInOrder(ip, sid, k, FilePlaces(orig) \cap 1 .. i - 1, Meaning(orig), ScopeOf(orig))
    BY <1>1, <1>2, <1>3, <1>7, <1>10 DEF PlainFileInv, Unspoilt, Cleaned
  <2>2. i' = n + 1 /\ i' - 1 = n /\ i' \in Nat  BY <1>1, <1>4, <1>5
  <2>3. Append(orig, NL)[i' - 1] = NL  BY <1>1, <1>3, <1>4, <2>1, <2>2, TextOfLine
  <2> DEFINE P == FilePlaces(orig) \cap 1 .. i - 1
             Q == FilePlaces(orig) \cap 1 .. i' - 1
  <2>4. \A p \in Q : p \in P \/ (p \in i .. n /\ IsServerLine /\ p = ServerAt)
    <3> SUFFICES ASSUME NEW p \in FilePlaces(orig), p \in 1 .. n, p \notin 1 .. i - 1
                 PROVE  p \in i .. n /\ IsServerLine /\ p = ServerAt
      BY <2>2
    <3>1. p \in i .. n  BY <1>3, <1>5
    <3> QED  BY <1>1, <1>3, <1>4, <2>1, <3>1, OnlyServerAt
  <2>5. P \subseteq Q /\ P \in SUBSET Nat /\ Q \in SUBSET Nat /\ \A w \in P : w < i  BY <1>3, <1>5, <2>2
  <2>6. IsServerLine => ServerAt \in Nat /\ ServerAt \in i .. n
    <3> SUFFICES ASSUME IsServerLine PROVE ServerAt \in Nat /\ ServerAt \in i .. n  OBVIOUS
    <3>1. ServerAt \in Nat /\ ServerAt \in i + 2 .. n  BY <1>1, <1>3, <1>4, ServerPlace
    <3> QED  BY <1>3, <1>5, <3>1
  <2>7. CASE ~IsServerLine
    <3>1. Q = P  BY <2>4, <2>5, <2>7
    <3>2. NoPut /\ data' = data /\ lacked' = lacked  BY <1>1, <2>7
    <3>3. \A p \in DOMAIN data' : p >= i' => data'[p] = Append(orig, NL)[p]
      BY <1>3, <1>5, <2>1, <2>2, <3>2 DEF Unspoilt
    <3> HIDE DEF P, Q
    <3>4. (lacked' => OnlyV4(orig)) => AllInOrder(ip', sid', k', Q, Meaning(orig), ScopeOf(orig))
      BY <2>1, <3>1, <3>2 DEF NoPut, P
    <3> QED  BY <2>3, <3>3, <3>4 DEF Q
  <2>8. CASE IsServerLine /\ ~(k < MaxNs)
    <3>1. NoPut /\ data' = data /\ lacked' = lacked /\ k = MaxNs  BY <1>1, <1>6, <2>8
    <3>2. \A p \in DOMAIN data' : p >= i' => data'[p] = Append(orig, NL)[p]
      BY <1>3, <1>5, <2>1, <2>2, <3>1 DEF Unspoilt
    <3>3. \A p \in Q \ P : \A w \in P : w < p  BY <1>3, <2>4, <2>5
    <3> HIDE DEF P, Q
    <3>4. (lacked' => OnlyV4(orig)) => AllInOrder(ip, sid, MaxNs, Q, Meaning(orig), ScopeOf(orig))
      <4> SUFFICES ASSUME lacked' => OnlyV4(orig)
                   PROVE  AllInOrder(ip, sid, MaxNs, Q, Meaning(orig), ScopeOf(orig))
        OBVIOUS
      <4>1. AllInOrder(ip, sid, MaxNs, P, Meaning(orig), ScopeOf(orig))  BY <2>1, <3>1 DEF P
      <4> QED  BY <1>6, <2>5, <3>3, <4>1, FullAll
    <3> QED  BY <2>3, <3>1, <3>2, <3>4 DEF NoPut, Q
  <2>9. CASE IsServerLine /\ k < MaxNs
    <3>1. /\ \A m \in DOMAIN data : m > n => data'[m] = data[m]
          /\ lacked => lacked'
          /\ \/ /\ ServerAt \in FilePlaces(orig)
                /\ Put(Meaning(orig)[ServerAt], ScopeOf(orig)[ServerAt])
             \/ NoPut /\ (ServerAt \in FilePlaces(orig) => lacked' /\ ~OnlyV4(orig))
      BY <1>1, <1>3, <1>4, <1>10, <2>1, <2>9, LineFinds
    <3>2. \A p \in DOMAIN data' : p >= i' => data'[p] = Append(orig, NL)[p]
      <4>1. \A p \in DOMAIN data : p >= i' => p > n /\ p >= i  BY <1>3, <1>5, <2>2
      <4> QED  BY <1>8, <2>1, <3>1, <4>1 DEF Unspoilt
    <3>3. PICK p : p = ServerAt  OBVIOUS
    <3>4. p \in Nat /\ p \in i .. n /\ \A w \in P : w < p
      <4>1. p \in Nat /\ p \in i .. n  BY <2>6, <2>9, <3>3
      <4> QED  BY <1>3, <2>5, <4>1
    <3>5. ASSUME lacked' => OnlyV4(orig)
          PROVE  AllInOrder(ip', sid', k', Q, Meaning(orig), ScopeOf(orig))
      <4>1. AllInOrder(ip, sid, k, P, Meaning(orig), ScopeOf(orig))  BY <2>1, <3>1, <3>5
      <4>2. CASE p \in FilePlaces(orig) /\ Put(Meaning(orig)[p], ScopeOf(orig)[p])
        <5>1. p \in Q /\ \A w \in Q : w \in P \/ w = p
          <6>1. p \in Q  BY <1>3, <1>5, <2>2, <3>4, <4>2
          <6> HIDE DEF P, Q
          <6> QED  BY <2>4, <3>3, <6>1
        <5>2. p \in DOMAIN orig /\ Meaning(orig)[p] \in Addr /\ ScopeOf(orig)[p] \in IfName \cup {NUL}
          <6>1. At(orig, p) \in Addr  BY <4>2 DEF FilePlaces
          <6>2. p \in DOMAIN orig /\ orig[p] \in Addr  BY <6>1, ConfAssumption DEF At
          <6>3. Meant(orig[p]) \in Addr  BY <6>2, ConfAssumption DEF Meant, Addr
          <6> QED  BY <6>2, <6>3 DEF Meaning, ScopeOf
        <5> HIDE DEF P, Q
        <5>3. PICK a, c : a = Meaning(orig)[p] /\ c = ScopeOf(orig)[p]  OBVIOUS
        <5>4. /\ k' = k + 1 /\ ip'[k + 1] = a /\ \A s \in 1 .. k : ip'[s] = ip[s]
              /\ sid'[k + 1] = c /\ \A s \in 1 .. MaxNs : s # k + 1 => sid'[s] = sid[s]
          BY <1>6, <2>9, <4>2, <5>2, <5>3, PutKeeps
        <5>5. \A s \in 1 .. k : ip'[s] = ip[s] /\ sid'[s] = sid[s]
          <6>1. \A s \in 1 .. k : s \in 1 .. MaxNs /\ s # k + 1  BY <1>6
          <6> QED  BY <5>4, <6>1
        <5>7. OneMorePlace(P, Q, p) /\ SameServers(ip, sid, ip', sid', k)
          BY <2>5, <3>4, <5>1, <5>5 DEF OneMorePlace, SameServers
        <5>8. P \in SUBSET Nat /\ Q \in SUBSET Nat  BY <2>5
        <5>6. AllInOrder(ip', sid', k', Q, Meaning(orig), ScopeOf(orig))
          BY <1>6, <2>9, <4>1, <5>3, <5>4, <5>7, <5>8, OneMoreAll
        <5> QED  BY <5>6
      <4>3. CASE NoPut /\ (p \in FilePlaces(orig) => lacked' /\ ~OnlyV4(orig))
        <5>1. p \notin FilePlaces(orig)  BY <3>5, <4>3
        <5>2. Q = P
          <6>1. p \notin Q  BY <5>1
          <6> HIDE DEF P, Q
          <6> QED  BY <2>4, <2>5, <3>3, <6>1
        <5> HIDE DEF P, Q
        <5> QED  BY <4>1, <4>3, <5>2 DEF NoPut
      <4> QED  BY <3>1, <3>3, <4>2, <4>3
    <3> HIDE DEF P
    <3> QED  BY <2>3, <3>2, <3>5
  <2> QED  BY <2>7, <2>8, <2>9
<1>11. PlainFileInv'
  <2>1. ~PlainEnv(named.env)  BY <1>1, <1>7 DEF PlainFileInv
  <2> QED  BY <1>1, <1>2, <1>10, <2>1 DEF PlainFileInv
<1> QED  BY <1>1, <1>9, <1>11 DEF CompleteInv, PlainEnvInv, AllFoundInv

LEMMA LineKeeps ==
  ASSUME ConfInv, Line
  PROVE  ConfInv'
<1>1. /\ pc = "lines" /\ Ends # {} /\ i' = LineEnd + 1
      /\ IF IsServerLine /\ k < MaxNs THEN TakeServer(Cut(data, LineEnd)) ELSE NoPut /\ UNCHANGED <<data, lacked>>
      /\ UNCHANGED <<ccvars, pc, env, x, file, ret, handed, good, named>>
  BY DEF Line
<1>2. /\ data \in Seq(Tokens) /\ i \in Nat \ {0} /\ named.file = file
      /\ named.file \in FileTexts /\ named.file \in Seq(Tokens)
      /\ named.file \notin {Unset, Unreadable} /\ Cleaned(data, Append(named.file, NL))
  BY <1>1, ConfAssumption DEF ConfInv, TextInv
<1>3. LineEnd \in Nat /\ LineEnd >= i /\ LineEnd <= Len(data)  BY <1>1, <1>2, EndOfLine
<1>4. /\ data' \in Seq(Tokens) /\ Len(data') = Len(data) /\ Cleaned(data', data)
      /\ \/ NoPut
         \/ /\ ServerAt \in FilePlaces(named.file) /\ ServerAt \in i .. LineEnd /\ k < MaxNs
            /\ \E scope \in IfName \cup {NUL} : Put(Meaning(named.file)[ServerAt], scope)
            /\ Meaning(named.file)[ServerAt] \in Addr
  <2>1. CASE IsServerLine /\ k < MaxNs
    <3>1. PICK orig \in Seq(Tokens) : orig = named.file  BY <1>2
    <3> QED  BY <1>1, <1>2, <2>1, <3>1, LineTakes
  <2>2. CASE ~(IsServerLine /\ k < MaxNs)
    <3>1. NoPut /\ data' = data  BY <1>1, <2>2
    <3> QED  BY <1>2, <3>1 DEF Cleaned
  <2> QED  BY <2>1, <2>2
<1>5. TextInv'
  <2>1. Cleaned(data', Append(named.file, NL))  BY <1>2, <1>4, CleanedTwice
  <2>2. i' \in Nat \ {0} /\ i' <= Len(data') + 1  BY <1>1, <1>3, <1>4
  <2> QED  BY <1>1, <1>2, <1>4, <2>1, <2>2 DEF ConfInv, TextInv
<1>6. ConfTypeOK /\ k \in Nat /\ k \in 0 .. MaxNs /\ ip \in Servers /\ sid \in Scopes
  BY Types, ConfAssumption DEF ConfInv, ServersInOrder
<1> DEFINE P == FilePlaces(named.file) \cap 1 .. i - 1
           Q == FilePlaces(named.file) \cap 1 .. i' - 1
           meaning == Meaning(named.file)
<1>7. InOrder(ip, k, P, meaning)  BY <1>1 DEF ConfInv, FoundInv
<1>8. P \in SUBSET Nat /\ Q \in SUBSET Nat /\ P \subseteq Q  BY <1>1, <1>2, <1>3
<1>9. /\ k' \in 0 .. MaxNs /\ ip' \in Servers /\ sid' \in Scopes
      /\ InOrder(ip', k', Q, meaning)
  <2>1. CASE NoPut
    <3> HIDE DEF P, Q, meaning
    <3> QED  BY <1>6, <1>7, <1>8, <2>1, MorePlaces DEF NoPut
  <2>2. CASE /\ ServerAt \in FilePlaces(named.file) /\ ServerAt \in i .. LineEnd /\ k < MaxNs
             /\ \E scope \in IfName \cup {NUL} : Put(meaning[ServerAt], scope)
             /\ meaning[ServerAt] \in Addr
    <3>1. PICK scope \in IfName \cup {NUL} : Put(meaning[ServerAt], scope)  BY <2>2
    <3>2. ServerAt \in Q /\ \A w \in P : w < ServerAt  BY <1>1, <1>2, <1>3, <2>2
    <3> HIDE DEF P, Q, meaning
    <3>3. PICK p : p = ServerAt  OBVIOUS
    <3>4. /\ ip' \in Servers /\ sid' \in Scopes /\ k' = k + 1 /\ k' \in 0 .. MaxNs
          /\ ip'[k + 1] = meaning[p] /\ \A s \in 1 .. k : ip'[s] = ip[s]
      BY <1>6, <2>2, <3>1, <3>3, PutKeeps
    <3>5. InOrder(ip', k + 1, Q, meaning)
      BY <1>6, <1>7, <1>8, <3>2, <3>3, <3>4, OneMoreServer
    <3> QED  BY <3>4, <3>5
  <2> QED  BY <1>4, <2>1, <2>2
<1>10. ServersInOrder' /\ FreshInv' /\ ~ok'
  BY <1>1, <1>9, LoadGoesOn
<1>11. FoundInv'
  <2>1. (FilePlaces(named.file) \cap 1 .. i - 1)' = Q /\ Meaning(named.file)' = meaning
    BY <1>1 DEF FilePlaces, EnvPlaces, Meaning
  <2> QED  BY <1>1, <1>9, <1>10, <2>1 DEF FoundInv
<1>12. CompleteInv'  BY LineCompletes
<1> QED  BY <1>5, <1>10, <1>11, <1>12 DEF ConfInv

-----------------------------------------------------------------------------
(***************************************************************************)
(* The theorems                                                            *)
(***************************************************************************)
\* Nothing is loaded in the beginning.
LEMMA ConfStart == ConfInit => ConfInv
<1> SUFFICES ASSUME ConfInit PROVE ConfInv  OBVIOUS
<1>1. /\ now = 0 /\ ok = FALSE /\ uses = 0 /\ deadline = 0 /\ load = [at |-> 0, served |-> 0]
      /\ pc = "idle" /\ x = 1 /\ i = 1 /\ k = 0 /\ ret = 0
      /\ env \in EnvTexts \cup {Unset} /\ file \in FileTexts \cup {Unset, Unreadable}
      /\ ip = NoServers.ip /\ sid = NoServers.sid /\ handed = NoServers /\ good = NoServers
  BY DEF ConfInit, CacheInit
<1>2. NoServers.ip \in Servers /\ NoServers.sid \in Scopes /\ NoServers \in [ip : Servers, sid : Scopes]
  BY DEF NoServers, Servers, Scopes
<1>3. CacheTypeOK
  <2>1. ok \in BOOLEAN  BY <1>1, Zenon
  <2>2. 0 \in 0 .. MaxNow /\ 0 \in 0 .. Uses /\ 0 \in 0 .. MaxNow + TTL  BY CacheAssumption
  <2>3. load \in [at : 0 .. MaxNow, served : Nat]  BY <1>1, <2>2
  <2> QED  BY <1>1, <2>1, <2>2, <2>3 DEF CacheTypeOK
<1>4. ConfTypeOK  BY <1>1, <1>2, <1>3, ConfAssumption DEF ConfTypeOK
<1>5. CacheIsLastLoad /\ ServersOfOneSource /\ ServersComplete /\ FreshInv
  BY <1>1 DEF CacheIsLastLoad, ServersOfOneSource, ServersComplete, FreshInv
<1>7. CompleteInv
  BY <1>1 DEF CompleteInv, SlotsInv, PlainEnvInv, PlainFileInv, AllFoundInv
<1>6. TextInv /\ FoundInv  BY <1>1, ConfAssumption DEF TextInv, FoundInv
<1> QED  BY <1>4, <1>5, <1>6, <1>7 DEF ConfInv, ServersInOrder

LEMMA ConfSteps == ConfInv /\ [ConfNext]_confvars => ConfInv'
<1> SUFFICES ASSUME ConfInv, [ConfNext]_confvars PROVE ConfInv'  OBVIOUS
<1>1. CASE LoadStep
  BY <1>1, EnvBlankKeeps, EnvWordKeeps, EnvEndKeeps, FileKeeps, LineKeeps, LinesEndKeeps,
     LoadEndsKeeps DEF LoadStep
<1>2. CASE UNCHANGED confvars
  <2>1. ConfTypeOK' /\ CacheIsLastLoad' /\ ServersOfOneSource' /\ ServersComplete'
    BY <1>2 DEF ConfInv, ServersInOrder, ConfTypeOK, CacheTypeOK, CacheIsLastLoad,
       ServersOfOneSource, ServersComplete, Servers, Scopes, confvars, ccvars
  <2>2. FreshInv' /\ TextInv' /\ FoundInv'
    BY <1>2 DEF ConfInv, FreshInv, TextInv, FoundInv, confvars, ccvars
  <2>3. CompleteInv'
    BY <1>2 DEF ConfInv, CompleteInv, SlotsInv, PlainEnvInv, PlainFileInv, AllFoundInv, confvars, ccvars
  <2> QED  BY <2>1, <2>2, <2>3 DEF ConfInv, ServersInOrder
<1> QED  BY <1>1, <1>2, CallHitKeeps, CallMissKeeps, BetweenKeeps DEF ConfNext

\* Whatever DNSCACHEIP and resolv.conf hold, however memory runs short and files change, a
\* program is given servers of one source in its order, and never those of a load that
\* came to no end.  When the value names no interface, or there is no value and the file
\* names one for each address of IPv6, it is given all of them that there is room for,
\* each with its own scope (dns_rcip.c:25-114, ip6.c:270-288).
THEOREM ServersAsConfigured == ConfSpec => []ServersInOrder
<1>1. ConfInv => ServersInOrder  BY DEF ConfInv
<1> QED  BY <1>1, ConfStart, ConfSteps, PTL DEF ConfSpec

\* Nothing is handed out that is older than its time, or more often than it may, whatever
\* loads fail in between (dns_rcip.c:96-110).
THEOREM ServersAreFresh == ConfSpec => FreshValues
<1> DEFINE A == load' # load => now <= load'.at + TTL /\ load'.served <= Uses
<1>1. ConfInv /\ [ConfNext]_confvars => [A]_ccvars
  <2> SUFFICES ASSUME ConfInv, [ConfNext]_confvars, load' # load
               PROVE  now <= load'.at + TTL /\ load'.served <= Uses
    OBVIOUS
  <2>1. /\ now \in Nat /\ uses \in Nat /\ load.at \in Nat /\ load.served \in Nat
        /\ load = [at |-> load.at, served |-> load.served]
        /\ TTL \in Nat /\ Uses \in Nat \ {0} /\ deadline \in Nat
    BY Types, CacheAssumption DEF ConfInv, ServersInOrder
  <2>2. CallHit \/ LoadEnds
    BY DEF ConfNext, LoadStep, CallMiss, Miss, EnvBlank, EnvWord, EnvEnd, File, Line, LinesEnd,
       Between, Pass, confvars, ccvars
  <2>3. CASE CallHit
    <3>1. ok /\ ~(deadline < now) /\ uses # 0 /\ load' = [load EXCEPT !.served = @ + 1]
      BY <2>3 DEF CallHit, Hit, Usable
    <3>2. load'.at = load.at /\ load'.served = load.served + 1  BY <2>1, <3>1
    <3>3. deadline = load.at + TTL /\ load.served + uses = Uses  BY <3>1 DEF ConfInv, FreshInv
    <3> QED  BY <2>1, <3>1, <3>2, <3>3
  <2>4. CASE LoadEnds
    <3>1. load'.at = now /\ load'.served = 1  BY <2>4 DEF LoadEnds, Loaded
    <3> QED  BY <2>1, <3>1
  <2> QED  BY <2>2, <2>3, <2>4
<1> QED  BY <1>1, ConfStart, ConfSteps, PTL DEF ConfSpec, FreshValues

\* Every turn of the loops leaves less to see, except at a word that is tried again: a load
\* ends whatever the texts are (dns_rcip.c:38-78).
THEOREM TurnsGoOn == ConfSpec => TurnsAdvance
<1> DEFINE A == pc # "idle" /\ pc' # "idle" => Left' < Left \/ (EnvWord /\ k' = k)
<1>1. ConfInv /\ [ConfNext]_confvars => [A]_confvars
  <2> SUFFICES ASSUME ConfInv, ConfNext, pc # "idle", pc' # "idle"
               PROVE  Left' < Left \/ (EnvWord /\ k' = k)
    OBVIOUS
  <2>1. x \in Nat /\ i \in Nat  BY DEF ConfInv, TextInv
  <2>2. FileLeft \in Nat /\ (file \in FileTexts \ {Unset, Unreadable} => FileLeft = Len(file) + 1 /\ Len(file) \in Nat)
    <3>1. \A t \in FileTexts : Len(t) \in Nat  BY ConfAssumption
    <3> QED  BY <3>1 DEF FileLeft, ConfInv, TextInv
  <2>3. CASE EnvBlank
    <3>1. pc = "env" /\ pc' = "env" /\ x' = x + 1 /\ env' = env /\ file' = file
      BY <2>3 DEF EnvBlank
    <3>2. Len(env) \in Nat  BY <3>1 DEF ConfInv, TextInv
    <3>3. FileLeft' = FileLeft  BY <3>1 DEF FileLeft
    <3>4. Left = Len(env) - x + FileLeft + 6 /\ Left' = Len(env) - (x + 1) + FileLeft + 6
      BY <3>1, <3>3 DEF Left
    <3> QED  BY <2>1, <2>2, <3>2, <3>4
  <2>4. CASE EnvWord
    <3>1. PICK r \in IfScan(env, x) :
            /\ env' = r.mem /\ x' = x + r.n
            /\ IF r.n # 0 THEN Put(env[x], r.scope) ELSE NoPut
      BY <2>4 DEF EnvWord
    <3>2. pc = "env" /\ pc' = "env" /\ file' = file  BY <2>4 DEF EnvWord
    <3>3. env \in Seq(Tokens)  BY <3>2 DEF ConfInv, TextInv
    <3>4. r.n \in {0, 1} /\ Len(r.mem) = Len(env) /\ Len(env) \in Nat  BY <3>3, ScanCleans
    <3>5. CASE r.n = 0  BY <2>4, <3>1, <3>5 DEF NoPut
    <3>6. CASE r.n = 1
      <4>1. FileLeft' = FileLeft  BY <3>2 DEF FileLeft
      <4>2. Left = Len(env) - x + FileLeft + 6 /\ Left' = Len(env) - (x + 1) + FileLeft + 6
        BY <3>1, <3>2, <3>4, <3>6, <4>1 DEF Left
      <4> QED  BY <2>1, <2>2, <3>4, <4>2
    <3> QED  BY <3>4, <3>5, <3>6
  <2>5. CASE EnvEnd
    <3>1. pc = "env" /\ pc' \in {"file", "done"} /\ file' = file  BY <2>5 DEF EnvEnd
    <3>2. Len(env) \in Nat /\ x <= Len(env) + 1  BY <3>1 DEF ConfInv, TextInv
    <3>3. FileLeft' = FileLeft  BY <3>1 DEF FileLeft
    <3>4. Left = Len(env) - x + FileLeft + 6 /\ Left' \in {FileLeft + 4, 1}
      BY <3>1, <3>3 DEF Left
    <3> QED  BY <2>1, <2>2, <3>2, <3>4
  <2>6. CASE File
    <3>1. pc = "file" /\ file' = file  BY <2>6 DEF File
    <3>2. Left = FileLeft + 4  BY <3>1 DEF Left
    <3>3. CASE pc' = "done"
      <4>1. Left' = 1  BY <3>3 DEF Left
      <4> QED  BY <2>2, <3>2, <4>1
    <3>4. CASE pc' = "lines" /\ file \notin {Unset, Unreadable} /\ data' = Append(file, NL) /\ i' = 1
      <4>1. file \in FileTexts \ {Unset, Unreadable}  BY <3>4 DEF ConfInv, TextInv
      <4>2. file \in Seq(Tokens) /\ NL \in Tokens  BY <4>1, ConfAssumption DEF Tokens
      <4>3. Len(data') = Len(file) + 1  BY <3>4, <4>2
      <4>4. Left' = Len(data') - 1 + 3  BY <3>4 DEF Left
      <4> QED  BY <2>2, <3>2, <4>1, <4>3, <4>4
    <3> QED  BY <2>6, <3>3, <3>4 DEF File, Fail
  <2>7. CASE Line
    <3>1. /\ pc = "lines" /\ pc' = "lines" /\ Ends # {} /\ i' = LineEnd + 1
          /\ IF IsServerLine /\ k < MaxNs THEN TakeServer(Cut(data, LineEnd)) ELSE NoPut /\ UNCHANGED <<data, lacked>>
      BY <2>7 DEF Line
    <3>2. /\ data \in Seq(Tokens) /\ i \in Nat \ {0} /\ Len(data) \in Nat
          /\ named.file \in FileTexts /\ named.file \in Seq(Tokens) /\ Cleaned(data, Append(named.file, NL))
      BY <3>1, ConfAssumption DEF ConfInv, TextInv
    <3>3. LineEnd \in Nat /\ LineEnd >= i  BY <3>1, <3>2, EndOfLine
    <3>4. Len(data') = Len(data)
      <4>1. PICK orig \in Seq(Tokens) : orig = named.file  BY <3>2
      <4> QED  BY <3>1, <3>2, <4>1, LineTakes
    <3>5. Left = Len(data) - i + 3 /\ Left' = Len(data) - (LineEnd + 1) + 3
      BY <3>1, <3>4 DEF Left
    <3> QED  BY <3>2, <3>3, <3>5
  <2>8. CASE LinesEnd
    <3>1. pc = "lines" /\ pc' = "done"  BY <2>8 DEF LinesEnd
    <3>2. Len(data) \in Nat /\ i <= Len(data) + 1  BY <3>1 DEF ConfInv, TextInv
    <3>3. Left = Len(data) - i + 3 /\ Left' = 1  BY <3>1 DEF Left
    <3> QED  BY <2>1, <3>2, <3>3
  <2>9. ~CallHit /\ ~CallMiss /\ ~LoadEnds /\ ~Between
    BY DEF CallHit, CallMiss, LoadEnds, Between, Serve
  <2> QED  BY <2>3, <2>4, <2>5, <2>6, <2>7, <2>8, <2>9 DEF ConfNext, LoadStep
<1> QED  BY <1>1, ConfStart, ConfSteps, PTL DEF ConfSpec, TurnsAdvance
=============================================================================
