--------------------------- MODULE Qualify_proofs ---------------------------
(***************************************************************************)
(* Proofs about DnsQualify: a host name is looked up as the sources        *)
(* configure it.                                                           *)
(***************************************************************************)
EXTENDS DnsQualify, Loops

-----------------------------------------------------------------------------
(***************************************************************************)
(* Parts of names                                                          *)
(***************************************************************************)
\* d tokens of s come before the first c
IsUpto(d, s, c) ==
  /\ d \in 0 .. Len(s)
  /\ d = Len(s) \/ s[d + 1] = c
  /\ \A e \in 1 .. d : s[e] # c

LEMMA UptoFinds ==
  ASSUME NEW S, NEW s \in Seq(S), NEW c
  PROVE  Upto(s, c) \in Nat /\ Upto(s, c) <= Len(s) /\ IsUpto(Upto(s, c), s, c)
<1>1. PICK n \in Nat : n = Len(s)  BY LenProperties
<1> DEFINE T == {d \in 0 .. n : d = n \/ s[d + 1] = c}
<1>2. PICK m \in T : \A d \in T : m <= d
  <2>1. T \in SUBSET Nat /\ n \in T  BY <1>1
  <2> HIDE DEF T
  <2> QED  BY <2>1, LeastNat
<1>3. ASSUME NEW e \in 1 .. m PROVE s[e] # c
  <2>1. e - 1 \in 0 .. n /\ ~(m <= e - 1) /\ e - 1 + 1 = e  BY <1>1, <1>2
  <2>2. e - 1 \notin T  BY <1>2, <2>1
  <2> QED  BY <2>1, <2>2
<1>4. m \in 0 .. n /\ (m = n \/ s[m + 1] = c)  BY <1>2
<1> HIDE DEF T
<1>5. \E d \in 0 .. n : /\ d = n \/ s[d + 1] = c
                        /\ \A e \in 1 .. d : s[e] # c
  BY <1>3, <1>4
<1> DEFINE d0 == CHOOSE d \in 0 .. n : /\ d = n \/ s[d + 1] = c
                                       /\ \A e \in 1 .. d : s[e] # c
<1>6. /\ d0 \in 0 .. n /\ (d0 = n \/ s[d0 + 1] = c)
      /\ \A e \in 1 .. d0 : s[e] # c
  BY <1>5
<1>7. Upto(s, c) = d0  BY <1>1 DEF Upto
<1> HIDE DEF d0
<1> QED  BY <1>1, <1>6, <1>7 DEF IsUpto

\* There is only one such number.
LEMMA UptoIs ==
  ASSUME NEW S, NEW s \in Seq(S), NEW c, NEW d, IsUpto(d, s, c)
  PROVE  Upto(s, c) = d
<1>1. PICK n \in Nat : n = Len(s)  BY LenProperties
<1>2. PICK u : u = Upto(s, c)  OBVIOUS
<1>3. IsUpto(u, s, c)  BY <1>2, UptoFinds
<1>4. /\ d \in 0 .. n /\ (d = n \/ s[d + 1] = c)
      /\ \A e \in 1 .. d : s[e] # c
  BY <1>1 DEF IsUpto
<1>5. /\ u \in 0 .. n /\ (u = n \/ s[u + 1] = c)
      /\ \A e \in 1 .. u : s[e] # c
  BY <1>1, <1>3 DEF IsUpto
<1>6. ~(u < d)
  <2>1. u < d => u + 1 \in 1 .. d /\ u # n  BY <1>1, <1>4, <1>5
  <2> QED  BY <1>4, <1>5, <2>1
<1>7. ~(d < u)
  <2>1. d < u => d + 1 \in 1 .. u /\ d # n  BY <1>1, <1>4, <1>5
  <2> QED  BY <1>4, <1>5, <2>1
<1> QED  BY <1>1, <1>2, <1>4, <1>5, <1>6, <1>7

\* t is what is behind the first n tokens of s, of length l
IsRest(t, s, n, l) == t = Drop(s, n) /\ Len(t) = l - n /\ \A k \in 1 .. l - n : t[k] = s[n + k]

LEMMA DropIs ==
  ASSUME NEW S, NEW s \in Seq(S), NEW n \in Nat, NEW l, l = Len(s), n <= l
  PROVE  \E t \in Seq(S) : IsRest(t, s, n, l)
<1>1. l \in Nat /\ n + 1 \in Nat \ {0} /\ n + 1 <= l + 1 /\ l - (n + 1) + 1 = l - n  BY LenProperties
<1>2. PICK t \in Seq(S) : IsPart(t, s, n + 1, l)
  <2>1. PICK m \in Nat \ {0} : m = n + 1  BY <1>1
  <2>2. m <= l + 1 /\ l <= Len(s)  BY <1>1, <2>1
  <2> QED  BY <1>1, <2>1, <2>2, PartOf
<1>3. t = Drop(s, n) /\ Len(t) = l - n  BY <1>1, <1>2 DEF IsPart, Drop
<1>4. ASSUME NEW k \in 1 .. l - n PROVE t[k] = s[n + k]
  <2>1. k + (n + 1 - 1) = n + k  BY <1>1
  <2>2. t[k] = s[k + (n + 1 - 1)]  BY <1>1, <1>2 DEF IsPart
  <2> QED  BY <2>1, <2>2
<1> QED  BY <1>3, <1>4 DEF IsRest

\* t is s of length n with e at k
IsPut(t, s, n, k, e) ==
  /\ t = [s EXCEPT ![k] = e] /\ Len(t) = n
  /\ \A j \in 1 .. n : t[j] = IF j = k THEN e ELSE s[j]

LEMMA PutIn ==
  ASSUME NEW S, NEW s \in Seq(S), NEW n, n = Len(s), NEW k \in 1 .. n, NEW e \in S
  PROVE  \E t \in Seq(S) : IsPut(t, s, n, k, e)
<1>1. PICK t : t = [s EXCEPT ![k] = e]  OBVIOUS
<1>2. t \in Seq(S) /\ Len(t) = Len(s)  BY <1>1, ExceptSeq
<1>3. \A j \in 1 .. Len(s) : [s EXCEPT ![k] = e][j] = IF j = k THEN e ELSE s[j]  BY ExceptSeq
<1>4. \A j \in 1 .. n : t[j] = IF j = k THEN e ELSE s[j]  BY <1>1, <1>3
<1>5. IsPut(t, s, n, k, e)  BY <1>1, <1>2, <1>4 DEF IsPut
<1> QED  BY <1>2, <1>5

-----------------------------------------------------------------------------
(***************************************************************************)
(* The pieces of a name                                                    *)
(***************************************************************************)
Lists == Seq(Seq(NameTokens)) \ {<<>>}

\* one more token: a new piece or more of the last one
PieceTurn(p, y, c) ==
  IF y = c THEN Append(p, <<>>) ELSE [p EXCEPT ![Len(p)] = Append(@, y)]

LEMMA PieceTurnIs ==
  ASSUME NEW a \in Seq(Seq(NameTokens)), NEW p \in Lists, NEW y \in NameTokens, NEW c
  PROVE  PieceTurn(p, y, c) \in Lists /\ PieceTurn(a \o p, y, c) = a \o PieceTurn(p, y, c)
<1> DEFINE S == Seq(NameTokens)
<1>1. PICK l \in Nat : l = Len(a)  BY LenProperties
<1>2. PICK n \in Nat \ {0} : n = Len(p)  BY EmptySeq DEF Lists
<1>3. p \in Seq(S) /\ p[n] \in S /\ n \in 1 .. n /\ <<>> \in S  BY <1>2, ElementOfSeq, EmptySeq DEF Lists
<1>4. PICK w \in S : w = Append(p[n], y)  BY <1>3, AppendProperties
<1>5. PICK b \in Seq(S) : IsJoint(b, a, l, p, n)  BY <1>1, <1>2, <1>3, JointOf
<1>6. b = a \o p /\ Len(b) = l + n /\ (\A k \in 1 .. l : b[k] = a[k]) /\ \A k \in 1 .. n : b[l + k] = p[k]
  BY <1>5 DEF IsJoint
<1>7. CASE y = c
  <2>1. PieceTurn(p, y, c) = Append(p, <<>>) /\ PieceTurn(b, y, c) = Append(b, <<>>)  BY <1>7 DEF PieceTurn
  <2>2. Append(p, <<>>) \in Seq(S) /\ Append(p, <<>>) # <<>>
    <3>1. PICK e \in S : e = <<>>  BY <1>3
    <3>2. PICK t \in Seq(S) : IsAppend(t, p, n, e)  BY <1>2, <1>3, <3>1, Appended
    <3>3. t = Append(p, <<>>) /\ Len(t) = n + 1  BY <3>1, <3>2 DEF IsAppend
    <3>4. t # <<>>  BY <3>3, EmptySeq
    <3> QED  BY <3>3, <3>4
  <2>3. Append(p, <<>>) = p \o <<<<>>>> /\ Append(b, <<>>) = b \o <<<<>>>>
    BY <1>3, AppendIsConcat
  <2>4. (a \o p) \o <<<<>>>> = a \o (p \o <<<<>>>>)
    <3>1. <<<<>>>> \in Seq(S)  BY <1>3, OneElement
    <3>2. Regroups(a, p, <<<<>>>>)  BY <1>3, <3>1, Regrouped
    <3> QED  BY <3>2 DEF Regroups
  <2> QED  BY <1>6, <2>1, <2>2, <2>3, <2>4 DEF Lists
<1>8. CASE y # c
  <2>1. l + n \in 1 .. l + n /\ n \in 1 .. n  BY <1>1, <1>2
  <2>2. PICK q \in Seq(S) : IsPut(q, p, n, n, w)  BY <1>2, <1>3, <1>4, <2>1, PutIn
  <2>3. PICK r \in Seq(S) : IsPut(r, b, l + n, l + n, w)  BY <1>4, <1>6, <2>1, PutIn
  <2>4. /\ q = [p EXCEPT ![n] = w] /\ Len(q) = n /\ \A k \in 1 .. n : q[k] = IF k = n THEN w ELSE p[k]
        /\ r = [b EXCEPT ![l + n] = w] /\ Len(r) = l + n
        /\ \A k \in 1 .. l + n : r[k] = IF k = l + n THEN w ELSE b[k]
    BY <2>2, <2>3 DEF IsPut
  <2>0. PieceTurn(p, y, c) = q  BY <1>2, <1>4, <1>8, <2>4 DEF PieceTurn
  <2>5. PieceTurn(b, y, c) = r
    <3>1. b[l + n] = p[n]  BY <1>6, <2>1
    <3> QED  BY <1>4, <1>6, <1>8, <2>4, <3>1 DEF PieceTurn
  <2>6. PICK z \in Seq(S) : IsJoint(z, a, l, q, n)  BY <1>1, <2>4, JointOf
  <2>7. z = a \o q /\ Len(z) = l + n /\ (\A k \in 1 .. l : z[k] = a[k]) /\ \A k \in 1 .. n : z[l + k] = q[k]
    BY <2>6 DEF IsJoint
  <2>8. ASSUME NEW k \in 1 .. l + n PROVE r[k] = z[k]
    <3>1. CASE k \in 1 .. l
      <4>1. k # l + n  BY <1>1, <1>2, <3>1
      <4> QED  BY <1>6, <2>4, <2>7, <3>1, <4>1
    <3>2. CASE k > l
      <4>1. PICK j \in 1 .. n : k = l + j
        <5>1. k - l \in 1 .. n /\ k = l + (k - l)  BY <1>1, <1>2, <3>2
        <5> QED  BY <5>1
      <4>2. l + j = l + n <=> j = n  OBVIOUS
      <4>3. r[k] = IF l + j = l + n THEN w ELSE b[l + j]  BY <2>4, <4>1
      <4>4. z[k] = q[j] /\ b[l + j] = p[j]  BY <1>6, <2>7, <4>1
      <4> QED  BY <2>4, <4>2, <4>3, <4>4
    <3> QED  BY <1>1, <3>1, <3>2
  <2>9. r = z
    <3>1. Len(r) = l + n /\ Len(z) = l + n  BY <2>4, <2>7
    <3> QED  BY <2>8, <3>1, SeqEqual
  <2>10. q # <<>>  BY <1>2, <2>4, EmptySeq
  <2> QED  BY <1>6, <2>0, <2>5, <2>7, <2>9, <2>10 DEF Lists
<1> QED  BY <1>7, <1>8

\* g[k] are the pieces of the first k tokens of s
CutOf(g, s, c) ==
  /\ g \in [0 .. Len(s) -> Lists] /\ g[0] = <<<<>>>>
  /\ \A k \in 1 .. Len(s) : g[k] = PieceTurn(g[k - 1], s[k], c)

LEMMA PiecesAre ==
  ASSUME NEW s \in Seq(NameTokens), NEW c
  PROVE  \E g : CutOf(g, s, c) /\ Pieces(s, c) = g[Len(s)]
<1>1. PICK n \in Nat : n = Len(s)  BY LenProperties
<1> DEFINE turn == [a \in Lists \X (1 .. n) |-> PieceTurn(a[1], s[a[2]], c)]
           Is(f) == f = [k \in 0 .. n |->
                           IF k = 0 THEN <<<<>>>>
                           ELSE IF s[k] = c THEN Append(f[k - 1], <<>>)
                           ELSE [f[k - 1] EXCEPT ![Len(f[k - 1])] = Append(@, s[k])]]
           v == CHOOSE f : Is(f)
<1>2. <<<<>>>> \in Lists
  <2>1. <<>> \in Seq(NameTokens)  BY EmptySeq
  <2>2. <<<<>>>> \in Seq(Seq(NameTokens)) /\ Len(<<<<>>>>) = 1  BY <2>1, OneElement
  <2>3. <<<<>>>> # <<>>  BY <2>2, EmptySeq
  <2> QED  BY <2>2, <2>3 DEF Lists
<1>3. \A k \in 1 .. n : s[k] \in NameTokens  BY <1>1, ElementOfSeq
<1>4. turn \in [Lists \X (1 .. n) -> Lists]
  <2>1. ASSUME NEW a \in Lists \X (1 .. n) PROVE PieceTurn(a[1], s[a[2]], c) \in Lists
    <3>1. a[1] \in Lists /\ s[a[2]] \in NameTokens  BY <1>3
    <3>2. <<>> \in Seq(Seq(NameTokens))  BY EmptySeq
    <3> QED  BY <3>1, <3>2, PieceTurnIs
  <2> QED  BY <2>1
<1>5. PICK g : Turns(g, n, <<<<>>>>, turn, Lists)
  <2> HIDE DEF turn
  <2> QED  BY <1>2, <1>4, TurnsExist
<1>6. /\ g \in [0 .. n -> Lists] /\ g[0] = <<<<>>>>
      /\ \A k \in 1 .. n : g[k] = turn[<<g[k - 1], k>>]
  <2> HIDE DEF turn
  <2> QED  BY <1>5 DEF Turns
<1>7. ASSUME NEW k \in 1 .. n PROVE g[k] = PieceTurn(g[k - 1], s[k], c)
  <2>1. k - 1 \in 0 .. n  OBVIOUS
  <2>2. <<g[k - 1], k>> \in Lists \X (1 .. n)  BY <1>6, <2>1
  <2> QED  BY <1>6, <2>2
<1> HIDE DEF turn
<1>8. CutOf(g, s, c)  BY <1>1, <1>6, <1>7 DEF CutOf
<1>9. Is(g)
  <2>1. ASSUME NEW k \in 0 .. n
        PROVE  g[k] = IF k = 0 THEN <<<<>>>>
                      ELSE IF s[k] = c THEN Append(g[k - 1], <<>>)
                      ELSE [g[k - 1] EXCEPT ![Len(g[k - 1])] = Append(@, s[k])]
    <3>1. k # 0 => k \in 1 .. n  OBVIOUS
    <3>2. k # 0 => g[k] = PieceTurn(g[k - 1], s[k], c)  BY <1>7, <3>1
    <3> QED  BY <1>6, <3>2 DEF PieceTurn
  <2> QED  BY <1>6, <2>1
<1>10. PICK f : f = v /\ Is(f)
  <2> HIDE DEF Is
  <2> QED  BY <1>9
<1>11. Alike(f, g, n)
  <2>1. f[0] = <<<<>>>>
    <3>1. 0 \in 0 .. n  OBVIOUS
    <3>2. f[0] = IF 0 = 0 THEN <<<<>>>> ELSE IF s[0] = c THEN Append(f[0 - 1], <<>>)
                 ELSE [f[0 - 1] EXCEPT ![Len(f[0 - 1])] = Append(@, s[0])]
      BY <1>10, <3>1
    <3> QED  BY <3>2
  <2>2. ASSUME NEW k \in 1 .. n, f[k - 1] = g[k - 1] PROVE f[k] = g[k]
    <3>1. k \in 0 .. n /\ k # 0  OBVIOUS
    <3>2. f[k] = IF s[k] = c THEN Append(f[k - 1], <<>>)
                 ELSE [f[k - 1] EXCEPT ![Len(f[k - 1])] = Append(@, s[k])]
      BY <1>10, <3>1
    <3>3. g[k] = PieceTurn(g[k - 1], s[k], c)  BY <1>7
    <3> QED  BY <2>2, <3>2, <3>3 DEF PieceTurn
  <2> QED  BY <1>6, <2>1, <2>2 DEF Alike
<1>12. f[n] = g[n]
  <2>1. n \in 0 .. n  OBVIOUS
  <2> QED  BY <1>11, <2>1, SameTurns
<1>13. Pieces(s, c) = v[n]  BY <1>1 DEF Pieces
<1> HIDE DEF Is, v
<1> QED  BY <1>1, <1>8, <1>10, <1>12, <1>13

\* The pieces on both sides of a c.
LEMMA PiecesOfTwo ==
  ASSUME NEW s \in Seq(NameTokens), NEW t \in Seq(NameTokens), NEW c \in NameTokens
  PROVE  Pieces((s \o <<c>>) \o t, c) = Pieces(s, c) \o Pieces(t, c)
<1>1. PICK m \in Nat, n \in Nat : m = Len(s) /\ n = Len(t)  BY LenProperties
<1>2. PICK o \in Seq(NameTokens) : o = <<c>> /\ Len(o) = 1 /\ o[1] = c  BY OneElement
<1>3. PICK a \in Seq(NameTokens) : IsJoint(a, s, m, o, 1)  BY <1>1, <1>2, JointOf
<1>4. PICK u \in Seq(NameTokens) : IsJoint(u, a, m + 1, t, n)
  <2>1. Len(a) = m + 1  BY <1>3 DEF IsJoint
  <2> QED  BY <1>1, <2>1, JointOf
<1>5. u = (s \o <<c>>) \o t /\ Len(u) = m + 1 + n  BY <1>2, <1>3, <1>4 DEF IsJoint
<1>6. /\ \A k \in 1 .. m : u[k] = s[k]
      /\ u[m + 1] = c
      /\ \A k \in 1 .. n : u[m + 1 + k] = t[k]
  <2>1. \A k \in 1 .. m + 1 : u[k] = a[k]  BY <1>4 DEF IsJoint
  <2>2. (\A k \in 1 .. m : a[k] = s[k]) /\ \A k \in 1 .. 1 : a[m + k] = o[k]  BY <1>3 DEF IsJoint
  <2>3. a[m + 1] = c
    <3>1. 1 \in 1 .. 1  OBVIOUS
    <3> QED  BY <1>2, <2>2, <3>1
  <2>4. m + 1 \in 1 .. m + 1 /\ \A k \in 1 .. m : k \in 1 .. m + 1  OBVIOUS
  <2>5. \A k \in 1 .. n : u[m + 1 + k] = t[k]  BY <1>4 DEF IsJoint
  <2> QED  BY <2>1, <2>2, <2>3, <2>4, <2>5
<1>7. PICK gs : CutOf(gs, s, c) /\ Pieces(s, c) = gs[m]  BY <1>1, PiecesAre
<1>8. PICK gt : CutOf(gt, t, c) /\ Pieces(t, c) = gt[n]  BY <1>1, PiecesAre
<1>9. PICK g : CutOf(g, u, c) /\ Pieces(u, c) = g[m + 1 + n]  BY <1>5, PiecesAre
<1>10. /\ gs \in [0 .. m -> Lists] /\ gs[0] = <<<<>>>>
       /\ \A k \in 1 .. m : gs[k] = PieceTurn(gs[k - 1], s[k], c)
  BY <1>1, <1>7 DEF CutOf
<1>11. /\ gt \in [0 .. n -> Lists] /\ gt[0] = <<<<>>>>
       /\ \A k \in 1 .. n : gt[k] = PieceTurn(gt[k - 1], t[k], c)
  BY <1>1, <1>8 DEF CutOf
<1>12. /\ g[0] = <<<<>>>>
       /\ \A k \in 1 .. m + 1 + n : g[k] = PieceTurn(g[k - 1], u[k], c)
  BY <1>5, <1>9 DEF CutOf
<1>13. g[m] = gs[m]
  <2>1. ASSUME NEW k \in 1 .. m, g[k - 1] = gs[k - 1] PROVE g[k] = gs[k]
    <3>1. k \in 1 .. m + 1 + n  OBVIOUS
    <3> QED  BY <1>6, <1>10, <1>12, <2>1, <3>1
  <2>2. Alike(g, gs, m)  BY <1>10, <1>12, <2>1 DEF Alike
  <2> QED  BY <2>2, SameTurns
<1>14. PICK p \in Lists : p = gs[m]  BY <1>10
<1>15. p \in Seq(Seq(NameTokens)) /\ <<>> \in Seq(NameTokens)  BY EmptySeq DEF Lists
<1>16. g[m + 1] = p \o <<<<>>>>
  <2>1. m + 1 \in 1 .. m + 1 + n /\ m + 1 - 1 = m  OBVIOUS
  <2>2. g[m + 1] = PieceTurn(p, c, c)  BY <1>6, <1>12, <1>13, <1>14, <2>1
  <2>3. PieceTurn(p, c, c) = Append(p, <<>>)  BY DEF PieceTurn
  <2>4. Append(p, <<>>) = p \o <<<<>>>>  BY <1>15, AppendIsConcat
  <2> QED  BY <2>2, <2>3, <2>4
<1> DEFINE T == {k \in 0 .. n : g[m + 1 + k] = p \o gt[k]}
<1>17. 0 \in T
  <2>1. m + 1 + 0 = m + 1 /\ 0 \in 0 .. n  OBVIOUS
  <2>2. g[m + 1 + 0] = p \o gt[0]  BY <1>11, <1>16, <2>1
  <2> QED  BY <2>1, <2>2
<1>18. ASSUME NEW k \in 1 .. n, k - 1 \in T PROVE k \in T
  <2>1. k - 1 \in 0 .. n /\ m + 1 + k \in 1 .. m + 1 + n /\ m + 1 + k - 1 = m + 1 + (k - 1)  OBVIOUS
  <2>2. gt[k - 1] \in Lists /\ t[k] \in NameTokens  BY <1>1, <1>11, <2>1, ElementOfSeq
  <2>3. g[m + 1 + k] = PieceTurn(g[m + 1 + (k - 1)], u[m + 1 + k], c)  BY <1>12, <2>1
  <2>4. g[m + 1 + (k - 1)] = p \o gt[k - 1]  BY <1>18
  <2>5. g[m + 1 + k] = PieceTurn(p \o gt[k - 1], t[k], c)  BY <1>6, <2>3, <2>4
  <2>6. g[m + 1 + k] = p \o PieceTurn(gt[k - 1], t[k], c)
    <3>1. PieceTurn(p \o gt[k - 1], t[k], c) = p \o PieceTurn(gt[k - 1], t[k], c)
      BY <1>15, <2>2, PieceTurnIs
    <3> QED  BY <2>5, <3>1
  <2>7. g[m + 1 + k] = p \o gt[k]  BY <1>11, <2>6
  <2> QED  BY <2>7
<1>19. n \in T
  <2>1. \A k \in 1 .. n : k - 1 \in T => k \in T  BY <1>18
  <2> HIDE DEF T
  <2>2. \A k \in 0 .. n : k \in T  BY <1>17, <2>1, Induct
  <2> QED  BY <2>2
<1>20. g[m + 1 + n] = p \o gt[n]  BY <1>19
<1> QED  BY <1>5, <1>7, <1>8, <1>9, <1>14, <1>20

\* What is not cut is one piece.
LEMMA PiecesOfOne ==
  ASSUME NEW s \in Seq(NameTokens), NEW c, \A k \in 1 .. Len(s) : s[k] # c
  PROVE  Pieces(s, c) = <<s>>
<1>1. PICK n \in Nat : n = Len(s)  BY LenProperties
<1>2. PICK g : CutOf(g, s, c) /\ Pieces(s, c) = g[n]  BY <1>1, PiecesAre
<1>3. /\ g \in [0 .. n -> Lists] /\ g[0] = <<<<>>>>
      /\ \A k \in 1 .. n : g[k] = PieceTurn(g[k - 1], s[k], c)
  BY <1>1, <1>2 DEF CutOf
<1> DEFINE T == {k \in 0 .. n : g[k] = <<SubSeq(s, 1, k)>>}
<1>4. 0 \in T
  <2>1. SubSeq(s, 1, 0) = <<>> /\ 0 \in 0 .. n  BY SubSeqEmpty
  <2>2. g[0] = <<SubSeq(s, 1, 0)>>  BY <1>3, <2>1
  <2> QED  BY <2>1, <2>2
<1>5. ASSUME NEW k \in 1 .. n, k - 1 \in T PROVE k \in T
  <2>1. k - 1 \in Nat /\ 1 <= k - 1 + 1 /\ k - 1 <= n /\ k <= n /\ k - 1 + 1 = k  OBVIOUS
  <2>2. PICK j \in Nat : j = k - 1  BY <2>1
  <2>3. PICK a \in Seq(NameTokens) : a = SubSeq(s, 1, j)
    <3>1. PICK a \in Seq(NameTokens) : IsPart(a, s, 1, j)  BY <1>1, <2>1, <2>2, PartOf
    <3> QED  BY <3>1 DEF IsPart
  <2>4. SubSeq(s, 1, k) = a \o <<s[k]>>
    <3>1. SubSeq(s, 1, k) = SubSeq(s, 1, j) \o SubSeq(s, j + 1, k)  BY <1>1, <2>1, <2>2, CutInTwo
    <3>2. SubSeq(s, k, k) = <<s[k]>>  BY <1>1, PartOfOne
    <3> QED  BY <2>1, <2>2, <2>3, <3>1, <3>2
  <2>5. PICK y \in NameTokens : y = s[k] /\ y # c  BY <1>1, ElementOfSeq
  <2>6. a \o <<y>> = Append(a, y)  BY AppendIsConcat
  <2>7. PICK p \in Seq(Seq(NameTokens)) : p = <<a>> /\ Len(p) = 1 /\ p[1] = a  BY OneElement
  <2>8. g[k] = PieceTurn(p, y, c)  BY <1>3, <1>5, <2>2, <2>3, <2>5, <2>7
  <2>9. PieceTurn(p, y, c) = [p EXCEPT ![1] = Append(a, y)]  BY <2>5, <2>7 DEF PieceTurn
  <2>10. PICK e \in Seq(NameTokens) : e = Append(a, y)  BY AppendProperties
  <2>11. PICK q \in Seq(Seq(NameTokens)) : IsPut(q, p, 1, 1, e)
    <3>1. 1 \in 1 .. 1  OBVIOUS
    <3> QED  BY <2>7, <3>1, PutIn
  <2>12. q = <<e>>
    <3>1. PICK z \in Seq(Seq(NameTokens)) : z = <<e>> /\ Len(z) = 1 /\ z[1] = e  BY OneElement
    <3>2. Len(q) = 1 /\ \A j0 \in 1 .. 1 : q[j0] = IF j0 = 1 THEN e ELSE p[j0]  BY <2>11 DEF IsPut
    <3>3. \A j0 \in 1 .. 1 : q[j0] = z[j0]  BY <3>1, <3>2
    <3>4. q = z  BY <3>1, <3>2, <3>3, SeqEqual
    <3> QED  BY <3>1, <3>4
  <2>13. q = [p EXCEPT ![1] = e]  BY <2>11 DEF IsPut
  <2>14. g[k] = <<SubSeq(s, 1, k)>>  BY <2>4, <2>5, <2>6, <2>8, <2>9, <2>10, <2>12, <2>13
  <2> QED  BY <2>14
<1>6. n \in T
  <2>1. \A k \in 1 .. n : k - 1 \in T => k \in T  BY <1>5
  <2> HIDE DEF T
  <2>2. \A k \in 0 .. n : k \in T  BY <1>4, <2>1, Induct
  <2> QED  BY <2>2
<1>7. g[n] = <<SubSeq(s, 1, n)>> /\ SubSeq(s, 1, n) = s  BY <1>1, <1>6, SubSeqFull
<1> QED  BY <1>2, <1>7

LEMMA CutBegin ==
  ASSUME NEW S, NEW s \in Seq(S), NEW k \in Nat, NEW n \in Nat, k <= n, n <= Len(s)
  PROVE  SubSeq(s, 1, n) = SubSeq(s, 1, k) \o SubSeq(s, k + 1, n)
<1>1. PICK m \in Nat \ {0} : m = 1  OBVIOUS
<1>2. m <= k + 1  BY <1>1
<1>3. SubSeq(s, m, n) = SubSeq(s, m, k) \o SubSeq(s, k + 1, n)  BY <1>2, CutInTwo
<1> QED  BY <1>1, <1>3

\* The first piece, and the pieces of what is behind it.
LEMMA FirstPiece ==
  ASSUME NEW s \in Seq(NameTokens), NEW c \in NameTokens, NEW d \in Nat, d < Len(s), d = Upto(s, c)
  PROVE  Pieces(s, c) = <<SubSeq(s, 1, d)>> \o Pieces(Drop(s, d + 1), c)
<1>1. PICK n \in Nat : n = Len(s)  BY LenProperties
<1>2. s[d + 1] = c /\ \A e \in 1 .. d : s[e] # c  BY <1>1, UptoFinds DEF IsUpto
<1>3. PICK a \in Seq(NameTokens) : IsPart(a, s, 1, d)  BY <1>1, PartOf
<1>4. a = SubSeq(s, 1, d) /\ Len(a) = d /\ \A k \in 1 .. d : a[k] = s[k]
  <2>1. d - 1 + 1 = d /\ \A k \in 1 .. d : k + (1 - 1) = k  OBVIOUS
  <2> QED  BY <1>3, <2>1 DEF IsPart
<1>9. PICK e \in Nat : e = d + 1 /\ e <= n /\ d <= e /\ 1 <= e + 1 /\ 1 <= d + 1 /\ 1 \in Nat \ {0}  BY <1>1
<1>5. PICK t \in Seq(NameTokens) : t = Drop(s, d + 1)  BY <1>1, <1>9, DropIs DEF IsRest
<1>6. s = (a \o <<c>>) \o t
  <2>1. SubSeq(s, 1, n) = SubSeq(s, 1, e) \o SubSeq(s, e + 1, n)
    <3>1. n <= Len(s) /\ e <= n  BY <1>1, <1>9
    <3> QED  BY <3>1, CutBegin
  <2>2. SubSeq(s, 1, e) = SubSeq(s, 1, d) \o SubSeq(s, d + 1, e)
    <3>1. e <= Len(s) /\ d <= e  BY <1>1, <1>9
    <3> QED  BY <3>1, CutBegin
  <2>3. SubSeq(s, d + 1, d + 1) = <<s[d + 1]>>
    <3>1. d + 1 \in 1 .. Len(s)  BY <1>1
    <3> QED  BY <3>1, PartOfOne
  <2>4. SubSeq(s, 1, n) = s  BY <1>1, SubSeqFull
  <2> QED  BY <1>1, <1>2, <1>4, <1>5, <1>9, <2>1, <2>2, <2>3, <2>4 DEF Drop
<1>7. Pieces(s, c) = Pieces(a, c) \o Pieces(t, c)  BY <1>6, PiecesOfTwo
<1>8. Pieces(a, c) = <<a>>  BY <1>2, <1>4, PiecesOfOne
<1> QED  BY <1>4, <1>5, <1>7, <1>8

LEMMA PiecesType ==
  ASSUME NEW s \in Seq(NameTokens), NEW c
  PROVE  Pieces(s, c) \in Lists
<1>1. PICK g : CutOf(g, s, c) /\ Pieces(s, c) = g[Len(s)]  BY PiecesAre
<1>2. Len(s) \in 0 .. Len(s)  BY LenProperties
<1> QED  BY <1>1, <1>2 DEF CutOf

-----------------------------------------------------------------------------
(***************************************************************************)
(* The rules                                                               *)
(***************************************************************************)
LEMMA DropType ==
  ASSUME NEW S, NEW s \in Seq(S), NEW n \in Nat
  PROVE  Drop(s, n) \in Seq(S)
<1>1. PICK l \in Nat : l = Len(s)  BY LenProperties
<1>2. n + 1 \in Int /\ l \in Int /\ \A k \in n + 1 .. l : k \in 1 .. l  OBVIOUS
<1>3. \A k \in n + 1 .. l : s[k] \in S  BY <1>1, <1>2, ElementOfSeq
<1>4. SubSeq(s, n + 1, l) \in Seq(S)  BY <1>2, <1>3, SubSeqProperties
<1> QED  BY <1>1, <1>4 DEF Drop

LEMMA BeginType ==
  ASSUME NEW S, NEW s \in Seq(S), NEW n \in Nat, n <= Len(s)
  PROVE  SubSeq(s, 1, n) \in Seq(S)
<1>1. PICK l \in Nat : l = Len(s)  BY LenProperties
<1>2. 1 \in Int /\ n \in Int /\ \A k \in 1 .. n : k \in 1 .. l  BY <1>1
<1>3. \A k \in 1 .. n : s[k] \in S  BY <1>1, <1>2, ElementOfSeq
<1> QED  BY <1>2, <1>3, SubSeqProperties

\* A rule makes a name of a name.
LEMMA AppliedType ==
  ASSUME NEW work \in Seq(NameTokens), NEW rule \in Seq(NameTokens)
  PROVE  Applied(work, rule) \in Seq(NameTokens)
<1>1. CASE rule = <<>> \/ Upto(rule, COLON) \in {0, Len(rule)}
  BY <1>1 DEF Applied
<1>2. CASE ~(rule = <<>> \/ Upto(rule, COLON) \in {0, Len(rule)})
  <2>1. Tail(rule) \in Seq(NameTokens)  BY <1>2, HeadTailProperties
  <2>2. PICK colon \in Nat : colon = Upto(Tail(rule), COLON)  BY <2>1, UptoFinds
  <2>3. PICK l \in Nat : l = Len(work)  BY LenProperties
  <2>4. PICK prefix \in Int : prefix = l - colon  OBVIOUS
  <2>5. PICK before : before = SubSeq(work, 1, prefix)  OBVIOUS
  <2>6. PICK after \in Seq(NameTokens) : after = Drop(Tail(rule), colon + 1)
    <3>1. colon + 1 \in Nat  OBVIOUS
    <3> QED  BY <2>1, <3>1, DropType
  <2>7. <<>> \o after \in Seq(NameTokens)
    <3>1. <<>> \in Seq(NameTokens)  BY EmptySeq
    <3> QED  BY <3>1, ConcatProperties
  <2>8. ~(prefix < 0) => before \o after \in Seq(NameTokens)
    <3> SUFFICES ASSUME ~(prefix < 0) PROVE before \o after \in Seq(NameTokens)  OBVIOUS
    <3>1. prefix \in Nat /\ prefix <= Len(work)  BY <2>3, <2>4
    <3>2. before \in Seq(NameTokens)  BY <2>5, <3>1, BeginType
    <3> QED  BY <3>2, ConcatProperties
  <2>9. Applied(work, rule) \in {work, <<>> \o after, before \o after}
        /\ (prefix < 0 => Applied(work, rule) = work)
    BY <1>2, <2>2, <2>3, <2>4, <2>5, <2>6 DEF Applied
  <2> QED  BY <2>7, <2>8, <2>9
<1> QED  BY <1>1, <1>2

NoneOf(s, C) == \A k \in 1 .. Len(s) : s[k] \notin C

LEMMA NoneOfRange ==
  ASSUME NEW S, NEW s \in Seq(S), NEW C
  PROVE  NoneOf(s, C) <=> Range(s) \cap C = {}
<1>1. DOMAIN s = 1 .. Len(s)  BY LenProperties
<1> QED  BY <1>1 DEF NoneOf, Range

LEMMA TwoElements ==
  ASSUME NEW S, NEW a \in S, NEW b \in S
  PROVE  \E s \in Seq(S) : s = <<a, b>> /\ Len(s) = 2 /\ s[1] = a /\ s[2] = b
<1>1. <<a, b>> \in Seq(S) /\ Len(<<a, b>>) = 2 /\ <<a, b>>[1] = a /\ <<a, b>>[2] = b  OBVIOUS
<1>2. PICK s : s = <<a, b>>  OBVIOUS
<1> QED  BY <1>1, <1>2

LEMMA ThreeElements ==
  ASSUME NEW S, NEW a \in S, NEW b \in S, NEW c \in S
  PROVE  \E s \in Seq(S) : s = <<a, b, c>> /\ Len(s) = 3 /\ s[1] = a /\ s[2] = b /\ s[3] = c
<1>1. /\ <<a, b, c>> \in Seq(S) /\ Len(<<a, b, c>>) = 3
      /\ <<a, b, c>>[1] = a /\ <<a, b, c>>[2] = b /\ <<a, b, c>>[3] = c
  OBVIOUS
<1>2. PICK s : s = <<a, b, c>>  OBVIOUS
<1> QED  BY <1>1, <1>2

\* The rule ?: adds what is behind it to a name without dots and brackets.
LEMMA AddApplied ==
  ASSUME NEW work \in Seq(NameTokens), NEW rest \in Seq(NameTokens)
  PROVE  Applied(work, <<Q, COLON>> \o rest) = IF NoneOf(work, {DOT, BR}) THEN work \o rest ELSE work
<1>1. PICK l \in Nat, n \in Nat : l = Len(rest) /\ n = Len(work)  BY LenProperties
<1>2. PICK o \in Seq(NameTokens) : o = <<Q, COLON>> /\ Len(o) = 2 /\ o[1] = Q /\ o[2] = COLON
  <2>1. Q \in NameTokens /\ COLON \in NameTokens  BY DEF NameTokens
  <2> QED  BY <2>1, TwoElements
<1>3. PICK rule \in Seq(NameTokens) : IsJoint(rule, o, 2, rest, l)  BY <1>1, <1>2, JointOf
<1>4. rule = <<Q, COLON>> \o rest /\ Len(rule) = 2 + l /\ rule # <<>>
  <2>1. Len(rule) = 2 + l  BY <1>3 DEF IsJoint
  <2> QED  BY <1>2, <1>3, <2>1, EmptySeq DEF IsJoint
<1>5. rule[1] = Q /\ rule[2] = COLON /\ \A k \in 1 .. l : rule[2 + k] = rest[k]
  <2>1. 1 \in 1 .. 2 /\ 2 \in 1 .. 2  OBVIOUS
  <2> QED  BY <1>2, <1>3, <2>1 DEF IsJoint
<1>6. Upto(rule, COLON) = 1
  <2>1. 1 \in 0 .. Len(rule) /\ rule[1 + 1] = COLON  BY <1>4, <1>5
  <2>2. \A e \in 1 .. 1 : rule[e] # COLON
    <3>1. Q # COLON  BY QualifyAssumption
    <3>2. \A e \in 1 .. 1 : e = 1  OBVIOUS
    <3> QED  BY <1>5, <3>1, <3>2
  <2>3. IsUpto(1, rule, COLON)  BY <2>1, <2>2 DEF IsUpto
  <2> QED  BY <2>3, UptoIs
<1>7. PICK t \in Seq(NameTokens) : t = Tail(rule) /\ Len(t) = 1 + l /\ \A k \in 1 .. 1 + l : t[k] = rule[k + 1]
  <2>1. Tail(rule) \in Seq(NameTokens) /\ Len(Tail(rule)) = 2 + l - 1  BY <1>4, HeadTailProperties
  <2>2. Len(Tail(rule)) = 1 + l  BY <2>1
  <2>3. \A k \in 1 .. Len(Tail(rule)) : Tail(rule)[k] = rule[k + 1]  BY <1>4, HeadTailProperties
  <2> QED  BY <2>1, <2>2, <2>3
<1>8. Upto(t, COLON) = 0
  <2>1. t[1] = COLON
    <3>1. 1 \in 1 .. 1 + l /\ 1 + 1 = 2  OBVIOUS
    <3> QED  BY <1>5, <1>7, <3>1
  <2>2. IsUpto(0, t, COLON)
    <3>1. 0 \in 0 .. Len(t) /\ 0 + 1 = 1 /\ \A e \in 1 .. 0 : t[e] # COLON  BY <1>7
    <3> QED  BY <2>1, <3>1 DEF IsUpto
  <2> QED  BY <2>2, UptoIs
<1>9. Drop(t, 0 + 1) = rest
  <2>1. 0 + 1 \in Nat /\ 0 + 1 <= 1 + l /\ 1 + l = Len(t)  BY <1>7
  <2>2. PICK m \in Nat : m = 0 + 1 /\ m = 1  OBVIOUS
  <2>0. PICK w \in Nat : w = 1 + l /\ w = Len(t) /\ m <= w  BY <1>7, <2>2
  <2>7. PICK d \in Seq(NameTokens) : IsRest(d, t, m, w)  BY <2>0, DropIs
  <2>3. d = Drop(t, m) /\ Len(d) = w - m /\ \A k \in 1 .. w - m : d[k] = t[m + k]  BY <2>7 DEF IsRest
  <2>4. w - m = l /\ \A k \in 1 .. l : 1 + k \in 1 .. 1 + l /\ 1 + k + 1 = 2 + k  BY <2>0, <2>2
  <2>5. \A k \in 1 .. l : d[k] = rest[k]
    <3> TAKE k \in 1 .. l
    <3>1. d[k] = t[1 + k]  BY <2>2, <2>3, <2>4
    <3>2. t[1 + k] = rule[2 + k]  BY <1>7, <2>4
    <3> QED  BY <1>5, <3>1, <3>2
  <2>6. d = rest  BY <1>1, <2>3, <2>4, <2>5, SeqEqual
  <2> QED  BY <2>2, <2>3, <2>6
<1>10. SubSeq(work, 1, n) = work /\ Drop(work, n) = SubSeq(t, 1, 0)
  <2>1. SubSeq(work, 1, n) = work  BY <1>1, SubSeqFull
  <2>2. Drop(work, n) = <<>>
    <3>1. n + 1 \in Int /\ n \in Int /\ n < n + 1  OBVIOUS
    <3> QED  BY <1>1, <3>1, SubSeqEmpty DEF Drop
  <2>3. SubSeq(t, 1, 0) = <<>>  BY SubSeqEmpty
  <2> QED  BY <2>1, <2>2, <2>3
<1>11. n - 0 = n /\ ~(n < 0)  OBVIOUS
<1>12. Q \notin {EQ, MINUS} /\ 1 # 2 + l /\ 1 \notin {0, 2 + l}  BY QualifyAssumption
<1>13. NoneOf(work, {DOT, BR}) <=> Range(work) \cap {DOT, BR} = {}  BY NoneOfRange
<1>14. Applied(work, rule) =
         IF Range(work) \cap {DOT, BR} # {} THEN work ELSE work \o rest
  <2> DEFINE before == SubSeq(work, 1, n - 0)
  <2>1. before = work /\ Drop(work, n - 0) = SubSeq(t, 1, 0)  BY <1>10, <1>11
  <2>2. Applied(work, rule) =
          IF \/ rule[1] \notin {Q, EQ, STAR, MINUS}
             \/ n - 0 < 0
             \/ rule[1] = EQ /\ n - 0 > 0
             \/ Drop(work, n - 0) # SubSeq(t, 1, 0)
             \/ rule[1] = Q /\ Range(before) \cap {DOT, BR} # {}
          THEN work
          ELSE (IF rule[1] = MINUS THEN <<>> ELSE before) \o Drop(t, 0 + 1)
    BY <1>1, <1>4, <1>6, <1>7, <1>8, <1>12 DEF Applied
  <2> HIDE DEF before
  <2> QED  BY <1>5, <1>9, <1>11, <1>12, <2>1, <2>2
<1> QED  BY <1>4, <1>13, <1>14

\* The rule *.: takes a dot off the end.
LEMMA DotApplied ==
  ASSUME NEW work \in Seq(NameTokens), work # <<>>
  PROVE  Applied(work, LastDot) = Undotted(work)
<1>1. PICK n \in Nat \ {0} : n = Len(work)  BY EmptySeq
<1>2. PICK rule \in Seq(NameTokens) : /\ rule = <<STAR, DOT, COLON>> /\ Len(rule) = 3
                                  /\ rule[1] = STAR /\ rule[2] = DOT /\ rule[3] = COLON
  <2>1. STAR \in NameTokens /\ DOT \in NameTokens /\ COLON \in NameTokens  BY DEF NameTokens
  <2> QED  BY <2>1, ThreeElements
<1>3. rule # <<>>  BY <1>2, EmptySeq
<1>4. /\ STAR \notin {Q, EQ, MINUS, COLON} /\ DOT # COLON
  BY QualifyAssumption
<1>5. Upto(rule, COLON) = 2
  <2>1. 2 \in 0 .. Len(rule) /\ rule[2 + 1] = COLON  BY <1>2
  <2>2. \A e \in 1 .. 2 : e = 1 \/ e = 2  OBVIOUS
  <2>3. \A e \in 1 .. 2 : rule[e] # COLON  BY <1>2, <1>4, <2>2
  <2>4. IsUpto(2, rule, COLON)  BY <2>1, <2>3 DEF IsUpto
  <2> QED  BY <2>4, UptoIs
<1>6. PICK t \in Seq(NameTokens) : t = Tail(rule) /\ Len(t) = 2 /\ t[1] = DOT /\ t[2] = COLON
  <2>1. Tail(rule) \in Seq(NameTokens) /\ Len(Tail(rule)) = 3 - 1  BY <1>2, <1>3, HeadTailProperties
  <2>2. \A k \in 1 .. Len(Tail(rule)) : Tail(rule)[k] = rule[k + 1]  BY <1>3, HeadTailProperties
  <2>3. 3 - 1 = 2 /\ 1 \in 1 .. 2 /\ 2 \in 1 .. 2 /\ 1 + 1 = 2 /\ 2 + 1 = 3  OBVIOUS
  <2> QED  BY <1>2, <2>1, <2>2, <2>3
<1>7. Upto(t, COLON) = 1
  <2>0. 1 \in 0 .. 2 /\ 1 + 1 = 2  OBVIOUS
  <2>1. 1 \in 0 .. Len(t) /\ t[1 + 1] = COLON  BY <1>6, <2>0, Zenon
  <2>2. \A e \in 1 .. 1 : e = 1  OBVIOUS
  <2>3. \A e \in 1 .. 1 : t[e] # COLON  BY <1>4, <1>6, <2>2
  <2>4. IsUpto(1, t, COLON)  BY <2>1, <2>3 DEF IsUpto
  <2> QED  BY <2>4, UptoIs
<1>8. Drop(t, 1 + 1) = <<>>
  <2>1. Len(t) \in Int /\ 1 + 1 + 1 \in Int /\ Len(t) < 1 + 1 + 1  BY <1>6
  <2> QED  BY <2>1, SubSeqEmpty DEF Drop
<1>9. SubSeq(t, 1, 1) = <<DOT>>
  <2>0. 1 \in 1 .. 2  OBVIOUS
  <2>1. 1 \in 1 .. Len(t)  BY <1>6, <2>0, Zenon
  <2> QED  BY <1>6, <2>1, PartOfOne
<1>10. PICK m \in Nat : m = n - 1 /\ m + 1 = n  BY <1>1
<1>11. Drop(work, m) = <<work[n]>>
  <2>1. n \in 1 .. Len(work)  BY <1>1
  <2>2. SubSeq(work, n, n) = <<work[n]>>  BY <2>1, PartOfOne
  <2> QED  BY <1>1, <1>10, <2>2 DEF Drop
<1>12. SubSeq(work, 1, m) \o <<>> = SubSeq(work, 1, m)
  <2>1. m <= Len(work)  BY <1>1, <1>10
  <2>2. SubSeq(work, 1, m) \in Seq(NameTokens)  BY <2>1, BeginType
  <2> QED  BY <2>2, ConcatEmptySeq
<1>13. <<work[n]>> = <<DOT>> <=> work[n] = DOT  OBVIOUS
<1>14. Applied(work, rule) =
         IF <<work[n]>> # <<DOT>> THEN work ELSE SubSeq(work, 1, m)
  <2> DEFINE before == SubSeq(work, 1, m)
  <2>1. 2 \notin {0, 3} /\ ~(m < 0)  BY <1>10
  <2>2. Applied(work, rule) =
          IF \/ rule[1] \notin {Q, EQ, STAR, MINUS}
             \/ m < 0
             \/ rule[1] = EQ /\ m > 0
             \/ Drop(work, m) # SubSeq(t, 1, 1)
             \/ rule[1] = Q /\ Range(before) \cap {DOT, BR} # {}
          THEN work
          ELSE (IF rule[1] = MINUS THEN <<>> ELSE before) \o Drop(t, 1 + 1)
    BY <1>1, <1>2, <1>3, <1>5, <1>6, <1>7, <1>10, <2>1 DEF Applied
  <2>3. before \o Drop(t, 1 + 1) = before  BY <1>8, <1>12
  <2> HIDE DEF before
  <2> QED  BY <1>2, <1>4, <1>9, <1>11, <2>1, <2>2, <2>3 DEF before
<1>15. Undotted(work) = IF work[n] = DOT THEN SubSeq(work, 1, m) ELSE work
  BY <1>1, <1>10 DEF Undotted
<1> QED  BY <1>2, <1>13, <1>14, <1>15 DEF LastDot

-----------------------------------------------------------------------------
(***************************************************************************)
(* The rules that are built                                                *)
(***************************************************************************)
\* a domain with its plus sign and its dot
Dotted(w) == <<DOT>> \o w
Added(w) == <<PLUS>> \o Dotted(w)

LEMMA AddedType ==
  ASSUME NEW w \in Seq(NameTokens)
  PROVE  Dotted(w) \in Seq(NameTokens) /\ Added(w) \in Seq(NameTokens) /\ Dotted(w) # <<>>
<1>1. DOT \in NameTokens /\ PLUS \in NameTokens  BY DEF NameTokens
<1>2. Dotted(w) \in Seq(NameTokens) /\ Dotted(w) # <<>>  BY <1>1, InFront DEF Dotted
<1>3. Added(w) \in Seq(NameTokens)  BY <1>1, <1>2, InFront DEF Added
<1> QED  BY <1>2, <1>3

\* r[k] are the first k domains with their plus signs
AddsOf(r, pieces) ==
  /\ r \in [0 .. Len(pieces) -> Seq(NameTokens)] /\ r[0] = <<>>
  /\ \A k \in 1 .. Len(pieces) : r[k] = r[k - 1] \o Added(pieces[k])

LEMMA AddEachIs ==
  ASSUME NEW pieces \in Seq(Seq(NameTokens))
  PROVE  \E r : AddsOf(r, pieces) /\ AddEach(pieces) = <<Q, COLON>> \o r[Len(pieces)]
<1>1. PICK n \in Nat : n = Len(pieces)  BY LenProperties
<1> DEFINE S == Seq(NameTokens)
           turn == [a \in S \X (1 .. n) |-> a[1] \o Added(pieces[a[2]])]
           Is(f) == f = [k \in 0 .. n |->
                           IF k = 0 THEN <<Q, COLON>> ELSE f[k - 1] \o <<PLUS, DOT>> \o pieces[k]]
           v == CHOOSE f : Is(f)
<1>2. \A k \in 1 .. n : pieces[k] \in S  BY <1>1, ElementOfSeq
<1>3. turn \in [S \X (1 .. n) -> S]
  <2>1. ASSUME NEW a \in S \X (1 .. n) PROVE a[1] \o Added(pieces[a[2]]) \in S
    <3>1. a[1] \in S /\ pieces[a[2]] \in S  BY <1>2
    <3> QED  BY <3>1, AddedType, ConcatProperties
  <2> QED  BY <2>1
<1>4. PICK r : Turns(r, n, <<>>, turn, S)
  <2>1. <<>> \in S  BY EmptySeq
  <2> HIDE DEF turn, S
  <2> QED  BY <1>3, <2>1, TurnsExist
<1>5. /\ r \in [0 .. n -> S] /\ r[0] = <<>>
      /\ \A k \in 1 .. n : r[k] = turn[<<r[k - 1], k>>]
  <2> HIDE DEF turn, S
  <2> QED  BY <1>4 DEF Turns
<1>6. ASSUME NEW k \in 1 .. n PROVE r[k] = r[k - 1] \o Added(pieces[k]) /\ r[k - 1] \in S
  <2>1. k - 1 \in 0 .. n  OBVIOUS
  <2>2. r[k - 1] \in S /\ <<r[k - 1], k>> \in S \X (1 .. n)  BY <1>5, <2>1
  <2> QED  BY <1>5, <2>2
<1> HIDE DEF turn
<1>7. AddsOf(r, pieces)  BY <1>1, <1>5, <1>6 DEF AddsOf
<1>8. PICK qc \in S : qc = <<Q, COLON>>
  <2>1. Q \in NameTokens /\ COLON \in NameTokens  BY DEF NameTokens
  <2> QED  BY <2>1, TwoElements
<1> DEFINE g == [k \in 0 .. n |-> qc \o r[k]]
<1>9. ASSUME NEW k \in 1 .. n PROVE g[k] = g[k - 1] \o <<PLUS, DOT>> \o pieces[k]
  <2>1. k - 1 \in 0 .. n /\ k \in 0 .. n  OBVIOUS
  <2>2. PICK a \in S : a = r[k - 1]  BY <1>6
  <2>3. PICK w \in S : w = pieces[k]  BY <1>2
  <2>4. PICK pd \in S : pd = <<PLUS, DOT>> /\ Added(w) = pd \o w
    <3>1. PLUS \in NameTokens /\ DOT \in NameTokens  BY DEF NameTokens
    <3>2. PICK pd \in S : pd = <<PLUS, DOT>> /\ Len(pd) = 2 /\ pd[1] = PLUS /\ pd[2] = DOT  BY <3>1, TwoElements
    <3>3. PICK p \in S : p = <<PLUS>> /\ Len(p) = 1 /\ p[1] = PLUS  BY <3>1, OneElement
    <3>4. PICK d \in S : d = <<DOT>> /\ Len(d) = 1 /\ d[1] = DOT  BY <3>1, OneElement
    <3>5. pd = p \o d  BY <3>2, <3>3, <3>4
    <3>6. (p \o d) \o w = p \o (d \o w)
      <4>1. Regroups(p, d, w)  BY Regrouped
      <4> QED  BY <4>1 DEF Regroups
    <3> QED  BY <3>2, <3>3, <3>4, <3>5, <3>6 DEF Added, Dotted
  <2>5. qc \o (a \o (pd \o w)) = ((qc \o a) \o pd) \o w
    <3>1. PICK y \in Seq(NameTokens), x \in Seq(NameTokens) : y = pd \o w /\ x = qc \o a  BY ConcatProperties
    <3>2. Regroups(qc, a, y) /\ Regroups(x, pd, w)  BY Regrouped
    <3> QED  BY <3>1, <3>2 DEF Regroups
  <2>6. g[k] = qc \o r[k] /\ g[k - 1] = qc \o r[k - 1]  BY <2>1
  <2>7. r[k] = a \o (pd \o w)  BY <1>6, <2>2, <2>3, <2>4
  <2> HIDE DEF g
  <2> QED  BY <2>2, <2>3, <2>4, <2>5, <2>6, <2>7
<1>10. g[0] = <<Q, COLON>>
  <2>1. qc \o <<>> = qc  BY ConcatEmptySeq
  <2>2. 0 \in 0 .. n  OBVIOUS
  <2> QED  BY <1>5, <1>8, <2>1, <2>2
<1>11. Is(g)
  <2>1. PICK gg : gg = g  OBVIOUS
  <2>2. gg = [k \in 0 .. n |-> qc \o r[k]]  BY <2>1
  <2>3. ASSUME NEW k \in 0 .. n
        PROVE  qc \o r[k] = IF k = 0 THEN <<Q, COLON>> ELSE gg[k - 1] \o <<PLUS, DOT>> \o pieces[k]
    <3>1. k # 0 => k \in 1 .. n  OBVIOUS
    <3>2. g[k] = qc \o r[k]  OBVIOUS
    <3> HIDE DEF g
    <3> QED  BY <1>9, <1>10, <2>1, <3>1, <3>2
  <2> HIDE DEF g
  <2>4. gg = [k \in 0 .. n |-> IF k = 0 THEN <<Q, COLON>> ELSE gg[k - 1] \o <<PLUS, DOT>> \o pieces[k]]
    BY <2>2, <2>3
  <2> QED  BY <2>1, <2>4
<1>12. g[n] = <<Q, COLON>> \o r[n]
  <2>1. n \in 0 .. n  OBVIOUS
  <2> QED  BY <1>8, <2>1
<1> HIDE DEF g
<1>13. PICK f : f = v /\ Is(f)
  <2> HIDE DEF Is
  <2> QED  BY <1>11
<1>14. Alike(f, g, n)
  <2>1. ASSUME NEW k \in 0 .. n
        PROVE  f[k] = IF k = 0 THEN <<Q, COLON>> ELSE f[k - 1] \o <<PLUS, DOT>> \o pieces[k]
    BY <1>13
  <2>2. 0 \in 0 .. n /\ \A k \in 1 .. n : k \in 0 .. n /\ k # 0  OBVIOUS
  <2>3. f[0] = <<Q, COLON>>  BY <2>1, <2>2
  <2>4. \A k \in 1 .. n : f[k] = f[k - 1] \o <<PLUS, DOT>> \o pieces[k]  BY <2>1, <2>2
  <2> QED  BY <1>9, <1>10, <2>3, <2>4 DEF Alike
<1>15. f[n] = g[n]
  <2>1. n \in 0 .. n  OBVIOUS
  <2> QED  BY <1>14, <2>1, SameTurns
<1>16. AddEach(pieces) = v[n]  BY <1>1 DEF AddEach
<1> HIDE DEF Is, v
<1> QED  BY <1>1, <1>7, <1>12, <1>13, <1>15, <1>16

LEMMA AddEachType ==
  ASSUME NEW pieces \in Seq(Seq(NameTokens))
  PROVE  AddEach(pieces) \in Seq(NameTokens)
<1>1. PICK r : AddsOf(r, pieces) /\ AddEach(pieces) = <<Q, COLON>> \o r[Len(pieces)]  BY AddEachIs
<1>2. Len(pieces) \in 0 .. Len(pieces)  BY LenProperties
<1>3. r[Len(pieces)] \in Seq(NameTokens)  BY <1>1, <1>2 DEF AddsOf
<1>4. Q \in NameTokens /\ COLON \in NameTokens  BY DEF NameTokens
<1>5. <<Q, COLON>> \in Seq(NameTokens)  BY <1>4, TwoElements
<1> QED  BY <1>1, <1>3, <1>5, ConcatProperties

\* The pieces with something in them are pieces.
LEMMA FilledType ==
  ASSUME NEW S, NEW pieces \in Seq(S)
  PROVE  NonEmpty(pieces) \in Seq(S)
<1>1. PICK n \in Nat : n = Len(pieces)  BY LenProperties
<1> DEFINE turn == [a \in Seq(S) \X (1 .. n) |->
                      IF pieces[a[2]] = <<>> THEN a[1] ELSE Append(a[1], pieces[a[2]])]
           Is(f) == f = [k \in 0 .. n |->
                           IF k = 0 THEN <<>> ELSE IF pieces[k] = <<>> THEN f[k - 1]
                           ELSE Append(f[k - 1], pieces[k])]
           v == CHOOSE f : Is(f)
<1>2. \A k \in 1 .. n : pieces[k] \in S  BY <1>1, ElementOfSeq
<1>3. turn \in [Seq(S) \X (1 .. n) -> Seq(S)]
  <2>1. ASSUME NEW a \in Seq(S) \X (1 .. n)
        PROVE  (IF pieces[a[2]] = <<>> THEN a[1] ELSE Append(a[1], pieces[a[2]])) \in Seq(S)
    <3>1. a[1] \in Seq(S) /\ pieces[a[2]] \in S  BY <1>2
    <3> QED  BY <3>1, AppendProperties
  <2> QED  BY <2>1
<1>4. PICK g : Turns(g, n, <<>>, turn, Seq(S))
  <2>1. <<>> \in Seq(S)  BY EmptySeq
  <2> HIDE DEF turn
  <2> QED  BY <1>3, <2>1, TurnsExist
<1>5. /\ g \in [0 .. n -> Seq(S)] /\ g[0] = <<>>
      /\ \A k \in 1 .. n : g[k] = turn[<<g[k - 1], k>>]
  <2> HIDE DEF turn
  <2> QED  BY <1>4 DEF Turns
<1>6. ASSUME NEW k \in 1 .. n
      PROVE  g[k] = IF pieces[k] = <<>> THEN g[k - 1] ELSE Append(g[k - 1], pieces[k])
  <2>1. k - 1 \in 0 .. n  OBVIOUS
  <2>2. <<g[k - 1], k>> \in Seq(S) \X (1 .. n)  BY <1>5, <2>1
  <2> QED  BY <1>5, <2>2
<1> HIDE DEF turn
<1>7. Is(g)
  <2>1. ASSUME NEW k \in 0 .. n
        PROVE  g[k] = IF k = 0 THEN <<>> ELSE IF pieces[k] = <<>> THEN g[k - 1]
                      ELSE Append(g[k - 1], pieces[k])
    <3>1. k # 0 => k \in 1 .. n  OBVIOUS
    <3> QED  BY <1>5, <1>6, <3>1
  <2> QED  BY <1>5, <2>1
<1>8. PICK f : f = v /\ Is(f)
  <2> HIDE DEF Is
  <2> QED  BY <1>7
<1>9. Alike(f, g, n)
  <2>1. ASSUME NEW k \in 0 .. n
        PROVE  f[k] = IF k = 0 THEN <<>> ELSE IF pieces[k] = <<>> THEN f[k - 1]
                      ELSE Append(f[k - 1], pieces[k])
    BY <1>8
  <2>2. 0 \in 0 .. n /\ \A k \in 1 .. n : k \in 0 .. n /\ k # 0  OBVIOUS
  <2>3. f[0] = <<>>  BY <2>1, <2>2
  <2>4. \A k \in 1 .. n : f[k] = IF pieces[k] = <<>> THEN f[k - 1] ELSE Append(f[k - 1], pieces[k])
    BY <2>1, <2>2
  <2> QED  BY <1>5, <1>6, <2>3, <2>4 DEF Alike
<1>10. n \in 0 .. n /\ f[n] = g[n]
  <2>1. n \in 0 .. n  OBVIOUS
  <2> QED  BY <1>9, <2>1, SameTurns
<1>11. NonEmpty(pieces) = v[n]  BY <1>1 DEF NonEmpty
<1> HIDE DEF Is, v
<1> QED  BY <1>5, <1>8, <1>10, <1>11

\* the sources from which rules are built
Readable(source) ==
  /\ source \in RuleFiles \X Locals \X ResolvFiles \X Hosts
  /\ source[1] # Unread
  /\ source[1] = None /\ source[2] = None => source[3] # Unread

\* The end of a rule is found.
LEMMA TrimmedType ==
  ASSUME NEW line \in Seq(NameTokens)
  PROVE  Trimmed(line) \in Seq(NameTokens)
<1>1. PICK l \in Nat : l = Len(line)  BY LenProperties
<1> DEFINE Fits(n) == (n = 0 \/ line[n] # BLANK) /\ \A m \in n + 1 .. l : line[m] = BLANK
           T == {k \in 0 .. l : \A m \in k + 1 .. l : line[m] = BLANK}
           last == CHOOSE n \in 0 .. l : Fits(n)
<1>2. PICK k \in T : \A j \in T : k <= j
  <2>1. T \in SUBSET Nat /\ l \in T  OBVIOUS
  <2> HIDE DEF T
  <2> QED  BY <2>1, LeastNat
<1>3. k \in 0 .. l /\ \A m \in k + 1 .. l : line[m] = BLANK  OBVIOUS
<1>4. k = 0 \/ line[k] # BLANK
  <2> SUFFICES ASSUME k # 0, line[k] = BLANK PROVE FALSE  OBVIOUS
  <2>1. k - 1 \in 0 .. l /\ ~(k <= k - 1)  BY <1>3
  <2>2. \A m \in k - 1 + 1 .. l : m = k \/ m \in k + 1 .. l  BY <1>3
  <2>3. \A m \in k - 1 + 1 .. l : line[m] = BLANK  BY <1>3, <2>2
  <2>4. k - 1 \in T  BY <2>1, <2>3
  <2> QED  BY <1>2, <2>1, <2>4
<1> HIDE DEF T
<1>5. Fits(k)  BY <1>3, <1>4
<1> HIDE DEF Fits
<1>6. last \in 0 .. l
  <2>1. \E n \in 0 .. l : Fits(n)  BY <1>3, <1>5
  <2> QED  BY <2>1
<1>7. Trimmed(line) = SubSeq(line, 1, last)  BY <1>1 DEF Trimmed, Fits
<1> HIDE DEF last
<1>8. last \in Nat /\ last <= Len(line)  BY <1>1, <1>6
<1> QED  BY <1>7, <1>8, BeginType

\* The first search line is one of the lines.
LEMMA FirstSearchIs ==
  ASSUME NEW lines \in Seq(Seq(NameTokens)), Searches(lines) # {}
  PROVE  FirstSearch(lines) \in Seq(NameTokens) /\ Domains(FirstSearch(lines)) \in Seq(Seq(NameTokens))
<1>1. Searches(lines) \in SUBSET (1 .. Len(lines)) /\ Len(lines) \in Nat  BY LenProperties DEF Searches
<1>2. PICK l \in Searches(lines) : \A m \in Searches(lines) : l <= m
  <2>1. Searches(lines) \in SUBSET Nat  BY <1>1
  <2> QED  BY <2>1, LeastNat
<1> DEFINE first == CHOOSE n \in Searches(lines) : \A m \in Searches(lines) : n <= m
<1>3. first \in Searches(lines)  BY <1>2
<1>4. FirstSearch(lines) = lines[first]  BY DEF FirstSearch
<1> HIDE DEF first
<1>5. PICK line \in Seq(NameTokens) : line = FirstSearch(lines)
  <2>1. first \in 1 .. Len(lines)  BY <1>1, <1>3
  <2> QED  BY <1>4, <2>1, ElementOfSeq
<1>6. Drop(line, 2) \in Seq(NameTokens)
  <2>1. 2 \in Nat  OBVIOUS
  <2> QED  BY <2>1, DropType
<1>7. Pieces(Drop(line, 2), BLANK) \in Seq(Seq(NameTokens))  BY <1>6, PiecesType DEF Lists
<1>8. NonEmpty(Pieces(Drop(line, 2), BLANK)) \in Seq(Seq(NameTokens))  BY <1>7, FilledType
<1> QED  BY <1>5, <1>8 DEF Domains

LEMMA LastDotType == LastDot \in Seq(NameTokens)
<1>1. STAR \in NameTokens /\ DOT \in NameTokens /\ COLON \in NameTokens  BY DEF NameTokens
<1> QED  BY <1>1, ThreeElements DEF LastDot

\* Rules are built from any source.
LEMMA RulesType ==
  ASSUME NEW source, Readable(source)
  PROVE  RulesOf(source) \in Seq(Seq(NameTokens))
<1> DEFINE S == Seq(NameTokens)
<1>1. source[1] \in RuleFiles /\ source[2] \in Locals /\ source[3] \in ResolvFiles /\ source[4] \in Hosts
  BY DEF Readable
<1>2. LastDot \in S /\ <<>> \in S  BY LastDotType, EmptySeq
<1>3. CASE source[1] # None
  <2>1. PICK lines \in Seq(S) : lines = source[1]
    <3>1. source[1] # Unread  BY DEF Readable
    <3> QED  BY <1>1, <1>3, <3>1, QualifyAssumption
  <2>2. PICK n \in Nat : n = Len(lines)  BY LenProperties
  <2>3. DOMAIN lines = 1 .. n /\ \A l \in 1 .. n : lines[l] \in S  BY <2>2, LenProperties, ElementOfSeq
  <2> DEFINE t == [l \in DOMAIN lines |-> Trimmed(lines[l])]
  <2>4. t \in [1 .. n -> S]
    <3>1. \A l \in 1 .. n : Trimmed(lines[l]) \in S  BY <2>3, TrimmedType
    <3> QED  BY <2>3, <3>1
  <2>5. FromFile(lines) = t \o <<<<>>>>  BY DEF FromFile
  <2> HIDE DEF t
  <2>6. t \in Seq(S)  BY <2>4, MadeSeq
  <2>7. <<<<>>>> \in Seq(S)  BY <1>2, OneElement
  <2>8. t \o <<<<>>>> \in Seq(S)  BY <2>6, <2>7, ConcatProperties
  <2> QED  BY <1>3, <2>1, <2>5, <2>8 DEF RulesOf
<1>4. CASE source[1] = None /\ source[2] # None
  <2>1. source[2] \in S  BY <1>1, <1>4, QualifyAssumption
  <2>2. Pieces(source[2], BLANK) \in Seq(S)  BY <2>1, PiecesType DEF Lists
  <2>3. AddEach(Pieces(source[2], BLANK)) \in S  BY <2>2, AddEachType
  <2>4. FromLocal(source[2]) \in Seq(S)  BY <1>2, <2>3, TwoElements DEF FromLocal
  <2> QED  BY <1>4, <2>4 DEF RulesOf
<1>5. CASE source[1] = None /\ source[2] = None /\ source[3] # None /\ Searches(source[3]) # {}
  <2>1. source[3] \in Seq(S)  BY <1>1, <1>5, QualifyAssumption DEF Readable
  <2>2. Domains(FirstSearch(source[3])) \in Seq(S)  BY <1>5, <2>1, FirstSearchIs
  <2>3. AddEach(Domains(FirstSearch(source[3]))) \in S  BY <2>2, AddEachType
  <2>4. FromSearch(FirstSearch(source[3])) \in Seq(S)  BY <1>2, <2>3, TwoElements DEF FromSearch
  <2> QED  BY <1>5, <2>4 DEF RulesOf
<1>6. CASE source[1] = None /\ source[2] = None /\ ~(source[3] # None /\ Searches(source[3]) # {})
  <2>1. PICK name \in S : name = source[4]  BY <1>1, QualifyAssumption
  <2>2. RulesOf(source) = FromHost(name)  BY <1>6, <2>1 DEF RulesOf
  <2>3. Drop(name, Upto(name, DOT)) \in S
    <3>1. Upto(name, DOT) \in Nat  BY UptoFinds
    <3> QED  BY <3>1, DropType
  <2>4. PICK qc \in S : qc = <<Q, COLON>>
    <3>1. Q \in NameTokens /\ COLON \in NameTokens  BY DEF NameTokens
    <3> QED  BY <3>1, TwoElements
  <2>5. <<Q, COLON>> \o Drop(name, Upto(name, DOT)) \in S  BY <2>3, <2>4, ConcatProperties
  <2>6. <<<<Q, COLON>> \o Drop(name, Upto(name, DOT)), LastDot>> \in Seq(S) /\ <<LastDot>> \in Seq(S)
    BY <1>2, <2>5, OneElement, TwoElements
  <2> QED  BY <2>2, <2>6 DEF FromHost
<1> QED  BY <1>3, <1>4, <1>5, <1>6

\* q[k] is the name after the first k rules
LEMMA QualifiedIs ==
  ASSUME NEW name \in Seq(NameTokens), NEW rs \in Seq(Seq(NameTokens))
  PROVE  \E q \in [0 .. Len(rs) -> Seq(NameTokens)] :
           /\ q[0] = name /\ Qualified(name, rs) = q[Len(rs)]
           /\ \A k \in 1 .. Len(rs) : q[k] = Applied(q[k - 1], rs[k])
<1>1. PICK n \in Nat : n = Len(rs)  BY LenProperties
<1> DEFINE S == Seq(NameTokens)
           turn == [a \in S \X (1 .. n) |-> Applied(a[1], rs[a[2]])]
           Is(f) == f = [k \in 0 .. n |-> IF k = 0 THEN name ELSE Applied(f[k - 1], rs[k])]
           v == CHOOSE f : Is(f)
<1>2. \A k \in 1 .. n : rs[k] \in S  BY <1>1, ElementOfSeq
<1>3. turn \in [S \X (1 .. n) -> S]
  <2>1. ASSUME NEW a \in S \X (1 .. n) PROVE Applied(a[1], rs[a[2]]) \in S
    <3>1. a[1] \in S /\ rs[a[2]] \in S  BY <1>2
    <3> QED  BY <3>1, AppliedType
  <2> QED  BY <2>1
<1>4. PICK g : Turns(g, n, name, turn, S)
  <2> HIDE DEF turn, S
  <2>1. name \in S  BY DEF S
  <2> QED  BY <1>3, <2>1, TurnsExist
<1>5. /\ g \in [0 .. n -> S] /\ g[0] = name
      /\ \A k \in 1 .. n : g[k] = turn[<<g[k - 1], k>>]
  <2> HIDE DEF turn, S
  <2> QED  BY <1>4 DEF Turns
<1>6. ASSUME NEW k \in 1 .. n PROVE g[k] = Applied(g[k - 1], rs[k])
  <2>1. k - 1 \in 0 .. n  OBVIOUS
  <2>2. <<g[k - 1], k>> \in S \X (1 .. n)  BY <1>5, <2>1
  <2> QED  BY <1>5, <2>2
<1> HIDE DEF turn
<1>7. Is(g)
  <2>1. ASSUME NEW k \in 0 .. n PROVE g[k] = IF k = 0 THEN name ELSE Applied(g[k - 1], rs[k])
    <3>1. k # 0 => k \in 1 .. n  OBVIOUS
    <3> QED  BY <1>5, <1>6, <3>1
  <2> QED  BY <1>5, <2>1
<1>8. PICK f : f = v /\ Is(f)
  <2> HIDE DEF Is
  <2> QED  BY <1>7
<1>9. Alike(f, g, n)
  <2>1. ASSUME NEW k \in 0 .. n PROVE f[k] = IF k = 0 THEN name ELSE Applied(f[k - 1], rs[k])
    BY <1>8
  <2>2. 0 \in 0 .. n /\ \A k \in 1 .. n : k \in 0 .. n /\ k # 0  OBVIOUS
  <2>3. f[0] = name  BY <2>1, <2>2
  <2>4. \A k \in 1 .. n : f[k] = Applied(f[k - 1], rs[k])  BY <2>1, <2>2
  <2> QED  BY <1>5, <1>6, <2>3, <2>4 DEF Alike
<1>10. f[n] = g[n]
  <2>1. n \in 0 .. n  OBVIOUS
  <2> QED  BY <1>9, <2>1, SameTurns
<1>11. Qualified(name, rs) = v[n]  BY <1>1 DEF Qualified
<1> HIDE DEF Is, v
<1> QED  BY <1>1, <1>5, <1>6, <1>8, <1>10, <1>11

\* two rules, one after the other
LEMMA QualifiedByTwo ==
  ASSUME NEW name \in Seq(NameTokens), NEW a \in Seq(NameTokens), NEW b \in Seq(NameTokens)
  PROVE  Qualified(name, <<a, b>>) = Applied(Applied(name, a), b)
<1>1. PICK rs \in Seq(Seq(NameTokens)) : rs = <<a, b>> /\ Len(rs) = 2 /\ rs[1] = a /\ rs[2] = b  BY TwoElements
<1>0. PICK q \in [0 .. Len(rs) -> Seq(NameTokens)] :
        /\ q[0] = name /\ Qualified(name, rs) = q[Len(rs)]
        /\ \A k \in 1 .. Len(rs) : q[k] = Applied(q[k - 1], rs[k])
  BY QualifiedIs
<1>2. /\ q[0] = name /\ Qualified(name, rs) = q[2]
      /\ \A k \in 1 .. 2 : q[k] = Applied(q[k - 1], rs[k])
  BY <1>0, <1>1
<1>3. 1 \in 1 .. 2 /\ 2 \in 1 .. 2 /\ 1 - 1 = 0 /\ 2 - 1 = 1  OBVIOUS
<1>4. q[1] = Applied(name, a) /\ q[2] = Applied(q[1], b)  BY <1>1, <1>2, <1>3
<1> QED  BY <1>1, <1>2, <1>4

LEMMA QualifiedType ==
  ASSUME NEW name \in Seq(NameTokens), NEW rs \in Seq(Seq(NameTokens))
  PROVE  Qualified(name, rs) \in Seq(NameTokens)
<1>1. PICK q \in [0 .. Len(rs) -> Seq(NameTokens)] : Qualified(name, rs) = q[Len(rs)]  BY QualifiedIs
<1>2. Len(rs) \in 0 .. Len(rs)  BY LenProperties
<1> QED  BY <1>1, <1>2

-----------------------------------------------------------------------------
(***************************************************************************)
(* Names as they are configured                                            *)
(***************************************************************************)
LEMMA UndottedType ==
  ASSUME NEW s \in Seq(NameTokens), s # <<>>
  PROVE  Undotted(s) \in Seq(NameTokens)
<1>1. PICK n \in Nat \ {0} : n = Len(s)  BY EmptySeq
<1>2. PICK m \in Nat : m = n - 1 /\ m <= n  BY <1>1
<1>3. SubSeq(s, 1, m) \in Seq(NameTokens)  BY <1>1, <1>2, BeginType
<1> QED  BY <1>1, <1>2, <1>3 DEF Undotted

\* The dot is taken off the last part.
LEMMA UndottedEnd ==
  ASSUME NEW x \in Seq(NameTokens), NEW d \in Seq(NameTokens), d # <<>>
  PROVE  x \o d # <<>> /\ Undotted(x \o d) = x \o Undotted(d)
<1>1. PICK l \in Nat : l = Len(x)  BY LenProperties
<1>2. PICK n \in Nat \ {0} : n = Len(d)  BY EmptySeq
<1>3. PICK u \in Seq(NameTokens) : IsJoint(u, x, l, d, n)  BY <1>1, <1>2, JointOf
<1>4. u = x \o d /\ Len(u) = l + n /\ (\A k \in 1 .. l : u[k] = x[k]) /\ \A k \in 1 .. n : u[l + k] = d[k]
  BY <1>3 DEF IsJoint
<1>5. u # <<>>  BY <1>2, <1>4, EmptySeq
<1>0. PICK m \in Nat : m = n - 1
  <2>1. n - 1 \in Nat  OBVIOUS
  <2> QED  BY <2>1
<1>6. m = n - 1 /\ m <= n /\ l + m = l + n - 1 /\ l + m <= l + n  BY <1>0
<1>7. u[l + n] = d[n]
  <2>1. n \in 1 .. n  OBVIOUS
  <2> QED  BY <1>4, <2>1
<1>8. SubSeq(u, 1, l + m) = x \o SubSeq(d, 1, m)
  <2>1. PICK lm \in Nat : lm = l + m /\ lm <= Len(u)  BY <1>4, <1>6
  <2>2. PICK a \in Seq(NameTokens) : IsPart(a, u, 1, lm)
    <3>1. PICK one \in Nat \ {0} : one = 1  OBVIOUS
    <3>2. one <= lm + 1  BY <3>1
    <3>3. PICK a \in Seq(NameTokens) : IsPart(a, u, one, lm)  BY <2>1, <3>2, PartOf
    <3> QED  BY <3>1, <3>3
  <2>3. PICK b \in Seq(NameTokens) : IsPart(b, d, 1, m)
    <3>1. PICK one \in Nat \ {0} : one = 1  OBVIOUS
    <3>2. one <= m + 1 /\ m <= Len(d)  BY <1>2, <1>6, <3>1
    <3>3. PICK b \in Seq(NameTokens) : IsPart(b, d, one, m)  BY <3>2, PartOf
    <3> QED  BY <3>1, <3>3
  <2>4. a = SubSeq(u, 1, l + m) /\ Len(a) = l + m /\ \A k \in 1 .. l + m : a[k] = u[k]
    <3>1. lm - 1 + 1 = lm /\ \A k \in 1 .. lm : k + (1 - 1) = k  OBVIOUS
    <3> QED  BY <2>1, <2>2, <3>1 DEF IsPart
  <2>5. b = SubSeq(d, 1, m) /\ Len(b) = m /\ \A k \in 1 .. m : b[k] = d[k]
    <3>1. m - 1 + 1 = m /\ \A k \in 1 .. m : k + (1 - 1) = k  OBVIOUS
    <3> QED  BY <2>3, <3>1 DEF IsPart
  <2>6. PICK z \in Seq(NameTokens) : IsJoint(z, x, l, b, m)  BY <1>1, <2>5, JointOf
  <2>7. z = x \o b /\ Len(z) = l + m /\ (\A k \in 1 .. l : z[k] = x[k]) /\ \A k \in 1 .. m : z[l + k] = b[k]
    BY <2>6 DEF IsJoint
  <2>8. ASSUME NEW k \in 1 .. l + m PROVE a[k] = z[k]
    <3>1. CASE k \in 1 .. l  BY <1>4, <2>4, <2>7, <3>1
    <3>2. CASE k > l
      <4>1. PICK j \in 1 .. m : k = l + j
        <5>1. k - l \in 1 .. m /\ k = l + (k - l)  BY <3>2
        <5> QED  BY <5>1
      <4>2. j \in 1 .. n  BY <1>6, <4>1
      <4> QED  BY <1>4, <2>4, <2>5, <2>7, <4>1, <4>2
    <3> QED  BY <3>1, <3>2
  <2>9. a = z
    <3>1. Len(a) = l + m /\ Len(z) = l + m  BY <2>4, <2>7
    <3> QED  BY <2>8, <3>1, SeqEqual
  <2> QED  BY <2>4, <2>5, <2>7, <2>9
<1>9. Undotted(u) = IF d[n] = DOT THEN SubSeq(u, 1, l + m) ELSE u
  BY <1>4, <1>6, <1>7 DEF Undotted
<1>10. Undotted(d) = IF d[n] = DOT THEN SubSeq(d, 1, m) ELSE d  BY <1>2, <1>6 DEF Undotted
<1> QED  BY <1>4, <1>5, <1>8, <1>9, <1>10

LEMMA NoneOfMore ==
  ASSUME NEW s \in Seq(NameTokens), NEW c, \A k \in 1 .. Len(s) : s[k] # c, c # DOT
  PROVE  /\ \A k \in 1 .. Len(Dotted(s)) : Dotted(s)[k] # c
         /\ \A k \in 1 .. Len(Undotted(Dotted(s))) : Undotted(Dotted(s))[k] # c
<1>1. PICK n \in Nat : n = Len(s)  BY LenProperties
<1>2. DOT \in NameTokens  BY DEF NameTokens
<1>3. PICK d \in Seq(NameTokens) : d = Dotted(s) /\ Len(d) = n + 1
                               /\ \A k \in 1 .. n + 1 : d[k] = IF k = 1 THEN DOT ELSE s[k - 1]
  <2>1. PICK d : d = <<DOT>> \o s  OBVIOUS
  <2>2. d \in Seq(NameTokens) /\ Len(d) = Len(s) + 1  BY <1>2, <2>1, InFront
  <2>3. \A k \in 1 .. Len(s) + 1 : (<<DOT>> \o s)[k] = IF k = 1 THEN DOT ELSE s[k - 1]  BY <1>2, InFront
  <2>4. \A k \in 1 .. n + 1 : d[k] = IF k = 1 THEN DOT ELSE s[k - 1]  BY <1>1, <2>1, <2>3
  <2> QED  BY <1>1, <2>1, <2>2, <2>4 DEF Dotted
<1>4. ASSUME NEW k \in 1 .. n + 1 PROVE d[k] # c
  <2>1. k # 1 => k - 1 \in 1 .. n  OBVIOUS
  <2> QED  BY <1>1, <1>3, <2>1
<1>5. n + 1 - 1 = n /\ n <= n + 1  OBVIOUS
<1>6. SubSeq(d, 1, n) \in Seq(NameTokens) /\ Len(SubSeq(d, 1, n)) = n
      /\ \A k \in 1 .. n : SubSeq(d, 1, n)[k] = d[k]
  <2>1. PICK one \in Nat \ {0} : one = 1  OBVIOUS
  <2>2. one <= n + 1 /\ n <= Len(d)  BY <1>3, <2>1
  <2>3. PICK t \in Seq(NameTokens) : IsPart(t, d, one, n)  BY <2>2, PartOf
  <2>4. n - 1 + 1 = n /\ \A k \in 1 .. n : k + (1 - 1) = k  OBVIOUS
  <2> QED  BY <2>1, <2>3, <2>4 DEF IsPart
<1>7. Undotted(d) = IF d[n + 1] = DOT THEN SubSeq(d, 1, n) ELSE d  BY <1>3, <1>5 DEF Undotted
<1>8. \A k \in 1 .. n : SubSeq(d, 1, n)[k] # c
  <2>1. \A k \in 1 .. n : k \in 1 .. n + 1  OBVIOUS
  <2> QED  BY <1>4, <1>6, <2>1
<1>9. Len(d) = n + 1 /\ Len(SubSeq(d, 1, n)) = n  BY <1>3, <1>6
<1>10. \A k \in 1 .. Len(Undotted(d)) : Undotted(d)[k] # c  BY <1>4, <1>7, <1>8, <1>9
<1> QED  BY <1>3, <1>4, <1>10

\* p are the pieces of a name with k domains, the last of which may be another one
PiecesWith(p, name, words, k, last) ==
  /\ p \in Seq(Seq(NameTokens)) /\ Len(p) = k + 1 /\ p[1] = name
  /\ \A w \in 1 .. k : p[w + 1] = IF w = k THEN last ELSE Dotted(words[w])

LEMMA OneMorePiece ==
  ASSUME NEW x \in Seq(NameTokens), NEW t \in Seq(NameTokens), \A j \in 1 .. Len(t) : t[j] # PLUS,
         NEW name, NEW words, NEW k \in Nat,
         PiecesWith(Pieces(x, PLUS), name, words, k, Dotted(words[k]))
  PROVE  PiecesWith(Pieces((x \o <<PLUS>>) \o t, PLUS), name, words, k + 1, t)
<1>1. PLUS \in NameTokens  BY DEF NameTokens
<1>2. PICK p \in Seq(Seq(NameTokens)) : p = Pieces(x, PLUS)  BY DEF PiecesWith
<1>3. Len(p) = k + 1 /\ p[1] = name /\ \A w \in 1 .. k : p[w + 1] = Dotted(words[w])
  BY <1>2 DEF PiecesWith
<1>4. Pieces((x \o <<PLUS>>) \o t, PLUS) = p \o <<t>>
  <2>1. Pieces((x \o <<PLUS>>) \o t, PLUS) = p \o Pieces(t, PLUS)  BY <1>1, <1>2, PiecesOfTwo
  <2>2. Pieces(t, PLUS) = <<t>>  BY PiecesOfOne
  <2> QED  BY <2>1, <2>2
<1>5. p \o <<t>> = Append(p, t)  BY AppendIsConcat
<1>6. PICK q \in Seq(Seq(NameTokens)) : IsAppend(q, p, k + 1, t)  BY <1>3, Appended
<1>7. q = Append(p, t) /\ Len(q) = k + 1 + 1 /\ q[k + 1 + 1] = t /\ \A j \in 1 .. k + 1 : q[j] = p[j]
  BY <1>6 DEF IsAppend
<1>8. q[1] = name
  <2>1. 1 \in 1 .. k + 1  OBVIOUS
  <2> QED  BY <1>3, <1>7, <2>1
<1>9. ASSUME NEW w \in 1 .. k + 1 PROVE q[w + 1] = IF w = k + 1 THEN t ELSE Dotted(words[w])
  <2>1. w # k + 1 => w \in 1 .. k /\ w + 1 \in 1 .. k + 1  OBVIOUS
  <2> QED  BY <1>3, <1>7, <2>1
<1> QED  BY <1>4, <1>5, <1>7, <1>8, <1>9 DEF PiecesWith

\* A name with all the domains: its pieces are the name and the domains, with the dot
\* at the end of the last one taken off.
LEMMA PiecesOfAlternatives ==
  ASSUME NEW name \in Seq(NameTokens), \A j \in 1 .. Len(name) : name[j] # PLUS,
         NEW words \in Seq(Seq(NameTokens)), NEW n \in Nat \ {0}, n = Len(words),
         \A w \in 1 .. n : \A j \in 1 .. Len(words[w]) : words[w][j] # PLUS,
         NEW r, AddsOf(r, words)
  PROVE  /\ name \o r[n] # <<>>
         /\ PiecesWith(Pieces(Undotted(name \o r[n]), PLUS), name, words, n, Undotted(Dotted(words[n])))
<1>1. /\ r \in [0 .. n -> Seq(NameTokens)] /\ r[0] = <<>>
      /\ \A k \in 1 .. n : r[k] = r[k - 1] \o Added(words[k])
  BY DEF AddsOf
<1>2. PLUS \in NameTokens /\ DOT # PLUS  BY QualifyAssumption DEF NameTokens
<1>3. \A k \in 1 .. n : words[k] \in Seq(NameTokens)  BY ElementOfSeq
<1>4. PICK p \in Seq(NameTokens) : p = <<PLUS>>  BY <1>2, OneElement
<1>5. ASSUME NEW k \in 1 .. n
      PROVE  /\ r[k - 1] \in Seq(NameTokens) /\ name \o r[k - 1] \in Seq(NameTokens)
             /\ Dotted(words[k]) \in Seq(NameTokens) /\ Dotted(words[k]) # <<>>
             /\ name \o r[k] = ((name \o r[k - 1]) \o <<PLUS>>) \o Dotted(words[k])
  <2>1. k - 1 \in 0 .. n  OBVIOUS
  <2>2. PICK a \in Seq(NameTokens) : a = r[k - 1]  BY <1>1, <2>1
  <2>3. PICK d \in Seq(NameTokens) : d = Dotted(words[k]) /\ d # <<>> /\ Added(words[k]) = p \o d
    BY <1>3, <1>4, AddedType DEF Added
  <2>4. PICK y \in Seq(NameTokens), x \in Seq(NameTokens) : y = p \o d /\ x = name \o a  BY ConcatProperties
  <2>5. Regroups(name, a, y) /\ Regroups(x, p, d)  BY Regrouped
  <2>6. name \o r[k] = name \o (a \o y)  BY <1>1, <2>2, <2>3, <2>4
  <2>7. name \o r[k] = (x \o p) \o d  BY <2>4, <2>5, <2>6 DEF Regroups
  <2> QED  BY <1>4, <2>2, <2>3, <2>4, <2>7
<1> DEFINE T == {k \in 0 .. n : PiecesWith(Pieces(name \o r[k], PLUS), name, words, k, Dotted(words[k]))}
<1>6. 0 \in T
  <2>1. name \o r[0] = name  BY <1>1, ConcatEmptySeq
  <2>2. PICK q \in Seq(Seq(NameTokens)) : q = <<name>> /\ Len(q) = 1 /\ q[1] = name  BY OneElement
  <2>3. Pieces(name, PLUS) = <<name>>  BY PiecesOfOne
  <2>4. 0 + 1 = 1 /\ 0 \in 0 .. n /\ 1 .. 0 = {}  OBVIOUS
  <2>5. PiecesWith(q, name, words, 0, Dotted(words[0]))  BY <2>2, <2>4 DEF PiecesWith
  <2> QED  BY <2>1, <2>2, <2>3, <2>4, <2>5
<1>7. ASSUME NEW k \in 1 .. n, k - 1 \in T PROVE k \in T
  <2>1. PICK j \in Nat : j = k - 1 /\ j + 1 = k  OBVIOUS
  <2>2. PICK x \in Seq(NameTokens) : x = name \o r[j]  BY <1>5, <2>1
  <2>3. PICK t \in Seq(NameTokens) : t = Dotted(words[k])  BY <1>5
  <2>4. PiecesWith(Pieces(x, PLUS), name, words, j, Dotted(words[j]))  BY <1>7, <2>1, <2>2
  <2>5. \A i0 \in 1 .. Len(t) : t[i0] # PLUS  BY <1>2, <1>3, <2>3, NoneOfMore
  <2>6. PiecesWith(Pieces((x \o <<PLUS>>) \o t, PLUS), name, words, j + 1, t)  BY <2>4, <2>5, OneMorePiece
  <2>7. name \o r[k] = (x \o <<PLUS>>) \o t  BY <1>5, <2>1, <2>2, <2>3
  <2>8. PiecesWith(Pieces(name \o r[k], PLUS), name, words, k, Dotted(words[k]))
    BY <2>1, <2>3, <2>6, <2>7
  <2> QED  BY <2>8
<1>8. n - 1 \in T
  <2>1. \A k \in 1 .. n : k - 1 \in T => k \in T  BY <1>7
  <2>2. n - 1 \in 0 .. n  OBVIOUS
  <2> HIDE DEF T
  <2>3. \A k \in 0 .. n : k \in T  BY <1>6, <2>1, Induct
  <2> QED  BY <2>2, <2>3
<1>9. PICK j \in Nat : j = n - 1 /\ j + 1 = n /\ n \in 1 .. n
  <2>1. n - 1 \in Nat /\ n - 1 + 1 = n /\ n \in 1 .. n  OBVIOUS
  <2> QED  BY <2>1
<1>10. PICK x \in Seq(NameTokens) : x = name \o r[j]  BY <1>5, <1>9
<1>11. PiecesWith(Pieces(x, PLUS), name, words, j, Dotted(words[j]))  BY <1>8, <1>9, <1>10
<1>12. PICK d \in Seq(NameTokens) : d = Dotted(words[n]) /\ d # <<>>  BY <1>5, <1>9
<1>13. PICK y \in Seq(NameTokens) : y = x \o <<PLUS>>  BY <1>4, ConcatProperties
<1>14. name \o r[n] = y \o d  BY <1>5, <1>9, <1>10, <1>12, <1>13
<1>15. name \o r[n] # <<>> /\ Undotted(name \o r[n]) = y \o Undotted(d)
  <2>1. y \o d # <<>> /\ Undotted(y \o d) = y \o Undotted(d)  BY <1>12, UndottedEnd
  <2> QED  BY <1>14, <2>1
<1>16. PICK t \in Seq(NameTokens) : t = Undotted(d)  BY <1>12, UndottedType
<1>17. \A i0 \in 1 .. Len(t) : t[i0] # PLUS
  <2>1. PICK w \in Seq(NameTokens) : w = words[n]  BY <1>3, <1>9
  <2>2. \A k \in 1 .. Len(w) : w[k] # PLUS  BY <1>9, <2>1
  <2>3. t = Undotted(Dotted(w)) /\ PLUS # DOT  BY <1>2, <1>12, <1>16, <2>1
  <2>4. \A k \in 1 .. Len(Undotted(Dotted(w))) : Undotted(Dotted(w))[k] # PLUS  BY <2>2, <2>3, NoneOfMore
  <2> QED  BY <2>3, <2>4
<1>18. PiecesWith(Pieces((x \o <<PLUS>>) \o t, PLUS), name, words, j + 1, t)
  BY <1>11, <1>17, OneMorePiece
<1> QED  BY <1>9, <1>12, <1>13, <1>15, <1>16, <1>18

-----------------------------------------------------------------------------
(***************************************************************************)
(* The inductive invariant                                                 *)
(***************************************************************************)
Outcomes == {DNS_ERR, 0, 1}

SourcesTypes ==
  /\ rulefile \in RuleFiles /\ local \in Locals /\ resolv \in ResolvFiles /\ host \in Hosts
  /\ asked \in Seq(NameTokens) /\ full \in Seq(NameTokens) /\ fqdn \in Seq(NameTokens)
  /\ tried \in Seq(Seq(NameTokens) \X Outcomes)

\* the rules are used only when they are those of a source that was read
RulesInv ==
  /\ ok => rules = goodrules /\ goodrules = RulesOf(from) /\ Readable(from)
  /\ stage # "idle" => Readable(from) /\ full = Qualified(asked, RulesOf(from))

\* the alternatives that are to come are still in the buffer, and those before them
\* have been tried
WalkInv ==
  /\ plus = Upto(full, PLUS)
  /\ stage = "name" => plus = Len(full) /\ fqdn = full /\ tried = <<>>
  /\ stage = "plus" =>
       /\ \A p \in 1 .. Len(full) : p <= plus \/ p > next => fqdn[p] = full[p]
       /\ \A t \in 1 .. Len(tried) : tried[t][2] = 0
       /\ Len(tried) + 1 <= Len(Pieces(full, PLUS))
       /\ Pieces(full, PLUS) =
            SubSeq(Pieces(full, PLUS), 1, Len(tried) + 1) \o Pieces(Drop(full, next), PLUS)

QualifyInv == QTypeOK /\ SourcesTypes /\ RulesInv /\ WalkInv /\ AlternativesInOrder

-----------------------------------------------------------------------------
(***************************************************************************)
(* What is looked up                                                       *)
(***************************************************************************)
\* A name with domains is looked up with each of them.
LEMMA MeantWith ==
  ASSUME NEW name, NEW words, NEW n \in Nat \ {0}, NEW last,
         PiecesWith(Pieces(full, PLUS), name, words, n, last)
  PROVE  MeantNames = [a \in 1 .. n |-> name \o IF a = n THEN last ELSE Dotted(words[a])]
<1>1. PICK ps \in Seq(Seq(NameTokens)) : ps = Pieces(full, PLUS)  BY DEF PiecesWith
<1>2. Len(ps) = n + 1 /\ ps[1] = name /\ \A w \in 1 .. n : ps[w + 1] = IF w = n THEN last ELSE Dotted(words[w])
  BY <1>1 DEF PiecesWith
<1>3. Len(ps) # 1 /\ Len(ps) - 1 = n  BY <1>2
<1>4. MeantNames = [a \in 1 .. n |-> ps[1] \o ps[a + 1]]
  <2>1. MeantNames = IF Len(ps) = 1 THEN ps ELSE [a \in 1 .. Len(ps) - 1 |-> ps[1] \o ps[a + 1]]
    BY <1>1 DEF MeantNames
  <2> QED  BY <1>3, <2>1
<1>5. \A a \in 1 .. n : ps[1] \o ps[a + 1] = name \o IF a = n THEN last ELSE Dotted(words[a])
  BY <1>2
<1> QED  BY <1>4, <1>5

LEMMA MeantAlone ==
  ASSUME NEW s \in Seq(NameTokens), full = s, \A k \in 1 .. Len(s) : s[k] # PLUS
  PROVE  Pieces(full, PLUS) = <<s>> /\ MeantNames = <<s>>
<1>1. Pieces(full, PLUS) = <<s>>  BY PiecesOfOne
<1>2. Len(<<s>>) = 1  BY OneElement
<1> QED  BY <1>1, <1>2 DEF MeantNames

\* The rules of LOCALDOMAIN and of a search line.
LEMMA TwoRules ==
  ASSUME NEW source, Readable(source), source[1] = None,
         source[2] # None \/ (source[3] # None /\ Searches(source[3]) # {}),
         NEW words,
         words = IF source[2] # None THEN Pieces(source[2], BLANK) ELSE Domains(FirstSearch(source[3]))
  PROVE  words \in Seq(Seq(NameTokens)) /\ RulesOf(source) = <<AddEach(words), LastDot>>
<1>1. source[2] \in Locals /\ source[3] \in ResolvFiles  BY DEF Readable
<1>2. CASE source[2] # None
  <2>1. source[2] \in Seq(NameTokens)  BY <1>1, <1>2, QualifyAssumption
  <2>2. Pieces(source[2], BLANK) \in Seq(Seq(NameTokens))  BY <2>1, PiecesType DEF Lists
  <2>3. RulesOf(source) = FromLocal(source[2])  BY <1>2 DEF RulesOf
  <2> QED  BY <1>2, <2>2, <2>3 DEF FromLocal
<1>3. CASE source[2] = None
  <2>1. source[3] \in Seq(Seq(NameTokens))  BY <1>1, <1>3, QualifyAssumption DEF Readable
  <2>2. Domains(FirstSearch(source[3])) \in Seq(Seq(NameTokens))  BY <1>3, <2>1, FirstSearchIs
  <2>3. RulesOf(source) = FromSearch(FirstSearch(source[3]))  BY <1>3 DEF RulesOf
  <2> QED  BY <1>3, <2>2, <2>3 DEF FromSearch
<1> QED  BY <1>2, <1>3

LEMMA NamesConfigured ==
  ASSUME asked \in Seq(NameTokens), Readable(from), full = Qualified(asked, RulesOf(from))
  PROVE  SearchedAsConfigured
<1> SUFFICES ASSUME from[1] = None, from[2] # None \/ (from[3] # None /\ Searches(from[3]) # {}),
                    SearchWords # <<>>, \A w \in DOMAIN SearchWords : PLUS \notin Range(SearchWords[w])
             PROVE  /\ NoDot(asked) =>
                         MeantNames = [w \in DOMAIN SearchWords |->
                                    LET domain == <<DOT>> \o SearchWords[w]
                                    IN  asked \o IF w = Len(SearchWords) THEN Undotted(domain) ELSE domain]
                    /\ Plain(asked) => MeantNames = <<Undotted(asked)>>
  BY DEF SearchedAsConfigured
<1>1. PICK words : words = SearchWords  OBVIOUS
<1>2. words \in Seq(Seq(NameTokens)) /\ RulesOf(from) = <<AddEach(words), LastDot>>
  BY <1>1, TwoRules DEF SearchWords
<1>3. PICK n \in Nat \ {0} : n = Len(words)  BY <1>1, <1>2, EmptySeq
<1>4. PICK r : AddsOf(r, words) /\ AddEach(words) = <<Q, COLON>> \o r[n]  BY <1>2, <1>3, AddEachIs
<1>5. r[n] \in Seq(NameTokens)
  <2>1. n \in 0 .. n  OBVIOUS
  <2> QED  BY <1>3, <1>4, <2>1 DEF AddsOf
<1>6. DOMAIN words = 1 .. n  BY <1>2, <1>3, LenProperties
<1>7. \A w \in 1 .. n : \A j \in 1 .. Len(words[w]) : words[w][j] # PLUS
  <2> TAKE w \in 1 .. n
  <2>1. PICK s \in Seq(NameTokens) : s = words[w]  BY <1>2, <1>3, ElementOfSeq
  <2>2. Range(s) \cap {PLUS} = {}  BY <1>1, <1>6, <2>1
  <2>3. NoneOf(s, {PLUS})  BY <2>2, NoneOfRange
  <2> QED  BY <2>1, <2>3 DEF NoneOf
<1>8. full = Applied(Applied(asked, AddEach(words)), LastDot)
  BY <1>2, AddEachType, LastDotType, QualifiedByTwo
<1>9. Applied(asked, AddEach(words)) = IF NoneOf(asked, {DOT, BR}) THEN asked \o r[n] ELSE asked
  BY <1>4, <1>5, AddApplied
<1>10. ASSUME NoDot(asked)
       PROVE  MeantNames = [w \in DOMAIN SearchWords |->
                         LET domain == <<DOT>> \o SearchWords[w]
                         IN  asked \o IF w = Len(SearchWords) THEN Undotted(domain) ELSE domain]
  <2>1. Range(asked) \cap {DOT, BR} = {} /\ Range(asked) \cap {PLUS} = {}  BY <1>10 DEF NoDot
  <2>2. NoneOf(asked, {DOT, BR}) /\ NoneOf(asked, {PLUS})  BY <2>1, NoneOfRange
  <2>3. \A j \in 1 .. Len(asked) : asked[j] # PLUS  BY <2>2 DEF NoneOf
  <2>4. /\ asked \o r[n] # <<>>
        /\ PiecesWith(Pieces(Undotted(asked \o r[n]), PLUS), asked, words, n, Undotted(Dotted(words[n])))
    BY <1>2, <1>3, <1>4, <1>7, <2>3, PiecesOfAlternatives
  <2>5. asked \o r[n] \in Seq(NameTokens)  BY <1>5, ConcatProperties
  <2>6. full = Undotted(asked \o r[n])  BY <1>8, <1>9, <2>2, <2>4, <2>5, DotApplied
  <2>7. MeantNames = [a \in 1 .. n |-> asked \o IF a = n THEN Undotted(Dotted(words[n])) ELSE Dotted(words[a])]
    BY <2>4, <2>6, MeantWith
  <2>8. \A a \in 1 .. n : (IF a = n THEN Undotted(Dotted(words[n])) ELSE Dotted(words[a]))
                           = IF a = n THEN Undotted(<<DOT>> \o words[a]) ELSE <<DOT>> \o words[a]
    BY DEF Dotted
  <2> QED  BY <1>1, <1>3, <1>6, <2>7, <2>8
<1>11. ASSUME Plain(asked) PROVE MeantNames = <<Undotted(asked)>>
  <2>1. Range(asked) \cap {PLUS} = {} /\ ~(Range(asked) \cap {DOT, BR} = {})
    BY <1>11 DEF Plain, NoDot
  <2>2. ~NoneOf(asked, {DOT, BR}) /\ NoneOf(asked, {PLUS})  BY <2>1, NoneOfRange
  <2>3. asked # <<>>
    <3>1. Len(<<>>) = 0 /\ 1 .. 0 = {}  BY EmptySeq
    <3> QED  BY <2>2, <3>1 DEF NoneOf
  <2>4. full = Undotted(asked)  BY <1>8, <1>9, <2>2, <2>3, DotApplied
  <2>5. PICK s \in Seq(NameTokens) : s = Undotted(asked)  BY <2>3, UndottedType
  <2>6. \A k \in 1 .. Len(s) : s[k] # PLUS
    <3>1. PICK m \in Nat \ {0} : m = Len(asked)  BY <2>3, EmptySeq
    <3>2. PICK j \in Nat : j = m - 1
      <4>1. m - 1 \in Nat  OBVIOUS
      <4> QED  BY <4>1
    <3>3. PICK one \in Nat \ {0} : one = 1  OBVIOUS
    <3>4. one <= j + 1 /\ j <= Len(asked) /\ j <= m  BY <3>1, <3>2, <3>3
    <3>5. PICK t \in Seq(NameTokens) : IsPart(t, asked, one, j)  BY <3>4, PartOf
    <3>6. t = SubSeq(asked, 1, m - 1) /\ Len(t) = j /\ \A k \in 1 .. j : t[k] = asked[k]
      <4>1. j - 1 + 1 = j /\ \A k \in 1 .. j : k + (1 - 1) = k  OBVIOUS
      <4> QED  BY <3>2, <3>3, <3>5, <4>1 DEF IsPart
    <3>7. s = IF asked[m] = DOT THEN t ELSE asked  BY <2>5, <3>1, <3>6 DEF Undotted
    <3>8. \A k \in 1 .. m : asked[k] # PLUS  BY <2>2, <3>1 DEF NoneOf
    <3>9. \A k \in 1 .. j : k \in 1 .. m  BY <3>4
    <3> QED  BY <3>1, <3>6, <3>7, <3>8, <3>9
  <2> QED  BY <2>4, <2>5, <2>6, MeantAlone
<1> QED  BY <1>10, <1>11

-----------------------------------------------------------------------------
(***************************************************************************)
(* The steps                                                               *)
(***************************************************************************)
\* The rules and the cache, in a call that uses the rules.
LEMMA RulesUsed ==
  ASSUME QualifyInv, stage = "idle", InitDone \/ UseRules, now' = now, sources' = sources
  PROVE  /\ CacheTypeOK' /\ ok' /\ rules' = goodrules' /\ goodrules' = RulesOf(from') /\ Readable(from')
<1>1. CacheTypeOK /\ Uses \in Nat \ {0} /\ TTL \in Nat /\ MaxNow \in Nat
  BY CacheAssumption DEF QualifyInv, QTypeOK
<1>2. CASE InitDone
  <2>1. /\ ~Blocked /\ deadline' = now + TTL /\ ok' = TRUE /\ uses' = Uses - 1
        /\ load' = [at |-> now, served |-> 1]
        /\ rules' = Built /\ goodrules' = rules' /\ from' = sources
    BY <1>2 DEF InitDone, Loaded
  <2>2. CacheTypeOK'
    <3>1. now \in 0 .. MaxNow  BY <1>1 DEF CacheTypeOK
    <3>2. deadline' \in 0 .. MaxNow + TTL /\ uses' \in 0 .. Uses  BY <1>1, <2>1, <3>1
    <3>3. load' \in [at : 0 .. MaxNow, served : Nat]  BY <2>1, <3>1
    <3> QED  BY <2>1, <3>1, <3>2, <3>3 DEF CacheTypeOK
  <2>3. Readable(sources)
    <3>1. rulefile \in RuleFiles /\ local \in Locals /\ resolv \in ResolvFiles /\ host \in Hosts
      BY DEF QualifyInv, SourcesTypes
    <3>2. sources[1] = rulefile /\ sources[2] = local /\ sources[3] = resolv  BY DEF sources
    <3> QED  BY <2>1, <3>1, <3>2 DEF Readable, Blocked, sources
  <2> QED  BY <2>1, <2>2, <2>3 DEF Built
<1>3. CASE UseRules
  <2>1. /\ ok /\ uses # 0 /\ uses' = uses - 1 /\ load' = [load EXCEPT !.served = @ + 1]
        /\ UNCHANGED <<ok, deadline, rules, goodrules, from>>
    BY <1>3 DEF UseRules, Hit, Usable
  <2>2. CacheTypeOK'
    <3>1. uses' \in 0 .. Uses  BY <1>1, <2>1 DEF CacheTypeOK
    <3>2. load \in [at : 0 .. MaxNow, served : Nat]  BY <1>1 DEF CacheTypeOK
    <3>3. load' \in [at : 0 .. MaxNow, served : Nat]  BY <2>1, <3>2
    <3> QED  BY <1>1, <2>1, <3>1, <3>3 DEF CacheTypeOK
  <2>3. rules = goodrules /\ goodrules = RulesOf(from) /\ Readable(from)  BY <2>1 DEF QualifyInv, RulesInv
  <2> QED  BY <2>1, <2>2, <2>3
<1> QED  BY <1>2, <1>3

LEMMA CallFailsKeeps ==
  ASSUME QualifyInv, NEW name \in Asked, CallFails(name)
  PROVE  QualifyInv'
<1>1. /\ stage = "idle" /\ asked' = name /\ stage' = "idle" /\ answer' = DNS_INT
      /\ tried' = <<>> /\ now' = now /\ sources' = sources
      /\ fqdn' = fqdn /\ full' = full /\ plus' = plus /\ next' = next
  BY DEF CallFails, Return, sources
<1>2. name \in Seq(NameTokens)  BY QualifyAssumption
<1>3. CacheTypeOK' /\ (ok' => rules' = goodrules' /\ goodrules' = RulesOf(from') /\ Readable(from'))
  <2>1. CASE InitFails
    <3>1. ok' = FALSE /\ uses' = uses /\ deadline' = deadline /\ load' = load  BY <2>1 DEF InitFails, Miss
    <3> QED  BY <1>1, <3>1 DEF QualifyInv, QTypeOK, CacheTypeOK
  <2>2. CASE InitDone \/ UseRules  BY <1>1, <2>2, RulesUsed
  <2> QED  BY <2>1, <2>2 DEF CallFails
<1>4. QTypeOK'  BY <1>1, <1>3 DEF QualifyInv, QTypeOK
<1>5. SourcesTypes'
  <2>1. <<>> \in Seq(Seq(NameTokens) \X Outcomes)  BY EmptySeq
  <2>2. rulefile' = rulefile /\ local' = local /\ resolv' = resolv /\ host' = host  BY <1>1 DEF sources
  <2> QED  BY <1>1, <1>2, <2>1, <2>2 DEF QualifyInv, SourcesTypes
<1>6. RulesInv'  BY <1>1, <1>3 DEF RulesInv
<1>7. WalkInv'  BY <1>1 DEF QualifyInv, WalkInv
<1>8. AlternativesInOrder'  BY <1>1 DEF AlternativesInOrder
<1> QED  BY <1>4, <1>5, <1>6, <1>7, <1>8 DEF QualifyInv

\* what is meant by a name of the pieces ps
MeantBy(ps) == IF Len(ps) = 1 THEN ps ELSE [a \in 1 .. Len(ps) - 1 |-> ps[1] \o ps[a + 1]]

LEMMA MeantType ==
  ASSUME NEW ps \in Lists
  PROVE  /\ Len(MeantBy(ps)) \in Nat
         /\ Len(ps) = 1 => MeantBy(ps) = ps
         /\ Len(ps) # 1 =>
              /\ Len(MeantBy(ps)) = Len(ps) - 1
              /\ \A a \in 1 .. Len(ps) - 1 : MeantBy(ps)[a] = ps[1] \o ps[a + 1]
<1>2. PICK n \in Nat \ {0} : n = Len(ps)  BY EmptySeq DEF Lists
<1>3. ps \in Seq(Seq(NameTokens))  BY DEF Lists
<1>4. MeantBy(ps) = IF n = 1 THEN ps ELSE [a \in 1 .. n - 1 |-> ps[1] \o ps[a + 1]]
  BY <1>2 DEF MeantBy
<1>5. CASE n = 1
  BY <1>2, <1>4, <1>5
<1>6. CASE n # 1
  <2>1. \A a \in 1 .. n - 1 : a + 1 \in 1 .. n /\ 1 \in 1 .. n  BY <1>2
  <2>2. \A a \in 1 .. n - 1 : ps[1] \o ps[a + 1] \in Seq(NameTokens)
    BY <1>2, <1>3, <2>1, ElementOfSeq, ConcatProperties
  <2>3. PICK m \in Nat : m = n - 1
    <3>1. n - 1 \in Nat  BY <1>6
    <3> QED  BY <3>1
  <2> DEFINE f == [a \in 1 .. m |-> ps[1] \o ps[a + 1]]
  <2>4. f \in [1 .. m -> Seq(NameTokens)]  BY <2>2, <2>3
  <2>5. MeantBy(ps) = f  BY <1>4, <1>6, <2>3
  <2>6. \A a \in 1 .. m : f[a] = ps[1] \o ps[a + 1]  OBVIOUS
  <2> HIDE DEF f
  <2>7. Len(MeantBy(ps)) = m  BY <2>4, <2>5, MadeSeq
  <2> QED  BY <1>2, <1>6, <2>3, <2>5, <2>6, <2>7
<1> QED  BY <1>5, <1>6

LEMMA CallKeeps ==
  ASSUME QualifyInv, NEW name \in Asked, Call(name)
  PROVE  QualifyInv'
<1>1. /\ stage = "idle" /\ asked' = name /\ tried' = <<>> /\ now' = now /\ sources' = sources /\ answer' = answer
      /\ full' = Qualified(name, rules') /\ fqdn' = full'
      /\ plus' = Upto(full', PLUS) /\ next' = plus' + 1
      /\ stage' = IF plus' >= Len(full') THEN "name" ELSE "plus"
      /\ InitDone \/ UseRules
  BY DEF Call, sources
<1>2. name \in Seq(NameTokens)  BY QualifyAssumption
<1>3. CacheTypeOK' /\ ok' /\ rules' = goodrules' /\ goodrules' = RulesOf(from') /\ Readable(from')
  BY <1>1, RulesUsed
<1>4. RulesOf(from') \in Seq(Seq(NameTokens))  BY <1>3, RulesType
<1>5. PICK s \in Seq(NameTokens) : s = full'  BY <1>1, <1>2, <1>3, <1>4, QualifiedType
<1>6. PICK l \in Nat, u \in Nat : l = Len(s) /\ u = Upto(s, PLUS) /\ u <= l  BY LenProperties, UptoFinds
<1>7. QTypeOK'
  <2>1. stage' = "plus" => next' \in plus' + 1 .. Len(full')  BY <1>1, <1>5, <1>6
  <2>2. plus' \in 0 .. Len(full')  BY <1>1, <1>5, <1>6
  <2>3. stage' \in {"idle", "name", "plus"}  BY <1>1
  <2>4. answer' \in {DNS_INT, DNS_ERR, 0, 1} /\ Len(fqdn') = Len(full')  BY <1>1 DEF QualifyInv, QTypeOK
  <2> QED  BY <1>3, <2>1, <2>2, <2>3, <2>4 DEF QTypeOK
<1>8. SourcesTypes'
  <2>1. <<>> \in Seq(Seq(NameTokens) \X Outcomes)  BY EmptySeq
  <2>2. rulefile' = rulefile /\ local' = local /\ resolv' = resolv /\ host' = host  BY <1>1 DEF sources
  <2>3. full' \in Seq(NameTokens) /\ fqdn' \in Seq(NameTokens)  BY <1>1, <1>5
  <2> QED  BY <1>1, <1>2, <2>1, <2>2, <2>3 DEF QualifyInv, SourcesTypes
<1>9. RulesInv'  BY <1>1, <1>3 DEF RulesInv
<1>10. WalkInv'
  <2>1. plus' >= Len(full') => plus' = Len(full')  BY <1>1, <1>5, <1>6
  <2>2. stage' = "name" => plus' = Len(full') /\ fqdn' = full' /\ tried' = <<>>  BY <1>1, <2>1
  <2>3. ASSUME stage' = "plus"
        PROVE  /\ \A p \in 1 .. Len(full') : p <= plus' \/ p > next' => fqdn'[p] = full'[p]
               /\ \A t \in 1 .. Len(tried') : tried'[t][2] = 0
               /\ Len(tried') + 1 <= Len(Pieces(full', PLUS))
               /\ Pieces(full', PLUS) =
                    SubSeq(Pieces(full', PLUS), 1, Len(tried') + 1) \o Pieces(Drop(full', next'), PLUS)
    <3>1. u < l  BY <1>1, <1>5, <1>6, <2>3
    <3>2. PLUS \in NameTokens  BY DEF NameTokens
    <3>3. PICK a \in Seq(NameTokens) : a = SubSeq(s, 1, u)  BY <1>6, BeginType
    <3>4. PICK rest \in Seq(NameTokens) : rest = Drop(s, u + 1)
      <4>1. u + 1 \in Nat  OBVIOUS
      <4> QED  BY <4>1, DropType
    <3>5. PICK ps \in Seq(Seq(NameTokens)) : ps = Pieces(rest, PLUS)  BY PiecesType DEF Lists
    <3>6. Pieces(s, PLUS) = <<a>> \o ps  BY <1>6, <3>1, <3>2, <3>3, <3>4, <3>5, FirstPiece
    <3>7. PICK all \in Seq(Seq(NameTokens)) : all = <<a>> \o ps /\ Len(all) = Len(ps) + 1 /\ all[1] = a
      <4>1. PICK all : all = <<a>> \o ps  OBVIOUS
      <4>2. all \in Seq(Seq(NameTokens)) /\ Len(all) = Len(ps) + 1  BY <4>1, InFront
      <4>3. \A k \in 1 .. Len(ps) + 1 : (<<a>> \o ps)[k] = IF k = 1 THEN a ELSE ps[k - 1]  BY InFront
      <4>4. 1 \in 1 .. Len(ps) + 1
        <5>1. Len(ps) \in Nat  BY LenProperties
        <5> QED  BY <5>1
      <4> QED  BY <4>1, <4>2, <4>3, <4>4
    <3>8. Len(ps) \in Nat /\ Len(<<>>) = 0 /\ 0 + 1 = 1 /\ 1 .. 0 = {}  BY LenProperties, EmptySeq
    <3>9. SubSeq(all, 1, 1) = <<a>>
      <4>1. 1 \in 1 .. Len(all)  BY <3>7, <3>8
      <4> QED  BY <3>7, <4>1, PartOfOne
    <3>10. 1 <= Len(all)  BY <3>7, <3>8
    <3> QED  BY <1>1, <1>5, <1>6, <3>4, <3>5, <3>6, <3>7, <3>8, <3>9, <3>10
  <2> QED  BY <1>1, <2>2, <2>3 DEF WalkInv
<1>11. AlternativesInOrder'
  <2>1. PICK ps \in Lists : ps = Pieces(full', PLUS)  BY <1>5, PiecesType
  <2>4. MeantNames' = MeantBy(ps)  BY <2>1 DEF MeantNames, MeantBy
  <2>2. Len(MeantNames') \in Nat  BY <2>4, MeantType
  <2>3. Len(tried') = 0 /\ DOMAIN tried' = {}  BY <1>1, EmptySeq
  <2> QED  BY <2>2, <2>3 DEF AlternativesInOrder
<1> QED  BY <1>7, <1>8, <1>9, <1>10, <1>11 DEF QualifyInv

LEMMA LookupKeeps ==
  ASSUME QualifyInv, NEW rc \in Outcomes, Lookup(rc)
  PROVE  QualifyInv'
<1>1. /\ stage = "name" /\ tried' = Append(tried, <<fqdn, rc>>) /\ stage' = "idle" /\ answer' = rc
      /\ UNCHANGED <<ccvars, sources, rules, goodrules, from, asked, fqdn, full, plus, next>>
  BY DEF Lookup, LookedUp, Return
<1>2. plus = Len(full) /\ fqdn = full /\ tried = <<>> /\ plus = Upto(full, PLUS)  BY <1>1 DEF QualifyInv, WalkInv
<1>3. PICK s \in Seq(NameTokens) : s = full  BY DEF QualifyInv, SourcesTypes
<1>4. PICK e \in Seq(NameTokens) \X Outcomes : e = <<s, rc>>  OBVIOUS
<1>5. PICK w \in Seq(Seq(NameTokens) \X Outcomes) : w = <<e>> /\ Len(w) = 1 /\ w[1] = e  BY OneElement
<1>6. tried' = w
  <2>1. <<>> \in Seq(Seq(NameTokens) \X Outcomes)  BY EmptySeq
  <2>2. Append(<<>>, e) = <<>> \o <<e>> /\ <<>> \o w = w  BY <2>1, AppendIsConcat, ConcatEmptySeq
  <2> QED  BY <1>1, <1>2, <1>3, <1>4, <1>5, <2>2
<1>7. QTypeOK'
  <2>1. CacheTypeOK'  BY <1>1 DEF QualifyInv, QTypeOK, CacheTypeOK, ccvars
  <2> QED  BY <1>1, <2>1 DEF QualifyInv, QTypeOK, Outcomes
<1>8. SourcesTypes'  BY <1>1, <1>5, <1>6 DEF QualifyInv, SourcesTypes, sources
<1>9. RulesInv'  BY <1>1 DEF QualifyInv, RulesInv, ccvars
<1>10. WalkInv'  BY <1>1 DEF QualifyInv, WalkInv
<1>11. AlternativesInOrder'
  <2>1. Upto(s, PLUS) = Len(s)  BY <1>2, <1>3
  <2>2. \A k \in 1 .. Len(s) : s[k] # PLUS  BY <2>1, UptoFinds DEF IsUpto
  <2>3. MeantNames = <<s>>  BY <1>3, <2>2, MeantAlone
  <2>4. MeantNames' = MeantNames  BY <1>1 DEF MeantNames
  <2>5. PICK m \in Seq(Seq(NameTokens)) : m = <<s>> /\ Len(m) = 1 /\ m[1] = s  BY OneElement
  <2>6. MeantNames' = m /\ DOMAIN w = 1 .. 1  BY <1>5, <2>3, <2>4, <2>5, LenProperties
  <2>7. \A t \in 1 .. 1 : t = 1  OBVIOUS
  <2>8. w[1][1] = s  BY <1>4, <1>5
  <2>9. \A t \in DOMAIN w : w[t][1] = m[t] /\ ~(t < Len(w))  BY <1>5, <2>5, <2>6, <2>7, <2>8
  <2>10. Len(w) <= Len(m)  BY <1>5, <2>5
  <2> QED  BY <1>6, <2>6, <2>9, <2>10 DEF AlternativesInOrder
<1> QED  BY <1>7, <1>8, <1>9, <1>10, <1>11 DEF QualifyInv

\* The alternative at n is what is put behind the first part; what is behind it is kept.
LEMMA PlacedIs ==
  ASSUME QualifyInv, stage = "plus"
  PROVE  /\ Piece = Upto(Drop(full, next), PLUS) /\ Piece \in Nat /\ next + Piece <= Len(full)
         /\ Placed \in Seq(NameTokens) /\ Len(Placed) = Len(full)
         /\ \A p \in 1 .. Len(full) : p <= plus \/ p > next + Piece => Placed[p] = full[p]
         /\ SubSeq(Placed, 1, plus + Piece) = SubSeq(full, 1, plus) \o SubSeq(Drop(full, next), 1, Piece)
<1>1. PICK s \in Seq(NameTokens), b \in Seq(NameTokens) : s = full /\ b = fqdn  BY DEF QualifyInv, SourcesTypes
<1>2. PICK l \in Nat : l = Len(s) /\ l = Len(b)  BY <1>1, LenProperties DEF QualifyInv, QTypeOK
<1>3. PICK u \in Nat, n \in Nat : u = plus /\ n = next /\ u < n /\ n <= l
  <2>1. plus \in 0 .. Len(full) /\ next \in plus + 1 .. Len(full)  BY DEF QualifyInv, QTypeOK
  <2> QED  BY <1>1, <1>2, <2>1
<1>4. \A p \in 1 .. l : p <= u \/ p > n => b[p] = s[p]  BY <1>1, <1>2, <1>3 DEF QualifyInv, WalkInv
<1>5. PICK rest \in Seq(NameTokens) : IsRest(rest, s, n, l)  BY <1>2, <1>3, DropIs
<1>6. rest = Drop(s, n) /\ Len(rest) = l - n /\ \A k \in 1 .. l - n : rest[k] = s[n + k]  BY <1>5 DEF IsRest
<1>7. SubSeq(b, 1, l) = b  BY <1>2, SubSeqFull
<1>8. PICK rb \in Seq(NameTokens) : IsRest(rb, b, n, l)  BY <1>2, <1>3, DropIs
<1>9. rb = rest
  <2>1. rb = Drop(b, n) /\ Len(rb) = l - n /\ \A k \in 1 .. l - n : rb[k] = b[n + k]  BY <1>8 DEF IsRest
  <2>2. \A k \in 1 .. l - n : n + k \in 1 .. l /\ n + k > n  BY <1>3
  <2>3. \A k \in 1 .. l - n : rb[k] = rest[k]  BY <1>4, <1>6, <2>1, <2>2
  <2> QED  BY <1>6, <2>1, <2>3, SeqEqual
<1>10. Piece = Upto(rest, PLUS)
  <2>1. rb = Drop(b, n)  BY <1>8 DEF IsRest
  <2> QED  BY <1>1, <1>2, <1>3, <1>7, <1>9, <2>1 DEF Piece
<1>11. PICK j \in Nat : j = Piece /\ j <= l - n  BY <1>6, <1>10, UptoFinds
<1> DEFINE f == [p \in 1 .. l |-> IF p \in u + 1 .. u + j THEN b[p - u + n] ELSE b[p]]
<1>12. DOMAIN b = 1 .. l /\ \A p \in 1 .. l : b[p] \in NameTokens  BY <1>2, LenProperties, ElementOfSeq
<1>13. Placed = f  BY <1>1, <1>3, <1>11, <1>12 DEF Placed
<1>14. f \in [1 .. l -> NameTokens]
  <2>1. \A p \in 1 .. l : p \in u + 1 .. u + j => p - u + n \in 1 .. l  BY <1>3, <1>11
  <2> QED  BY <1>12, <2>1
<1>15. PICK z \in Seq(NameTokens) : z = f /\ Len(z) = l
  <2> HIDE DEF f
  <2> QED  BY <1>14, MadeSeq
<1>16. \A p \in 1 .. l : z[p] = IF p \in u + 1 .. u + j THEN b[p - u + n] ELSE b[p]  BY <1>15
<1> HIDE DEF f
<1>17. ASSUME NEW p \in 1 .. l, p <= u \/ p > n + j PROVE z[p] = s[p]
  <2>1. p \notin u + 1 .. u + j /\ (p <= u \/ p > n)  BY <1>3, <1>17
  <2> QED  BY <1>4, <1>16, <2>1
<1>18. \A k \in 1 .. j : z[u + k] = rest[k]
  <2> TAKE k \in 1 .. j
  <2>1. u + k \in 1 .. l /\ u + k \in u + 1 .. u + j /\ u + k - u + n = n + k /\ k \in 1 .. l - n
    BY <1>3, <1>11
  <2>2. z[u + k] = b[n + k]  BY <1>16, <2>1
  <2>3. n + k \in 1 .. l /\ n + k > n  BY <1>3, <2>1
  <2> QED  BY <1>4, <1>6, <2>1, <2>2, <2>3
<1>19. SubSeq(z, 1, u + j) = SubSeq(s, 1, u) \o SubSeq(rest, 1, j)
  <2>1. PICK uj \in Nat : uj = u + j /\ uj <= Len(z) /\ u <= l
    <3>1. u + j \in Nat /\ u + j <= l /\ u <= l  BY <1>3, <1>11
    <3> QED  BY <1>15, <3>1
  <2>2. PICK one \in Nat \ {0} : one = 1 /\ one <= uj + 1 /\ one <= u + 1 /\ one <= j + 1  OBVIOUS
  <2>3. PICK c \in Seq(NameTokens) : IsPart(c, z, one, uj)  BY <2>1, <2>2, PartOf
  <2>4. PICK a \in Seq(NameTokens) : IsPart(a, s, one, u)  BY <1>2, <2>1, <2>2, PartOf
  <2>5. PICK d \in Seq(NameTokens) : IsPart(d, rest, one, j)  BY <1>6, <1>11, <2>2, PartOf
  <2>6. uj - 1 + 1 = u + j /\ u - 1 + 1 = u /\ j - 1 + 1 = j  BY <2>1
  <2>7. \A k \in Nat : k + (1 - 1) = k  OBVIOUS
  <2>8. c = SubSeq(z, 1, u + j) /\ Len(c) = u + j /\ \A k \in 1 .. u + j : c[k] = z[k]
    BY <2>1, <2>2, <2>3, <2>6, <2>7 DEF IsPart
  <2>9. a = SubSeq(s, 1, u) /\ Len(a) = u /\ \A k \in 1 .. u : a[k] = s[k]
    BY <2>2, <2>4, <2>6, <2>7 DEF IsPart
  <2>10. d = SubSeq(rest, 1, j) /\ Len(d) = j /\ \A k \in 1 .. j : d[k] = rest[k]
    BY <2>2, <2>5, <2>6, <2>7 DEF IsPart
  <2>11. PICK y \in Seq(NameTokens) : IsJoint(y, a, u, d, j)  BY <2>9, <2>10, JointOf
  <2>12. y = a \o d /\ Len(y) = u + j /\ (\A k \in 1 .. u : y[k] = a[k]) /\ \A k \in 1 .. j : y[u + k] = d[k]
    BY <2>11 DEF IsJoint
  <2>13. ASSUME NEW p \in 1 .. u + j PROVE c[p] = y[p]
    <3>1. CASE p \in 1 .. u
      <4>1. p \in 1 .. l /\ p <= u  BY <2>1, <3>1
      <4> QED  BY <1>17, <2>8, <2>9, <2>12, <3>1, <4>1
    <3>2. CASE p > u
      <4>1. PICK k \in 1 .. j : p = u + k
        <5>1. p - u \in 1 .. j /\ p = u + (p - u)  BY <3>2
        <5> QED  BY <5>1
      <4> QED  BY <1>18, <2>8, <2>10, <2>12, <4>1
    <3> QED  BY <3>1, <3>2
  <2>14. c = y
    <3>1. Len(c) = u + j /\ Len(y) = u + j  BY <2>8, <2>12
    <3> QED  BY <2>13, <3>1, SeqEqual
  <2> QED  BY <2>8, <2>9, <2>10, <2>12, <2>14
<1>20. n + j <= l  BY <1>3, <1>11
<1> QED  BY <1>1, <1>2, <1>3, <1>6, <1>10, <1>11, <1>13, <1>15, <1>17, <1>19, <1>20

\* after n pieces of ps comes e, and after it the pieces q
IsBehind(ps, n, e, q) ==
  n + 1 <= Len(ps) /\ ps[n + 1] = e /\ ps = SubSeq(ps, 1, n + 1) \o q

\* One more piece is behind the first n of them.
LEMMA PieceBehind ==
  ASSUME NEW S, NEW ps \in Seq(S), NEW n \in Nat, n <= Len(ps), NEW e \in S, NEW q \in Seq(S),
         ps = SubSeq(ps, 1, n) \o (<<e>> \o q)
  PROVE  IsBehind(ps, n, e, q)
<1>1. PICK l \in Nat : l = Len(ps)  BY LenProperties
<1>2. PICK a \in Seq(S) : a = SubSeq(ps, 1, n) /\ Len(a) = n
  <2>1. PICK one \in Nat \ {0} : one = 1 /\ one <= n + 1  OBVIOUS
  <2>2. PICK a \in Seq(S) : IsPart(a, ps, one, n)  BY <1>1, <2>1, PartOf
  <2>3. n - 1 + 1 = n  OBVIOUS
  <2> QED  BY <2>1, <2>2, <2>3 DEF IsPart
<1>3. PICK o \in Seq(S) : o = <<e>> /\ Len(o) = 1 /\ o[1] = e  BY OneElement
<1>4. PICK m \in Nat : m = Len(q)  BY LenProperties
<1>5. PICK t \in Seq(S) : IsJoint(t, o, 1, q, m)  BY <1>3, <1>4, JointOf
<1>6. t = o \o q /\ Len(t) = 1 + m /\ t[1] = e
  <2>1. 1 \in 1 .. 1  OBVIOUS
  <2> QED  BY <1>3, <1>5, <2>1 DEF IsJoint
<1>7. PICK z \in Seq(S) : IsJoint(z, a, n, t, 1 + m)
  <2>1. PICK w \in Nat : w = 1 + m  OBVIOUS
  <2> QED  BY <1>2, <1>6, <2>1, JointOf
<1>8. ps = z /\ Len(z) = n + (1 + m) /\ z[n + 1] = e
  <2>1. 1 \in 1 .. 1 + m  OBVIOUS
  <2> QED  BY <1>2, <1>3, <1>6, <1>7, <2>1 DEF IsJoint
<1>9. PICK k \in Nat : k = n + 1 /\ k <= l  BY <1>1, <1>8
<1>10. SubSeq(ps, 1, k) = a \o o
  <2>1. SubSeq(ps, 1, k) = SubSeq(ps, 1, n) \o SubSeq(ps, n + 1, k)  BY <1>1, <1>9, CutBegin
  <2>2. k \in 1 .. Len(ps)  BY <1>1, <1>9
  <2>3. SubSeq(ps, k, k) = <<ps[k]>>  BY <2>2, PartOfOne
  <2> QED  BY <1>2, <1>3, <1>8, <1>9, <2>1, <2>3
<1>11. Regroups(a, o, q)  BY Regrouped
<1>12. ps = SubSeq(ps, 1, k) \o q
  <2>1. ps = a \o (o \o q)
    <3>1. z = a \o t  BY <1>7 DEF IsJoint
    <3> QED  BY <1>6, <1>8, <3>1, Zenon
  <2>2. a \o (o \o q) = (a \o o) \o q  BY <1>11 DEF Regroups
  <2>3. SubSeq(ps, 1, k) \o q = (a \o o) \o q  BY <1>10
  <2>4. (a \o o) \o q = a \o (o \o q)  BY <2>2
  <2> DEFINE x == SubSeq(ps, 1, k) \o q
             y == a \o (o \o q)
  <2>5. ps = y /\ x = y  BY <2>1, <2>3, <2>4
  <2> HIDE DEF x, y
  <2>6. ps = x  BY <2>5
  <2> QED  BY <2>6 DEF x
<1>13. k = n + 1 /\ k <= Len(ps) /\ ps[k] = e  BY <1>1, <1>8, <1>9
<1> QED  BY <1>12, <1>13, Zenon DEF IsBehind

\* The part that is tried next is the next of the pieces.
LEMMA NextPiece ==
  ASSUME QualifyInv, stage = "plus"
  PROVE  \E ps \in Lists, n \in Nat, e \in Seq(NameTokens) :
           /\ ps = Pieces(full, PLUS) /\ n = Len(tried) /\ e = SubSeq(Drop(full, next), 1, Piece)
           /\ n + 2 <= Len(ps) /\ ps[1] = SubSeq(full, 1, plus) /\ ps[n + 2] = e
           /\ next + Piece < Len(full) =>
                ps = SubSeq(ps, 1, n + 2) \o Pieces(Drop(full, next + Piece + 1), PLUS)
<1>1. PICK s \in Seq(NameTokens) : s = full  BY DEF QualifyInv, SourcesTypes
<1>2. PICK l \in Nat, u \in Nat, k \in Nat : l = Len(s) /\ u = plus /\ k = next /\ u < k /\ k <= l
  <2>1. plus \in 0 .. Len(full) /\ next \in plus + 1 .. Len(full) /\ Len(s) \in Nat
    BY LenProperties DEF QualifyInv, QTypeOK
  <2> QED  BY <1>1, <2>1
<1>3. PLUS \in NameTokens  BY DEF NameTokens
<1>4. PICK rest \in Seq(NameTokens) : IsRest(rest, s, k, l)  BY <1>2, DropIs
<1>5. rest = Drop(full, next) /\ Len(rest) = l - k /\ \A m \in 1 .. l - k : rest[m] = s[k + m]
  BY <1>1, <1>2, <1>4 DEF IsRest
<1>6. PICK j \in Nat : j = Piece /\ j = Upto(rest, PLUS) /\ j <= l - k
  BY <1>5, PlacedIs, UptoFinds
<1>7. PICK ps \in Lists, n \in Nat : /\ ps = Pieces(full, PLUS) /\ n = Len(tried)
                                     /\ n + 1 <= Len(ps) /\ ps = SubSeq(ps, 1, n + 1) \o Pieces(rest, PLUS)
  <2>1. tried \in Seq(Seq(NameTokens) \X Outcomes)  BY DEF QualifyInv, SourcesTypes
  <2>2. Len(tried) \in Nat  BY <2>1, LenProperties
  <2>3. Pieces(full, PLUS) \in Lists  BY <1>1, PiecesType
  <2>4. /\ Len(tried) + 1 <= Len(Pieces(full, PLUS))
        /\ Pieces(full, PLUS) = SubSeq(Pieces(full, PLUS), 1, Len(tried) + 1) \o Pieces(Drop(full, next), PLUS)
    BY DEF QualifyInv, WalkInv
  <2> QED  BY <1>5, <2>2, <2>3, <2>4
<1>8. PICK e \in Seq(NameTokens) : e = SubSeq(rest, 1, j)  BY <1>5, <1>6, BeginType
<1>9. PICK q \in Seq(Seq(NameTokens)) :
        /\ Pieces(rest, PLUS) = <<e>> \o q
        /\ j < l - k => q = Pieces(Drop(rest, j + 1), PLUS)
  <2>1. CASE j < l - k
    <3>1. Pieces(rest, PLUS) = <<e>> \o Pieces(Drop(rest, j + 1), PLUS)
      BY <1>3, <1>5, <1>6, <1>8, <2>1, FirstPiece
    <3>2. j + 1 \in Nat  OBVIOUS
    <3>3. Drop(rest, j + 1) \in Seq(NameTokens)  BY <3>2, DropType
    <3>4. Pieces(Drop(rest, j + 1), PLUS) \in Seq(Seq(NameTokens))  BY <3>3, PiecesType DEF Lists
    <3> QED  BY <3>1, <3>4
  <2>2. CASE j = l - k
    <3>1. e = rest  BY <1>5, <1>8, <2>2, SubSeqFull
    <3>2. \A m \in 1 .. Len(rest) : rest[m] # PLUS
      <4>1. IsUpto(j, rest, PLUS)  BY <1>6, UptoFinds
      <4> QED  BY <1>5, <2>2, <4>1 DEF IsUpto
    <3>3. Pieces(rest, PLUS) = <<e>>  BY <3>1, <3>2, PiecesOfOne
    <3>4. <<e>> \in Seq(Seq(NameTokens)) /\ <<>> \in Seq(Seq(NameTokens))  BY OneElement, EmptySeq
    <3>5. <<e>> \o <<>> = <<e>>  BY <3>4, ConcatEmptySeq
    <3>6. ~(j < l - k)  BY <2>2
    <3> QED  BY <3>3, <3>4, <3>5, <3>6
  <2>3. j < l - k \/ j = l - k  BY <1>2, <1>6
  <2> QED  BY <2>1, <2>2, <2>3, Zenon
<1>10. n + 2 <= Len(ps) /\ ps[n + 2] = e /\ ps = SubSeq(ps, 1, n + 2) \o q
  <2>1. PICK m \in Nat : m = n + 1 /\ m <= Len(ps)  BY <1>7
  <2>2. ps \in Seq(Seq(NameTokens))  BY DEF Lists
  <2>3. ps = SubSeq(ps, 1, m) \o (<<e>> \o q)  BY <1>7, <1>9, <2>1
  <2>4. IsBehind(ps, m, e, q)
    <3> DEFINE Piece1 == Seq(NameTokens)
    <3>1. e \in Piece1 /\ q \in Seq(Piece1) /\ ps \in Seq(Piece1)  BY <1>8, <1>9, <2>2
    <3> HIDE DEF Piece1
    <3> QED  BY <2>1, <2>3, <3>1, PieceBehind
  <2>5. m + 1 = n + 2  BY <2>1
  <2> QED  BY <2>4, <2>5 DEF IsBehind
<1>11. ps[1] = SubSeq(full, 1, plus)
  <2>1. u = Upto(s, PLUS) /\ u < Len(s)  BY <1>1, <1>2 DEF QualifyInv, WalkInv
  <2>2. Pieces(s, PLUS) = <<SubSeq(s, 1, u)>> \o Pieces(Drop(s, u + 1), PLUS)  BY <1>3, <2>1, FirstPiece
  <2>3. u + 1 \in Nat  OBVIOUS
  <2>4. Drop(s, u + 1) \in Seq(NameTokens)  BY <2>3, DropType
  <2>5. PICK b \in Seq(Seq(NameTokens)) : b = Pieces(Drop(s, u + 1), PLUS)  BY <2>4, PiecesType DEF Lists
  <2>6. PICK a \in Seq(NameTokens) : a = SubSeq(s, 1, u)
    <3>1. u <= Len(s)  BY <1>2
    <3> QED  BY <3>1, BeginType
  <2>7. \A m \in 1 .. Len(b) + 1 : (<<a>> \o b)[m] = IF m = 1 THEN a ELSE b[m - 1]  BY InFront
  <2>8. 1 \in 1 .. Len(b) + 1
    <3>1. Len(b) \in Nat  BY LenProperties
    <3> QED  BY <3>1
  <2>9. (<<a>> \o b)[1] = a  BY <2>7, <2>8
  <2> QED  BY <1>1, <1>2, <1>7, <2>2, <2>5, <2>6, <2>9
<1>12. ASSUME k + j < l PROVE q = Pieces(Drop(full, k + j + 1), PLUS)
  <2>1. PICK m \in Nat : m = j + 1 /\ m <= l - k  BY <1>12
  <2>2. PICK x \in Nat : x = k + j + 1 /\ x <= l /\ x = k + m  BY <1>12, <2>1
  <2>3. PICK c \in Seq(NameTokens) : IsRest(c, s, x, l)  BY <1>2, <2>2, DropIs
  <2>4. PICK lk \in Nat : lk = l - k  BY <1>12
  <2>5. PICK d \in Seq(NameTokens) : IsRest(d, rest, m, lk)  BY <1>5, <2>1, <2>4, DropIs
  <2>6. c = Drop(s, x) /\ Len(c) = l - x /\ \A y \in 1 .. l - x : c[y] = s[x + y]  BY <2>3 DEF IsRest
  <2>7. d = Drop(rest, m) /\ Len(d) = lk - m /\ \A y \in 1 .. lk - m : d[y] = rest[m + y]  BY <2>5 DEF IsRest
  <2>8. lk - m = l - x  BY <2>2, <2>4
  <2>9. ASSUME NEW y \in 1 .. l - x PROVE c[y] = d[y]
    <3>1. m + y \in 1 .. l - k /\ k + (m + y) = x + y /\ y \in 1 .. lk - m  BY <2>2, <2>4, <2>8
    <3>2. d[y] = rest[m + y] /\ rest[m + y] = s[k + (m + y)]  BY <1>5, <2>7, <3>1
    <3> QED  BY <2>6, <3>1, <3>2
  <2>10. c = d
    <3>1. Len(c) = l - x /\ Len(d) = l - x  BY <2>6, <2>7, <2>8
    <3> QED  BY <2>9, <3>1, SeqEqual
  <2>11. j < l - k  BY <1>12
  <2> QED  BY <1>1, <1>9, <2>1, <2>2, <2>6, <2>7, <2>10, <2>11
<1> QED  BY <1>1, <1>2, <1>5, <1>6, <1>7, <1>8, <1>10, <1>11, <1>12

LEMMA AlternativeKeeps ==
  ASSUME QualifyInv, NEW rc \in Outcomes, Alternative(rc)
  PROVE  QualifyInv'
<1>1. /\ stage = "plus" /\ fqdn' = Placed /\ next' = next + Piece + 1
      /\ tried' = Append(tried, <<SubSeq(Placed, 1, plus + Piece), rc>>)
      /\ IF rc < 0 THEN stage' = "idle" /\ answer' = DNS_ERR
         ELSE IF rc > 0 \/ next + Piece >= Len(full) THEN stage' = "idle" /\ answer' = 0
         ELSE stage' = stage /\ answer' = answer
      /\ UNCHANGED <<ccvars, sources, rules, goodrules, from, asked, full, plus>>
  BY DEF Alternative, LookedUp, Return
<1>2. PICK s \in Seq(NameTokens), l \in Nat : s = full /\ l = Len(s)
  BY LenProperties DEF QualifyInv, SourcesTypes
<1>3. PICK u \in Nat, k \in Nat : u = plus /\ k = next /\ u < k /\ k <= l
  <2>1. plus \in 0 .. Len(full) /\ next \in plus + 1 .. Len(full)  BY <1>1 DEF QualifyInv, QTypeOK
  <2> QED  BY <1>2, <2>1
<1>4. PICK j \in Nat, z \in Seq(NameTokens) :
        /\ j = Piece /\ k + j <= l /\ z = Placed /\ Len(z) = l
        /\ \A p \in 1 .. l : p <= u \/ p > k + j => z[p] = s[p]
        /\ SubSeq(z, 1, u + j) = SubSeq(s, 1, u) \o SubSeq(Drop(s, k), 1, j)
  BY <1>1, <1>2, <1>3, PlacedIs
<1>5. PICK ps \in Lists, n \in Nat, e \in Seq(NameTokens) :
           /\ ps = Pieces(s, PLUS) /\ n = Len(tried) /\ e = SubSeq(Drop(s, k), 1, j)
           /\ n + 2 <= Len(ps) /\ ps[1] = SubSeq(s, 1, u) /\ ps[n + 2] = e
           /\ k + j < l => ps = SubSeq(ps, 1, n + 2) \o Pieces(Drop(s, k + j + 1), PLUS)
  BY <1>1, <1>2, <1>3, <1>4, NextPiece
<1>6. PICK name \in Seq(NameTokens) : name = SubSeq(z, 1, u + j) /\ name = ps[1] \o ps[n + 2]
  <2>1. ps[1] \o ps[n + 2] = SubSeq(z, 1, u + j)  BY <1>4, <1>5
  <2>2. SubSeq(s, 1, u) \in Seq(NameTokens)  BY <1>2, <1>3, BeginType
  <2>3. ps[1] \o ps[n + 2] \in Seq(NameTokens)  BY <1>5, <2>2, ConcatProperties
  <2> QED  BY <2>1, <2>3
<1> DEFINE Pairs == Seq(NameTokens) \X Outcomes
<1>7. PICK one \in Pairs : one = <<name, rc>> /\ one[1] = name /\ one[2] = rc
  <2>1. <<name, rc>> \in Pairs  OBVIOUS
  <2>2. <<name, rc>>[1] = name /\ <<name, rc>>[2] = rc  OBVIOUS
  <2> HIDE DEF Pairs
  <2> QED  BY <2>1, <2>2
<1>8. tried \in Seq(Pairs)  BY DEF QualifyInv, SourcesTypes
<1>9. PICK w \in Seq(Pairs) : IsAppend(w, tried, n, one)
  <2> HIDE DEF Pairs
  <2> QED  BY <1>5, <1>8, Appended
<1>10. tried' = w  BY <1>1, <1>3, <1>4, <1>6, <1>7, <1>9 DEF IsAppend
<1>11. Len(w) = n + 1 /\ DOMAIN w = 1 .. n + 1 /\ w[n + 1] = one /\ \A t \in 1 .. n : w[t] = tried[t]
  BY <1>9 DEF IsAppend
<1>12. DOMAIN tried = 1 .. n  BY <1>5, <1>8, LenProperties
<1>13. stage' = "plus" => rc = 0 /\ k + j < l
  <2>1. rc \in {-2, 0, 1}  BY DEF Outcomes, DNS_ERR
  <2> QED  BY <1>1, <1>2, <1>3, <1>4, <2>1
<1>14. QTypeOK'
  <2>1. CacheTypeOK'  BY <1>1 DEF QualifyInv, QTypeOK, CacheTypeOK, ccvars
  <2>2. stage' \in {"idle", "name", "plus"} /\ answer' \in {DNS_INT, DNS_ERR, 0, 1}
    BY <1>1 DEF QualifyInv, QTypeOK
  <2>3. Len(fqdn') = Len(full') /\ plus' \in 0 .. Len(full')  BY <1>1, <1>2, <1>3, <1>4
  <2>4. stage' = "plus" => next' \in plus' + 1 .. Len(full')  BY <1>1, <1>2, <1>3, <1>4, <1>13
  <2> QED  BY <2>1, <2>2, <2>3, <2>4 DEF QTypeOK
<1>15. SourcesTypes'
  BY <1>1, <1>4, <1>10 DEF QualifyInv, SourcesTypes, sources
<1>16. RulesInv'
  BY <1>1 DEF QualifyInv, RulesInv, ccvars
<1>17. WalkInv'
  <2>1. plus' = Upto(full', PLUS)  BY <1>1 DEF QualifyInv, WalkInv
  <2>2. stage' # "name"  BY <1>1
  <2>3. ASSUME stage' = "plus"
        PROVE  /\ \A p \in 1 .. Len(full') : p <= plus' \/ p > next' => fqdn'[p] = full'[p]
               /\ \A t \in 1 .. Len(tried') : tried'[t][2] = 0
               /\ Len(tried') + 1 <= Len(Pieces(full', PLUS))
               /\ Pieces(full', PLUS) =
                    SubSeq(Pieces(full', PLUS), 1, Len(tried') + 1) \o Pieces(Drop(full', next'), PLUS)
    <3>1. rc = 0 /\ k + j < l  BY <1>13, <2>3
    <3>2. \A p \in 1 .. l : p > k + j + 1 => p > k + j  OBVIOUS
    <3>3. \A p \in 1 .. l : p <= u \/ p > k + j + 1 => z[p] = s[p]  BY <1>4, <3>2
    <3>4. \A t \in 1 .. n : tried[t][2] = 0  BY <1>1, <1>5 DEF QualifyInv, WalkInv
    <3>5. \A t \in 1 .. n + 1 : t \in 1 .. n \/ t = n + 1  OBVIOUS
    <3>6. \A t \in 1 .. n + 1 : w[t][2] = 0  BY <1>7, <1>11, <3>1, <3>4, <3>5
    <3>7. n + 1 + 1 = n + 2  OBVIOUS
    <3>8. next' = k + j + 1 /\ full' = s /\ plus' = u /\ fqdn' = z /\ Pieces(full', PLUS) = ps
      BY <1>1, <1>2, <1>3, <1>4, <1>5
    <3>9. ps = SubSeq(ps, 1, n + 2) \o Pieces(Drop(s, k + j + 1), PLUS)  BY <1>5, <3>1
    <3>10. Len(tried') = n + 1 /\ Len(full') = l  BY <1>2, <1>10, <1>11, <3>8
    <3>11. Len(tried') + 1 = n + 2  BY <3>7, <3>10
    <3> QED  BY <1>5, <1>10, <3>3, <3>6, <3>8, <3>9, <3>10, <3>11
  <2> QED  BY <2>1, <2>2, <2>3 DEF WalkInv
<1>18. AlternativesInOrder'
  <2>1. MeantNames = MeantBy(ps) /\ MeantNames' = MeantBy(ps)  BY <1>1, <1>2, <1>5 DEF MeantNames, MeantBy
  <2>2. PICK m \in Nat : m = Len(ps)
    <3>1. ps \in Seq(Seq(NameTokens))  BY DEF Lists
    <3> QED  BY <3>1, LenProperties
  <2>3. m # 1 /\ n + 1 \in 1 .. m - 1 /\ n + 1 + 1 = n + 2
    <3>1. n + 2 <= m  BY <1>5, <2>2
    <3> QED  BY <3>1
  <2>4. Len(MeantBy(ps)) = m - 1 /\ \A a \in 1 .. m - 1 : MeantBy(ps)[a] = ps[1] \o ps[a + 1]
    BY <2>2, <2>3, MeantType
  <2>5. MeantBy(ps)[n + 1] = name  BY <1>6, <2>3, <2>4
  <2>6. \A t \in 1 .. n : tried[t][1] = MeantBy(ps)[t] /\ tried[t][2] = 0
    <3>1. \A t \in DOMAIN tried : tried[t][1] = MeantNames[t]
      BY <1>1 DEF QualifyInv, AlternativesInOrder
    <3>2. \A t \in 1 .. Len(tried) : tried[t][2] = 0  BY <1>1 DEF QualifyInv, WalkInv
    <3> QED  BY <1>5, <1>12, <2>1, <3>1, <3>2
  <2>7. ASSUME NEW t \in 1 .. n + 1
        PROVE  w[t][1] = MeantBy(ps)[t] /\ (t < n + 1 => w[t][2] = 0)
    <3>1. t \in 1 .. n \/ t = n + 1  OBVIOUS
    <3>2. CASE t \in 1 .. n  BY <1>11, <2>6, <3>2
    <3>3. CASE t = n + 1
      <4>1. ~(t < n + 1)  BY <3>3
      <4> QED  BY <1>7, <1>11, <2>5, <3>3, <4>1
    <3> QED  BY <3>1, <3>2, <3>3
  <2>8. n + 1 <= m - 1  BY <2>3
  <2> QED  BY <1>10, <1>11, <2>1, <2>4, <2>7, <2>8 DEF AlternativesInOrder
<1> QED  BY <1>14, <1>15, <1>16, <1>17, <1>18 DEF QualifyInv

LEMMA BetweenKeeps ==
  ASSUME QualifyInv, RulesBetween \/ Change
  PROVE  QualifyInv'
<1>1. /\ stage = "idle" /\ UNCHANGED <<rulefile, local, host, rules, goodrules, from, stage, walk, answer>>
      /\ resolv' = resolv \/ resolv' \in ResolvFiles
      /\ \/ ccvars' = ccvars
         \/ Pass
  BY DEF RulesBetween, Change, sources
<1>2. CacheTypeOK' /\ ok' = ok
  <2>1. CASE ccvars' = ccvars  BY <2>1 DEF QualifyInv, QTypeOK, CacheTypeOK, ccvars
  <2>2. CASE Pass
    <3>1. MaxNow \in Nat  BY CacheAssumption
    <3> QED  BY <2>2, <3>1 DEF QualifyInv, QTypeOK, CacheTypeOK, Pass
  <2> QED  BY <1>1, <2>1, <2>2
<1>3. UNCHANGED <<asked, fqdn, full, plus, next, tried, rules, goodrules, from, stage, answer>>  BY <1>1 DEF walk
<1>4. QTypeOK'  BY <1>2, <1>3 DEF QualifyInv, QTypeOK
<1>5. SourcesTypes'  BY <1>1, <1>3 DEF QualifyInv, SourcesTypes
<1>6. RulesInv'  BY <1>2, <1>3 DEF QualifyInv, RulesInv
<1>7. WalkInv'  BY <1>3 DEF QualifyInv, WalkInv
<1>8. AlternativesInOrder'  BY <1>3 DEF QualifyInv, AlternativesInOrder, MeantNames
<1> QED  BY <1>4, <1>5, <1>6, <1>7, <1>8 DEF QualifyInv

LEMMA QualifyStep ==
  ASSUME QualifyInv, [QNext]_qvars
  PROVE  QualifyInv'
<1>1. CASE \E name \in Asked : CallFails(name)  BY <1>1, CallFailsKeeps
<1>2. CASE \E name \in Asked : Call(name)  BY <1>2, CallKeeps
<1>3. CASE \E rc \in {DNS_ERR, 0, 1} : Lookup(rc)  BY <1>3, LookupKeeps DEF Outcomes
<1>4. CASE \E rc \in {DNS_ERR, 0, 1} : Alternative(rc)  BY <1>4, AlternativeKeeps DEF Outcomes
<1>5. CASE RulesBetween \/ Change  BY <1>5, BetweenKeeps
<1>6. CASE UNCHANGED qvars
  <2>1. UNCHANGED <<now, ok, uses, deadline, load, rulefile, local, resolv, host, rules, goodrules, from, stage,
                    asked, fqdn, full, plus, next, tried, answer>>
    BY <1>6 DEF qvars, ccvars, sources, walk
  <2>2. QTypeOK'  BY <2>1 DEF QualifyInv, QTypeOK, CacheTypeOK
  <2>3. SourcesTypes'  BY <2>1 DEF QualifyInv, SourcesTypes
  <2>4. RulesInv'  BY <2>1 DEF QualifyInv, RulesInv
  <2>5. WalkInv'  BY <2>1 DEF QualifyInv, WalkInv
  <2>6. AlternativesInOrder'  BY <2>1 DEF QualifyInv, AlternativesInOrder, MeantNames
  <2> QED  BY <2>2, <2>3, <2>4, <2>5, <2>6 DEF QualifyInv
<1> QED  BY <1>1, <1>2, <1>3, <1>4, <1>5, <1>6 DEF QNext

LEMMA QualifyStart ==
  ASSUME QInit
  PROVE  QualifyInv
<1>1. /\ CacheInit /\ ok = FALSE /\ rulefile \in RuleFiles /\ local \in Locals /\ resolv \in ResolvFiles
      /\ host \in Hosts /\ stage = "idle" /\ asked = <<>> /\ fqdn = <<>> /\ full = <<>> /\ plus = 0 /\ next = 0
      /\ tried = <<>> /\ answer = 0
  BY DEF QInit, CacheInit
<1>2. <<>> \in Seq(NameTokens) /\ Len(<<>>) = 0 /\ <<>> \in Seq(Seq(NameTokens) \X Outcomes)  BY EmptySeq
<1>3. CacheTypeOK
  <2>1. /\ now = 0 /\ ok = FALSE /\ uses = 0 /\ deadline = 0
        /\ load = [at |-> 0, served |-> 0]
    BY <1>1 DEF CacheInit
  <2>2. MaxNow \in Nat /\ Uses \in Nat /\ TTL \in Nat  BY CacheAssumption
  <2>3. 0 \in 0 .. MaxNow /\ 0 \in 0 .. Uses /\ 0 \in 0 .. MaxNow + TTL /\ 0 \in Nat  BY <2>2
  <2>4. [at |-> 0, served |-> 0] \in [at : 0 .. MaxNow, served : Nat]  BY <2>3
  <2> QED  BY <2>1, <2>3, <2>4 DEF CacheTypeOK
<1>4. QTypeOK  BY <1>1, <1>2, <1>3 DEF QTypeOK
<1>5. SourcesTypes  BY <1>1, <1>2 DEF SourcesTypes
<1>6. WalkInv
  <2>1. Upto(<<>>, PLUS) \in Nat /\ Upto(<<>>, PLUS) <= 0  BY <1>2, UptoFinds
  <2>2. Upto(<<>>, PLUS) = 0  BY <2>1
  <2> QED  BY <1>1, <2>2 DEF WalkInv
<1> QED  BY <1>1, <1>4, <1>5, <1>6 DEF QualifyInv, RulesInv, AlternativesInOrder

\* A name is looked up as the sources configure it, for any sources, names, lifetimes of
\* the rules and outcomes of the lookups: by the rules of a source that was read
\* completely, and with its alternatives in their order, each built in the buffer that
\* holds the ones to come (dns_ipq.c:40-80, dns_rcrw.c:18-141).
THEOREM NamesAreQualified == QSpec => []QualifiedAsConfigured
<1>1. QInit => QualifyInv  BY QualifyStart
<1>2. QualifyInv /\ [QNext]_qvars => QualifyInv'  BY QualifyStep
<1>3. QualifyInv => QualifiedAsConfigured
  <2> SUFFICES ASSUME QualifyInv PROVE QualifiedAsConfigured  OBVIOUS
  <2>0. QTypeOK /\ AlternativesInOrder  BY DEF QualifyInv
  <2>1. RulesAreLastLoad  BY DEF QualifyInv, RulesInv, RulesAreLastLoad
  <2>2. CASE stage # "idle"
    <3>1. asked \in Seq(NameTokens) /\ Readable(from) /\ full = Qualified(asked, RulesOf(from))
      BY <2>2 DEF QualifyInv, RulesInv, SourcesTypes
    <3>2. SearchedAsConfigured  BY <3>1, NamesConfigured
    <3> QED  BY <2>0, <2>1, <3>2 DEF QualifiedAsConfigured
  <2>3. CASE stage = "idle"
    <3>1. SearchedAsConfigured  BY <2>3 DEF SearchedAsConfigured
    <3> QED  BY <2>0, <2>1, <3>1 DEF QualifiedAsConfigured
  <2> QED  BY <2>2, <2>3
<1> QED  BY <1>1, <1>2, <1>3, PTL DEF QSpec

=============================================================================
