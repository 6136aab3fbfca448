------------------------------- MODULE Loops --------------------------------
(***************************************************************************)
(* Lemmas about the loops of the models: functions that are defined by     *)
(* recursion over the numbers up to a bound, and the sequences they make.  *)
(***************************************************************************)
EXTENDS Integers, SequencesExt, SequenceTheorems, FiniteSetTheorems, WellFoundedInduction, TLAPS

-----------------------------------------------------------------------------
(***************************************************************************)
(* Loops and sums                                                          *)
(***************************************************************************)
\* Every nonempty set of naturals has a least member.
LEMMA LeastNat ==
  ASSUME NEW T \in SUBSET Nat, T # {}
  PROVE  \E m \in T : \A n \in T : m <= n
<1> DEFINE R == OpToRel(<, Nat)
<1>1. PICK m \in T : \A n \in T : ~ (<<n, m>> \in R)
  <2>1. IsWellFoundedOn(R, Nat)  BY NatLessThanWellFounded
  <2> HIDE DEF R
  <2> QED  BY <2>1, WFMin
<1>2. \A n \in T : ~ (n < m)  BY <1>1 DEF OpToRel
<1> QED  BY <1>2

\* What holds at first and is kept by every turn holds after any of them.
LEMMA Induct ==
  ASSUME NEW n \in Nat, NEW T, 0 \in T, \A i \in 1 .. n : i - 1 \in T => i \in T
  PROVE  \A i \in 0 .. n : i \in T
<1> DEFINE U == {i \in 0 .. n : i \notin T}
<1>1. SUFFICES ASSUME U # {} PROVE FALSE  OBVIOUS
<1>2. PICK m \in U : \A k \in U : m <= k
  <2>1. U \in SUBSET Nat  OBVIOUS
  <2> HIDE DEF U
  <2> QED  BY <1>1, <2>1, LeastNat
<1>3. m \in 0 .. n /\ m \notin T /\ m # 0  OBVIOUS
<1>4. m - 1 \in 0 .. n /\ m - 1 \notin U /\ m \in 1 .. n  BY <1>2, <1>3
<1> QED  BY <1>3, <1>4

\* g is what n turns of a loop make of base, one after the other
Turns(g, n, base, turn, S) ==
  /\ g \in [0 .. n -> S] /\ g[0] = base
  /\ \A i \in 1 .. n : g[i] = turn[<<g[i - 1], i>>]

\* A loop has a result after every turn.
LEMMA TurnsExist ==
  ASSUME NEW S, NEW n \in Nat, NEW base \in S, NEW turn \in [S \X (1 .. n) -> S]
  PROVE  \E g : Turns(g, n, base, turn, S)
<1> DEFINE T == {m \in 0 .. n : ~ \E g : Turns(g, m, base, turn, S)}
<1>1. SUFFICES ASSUME T # {} PROVE FALSE  OBVIOUS
<1>2. PICK m \in T : \A k \in T : m <= k
  <2>1. T \in SUBSET Nat  OBVIOUS
  <2> HIDE DEF T
  <2> QED  BY <1>1, <2>1, LeastNat
<1>3. m \in 0 .. n /\ ~ \E g : Turns(g, m, base, turn, S)  OBVIOUS
<1>4. CASE m = 0
  <2>1. Turns([i \in 0 .. 0 |-> base], 0, base, turn, S)  BY DEF Turns
  <2> QED  BY <1>3, <1>4, <2>1
<1>5. CASE m # 0
  <2>1. m - 1 \in 0 .. n /\ m - 1 \notin T  BY <1>2, <1>3, <1>5
  <2>2. PICK h : Turns(h, m - 1, base, turn, S)  BY <2>1
  <2>3. h[m - 1] \in S /\ m \in 1 .. n  BY <1>3, <1>5, <2>1, <2>2 DEF Turns
  <2>4. turn[<<h[m - 1], m>>] \in S
    <3>1. <<h[m - 1], m>> \in S \X (1 .. n)  BY <2>3
    <3> QED  BY <3>1
  <2> DEFINE g == [i \in 0 .. m |-> IF i = m THEN turn[<<h[m - 1], m>>] ELSE h[i]]
  <2>5. ASSUME NEW i \in 0 .. m PROVE g[i] \in S
    BY <1>3, <2>2, <2>4 DEF Turns
  <2>6. g[0] = base  BY <1>3, <1>5, <2>2 DEF Turns
  <2>7. ASSUME NEW i \in 1 .. m PROVE g[i] = turn[<<g[i - 1], i>>]
    <3>1. g[i - 1] = h[i - 1]  BY <1>3
    <3>2. CASE i = m  BY <1>3, <3>1, <3>2
    <3>3. CASE i # m
      <4>1. i \in 1 .. m - 1 /\ g[i] = h[i]  BY <1>3, <3>3
      <4> QED  BY <2>2, <3>1, <4>1 DEF Turns
    <3> QED  BY <3>2, <3>3
  <2>8. g \in [0 .. m -> S]
    <3>1. g = [i \in 0 .. m |-> g[i]]  OBVIOUS
    <3> HIDE DEF g
    <3> QED  BY <2>5, <3>1
  <2>9. Turns(g, m, base, turn, S)
    <3> HIDE DEF g
    <3> QED  BY <2>6, <2>7, <2>8 DEF Turns
  <2> QED  BY <1>3, <2>9
<1> QED  BY <1>4, <1>5

\* Two sums with the same addends grow alike.
SameAddends(g, h, n) == \A i \in 1 .. n : h[i] - h[i - 1] = g[i] - g[i - 1]

LEMMA SumsAgree ==
  ASSUME NEW n \in Nat, NEW g \in [0 .. n -> Int], NEW h \in [0 .. n -> Int], SameAddends(g, h, n)
  PROVE  h[n] - h[0] = g[n] - g[0]
<1> DEFINE T == {i \in 0 .. n : h[i] - h[0] # g[i] - g[0]}
<1>1. SUFFICES ASSUME T # {} PROVE FALSE
  <2>1. n \in 0 .. n  OBVIOUS
  <2>2. n \notin T => h[n] - h[0] = g[n] - g[0]  BY <2>1
  <2> HIDE DEF T
  <2> QED  BY <2>2
<1>2. PICK m \in T : \A k \in T : m <= k
  <2>1. T \in SUBSET Nat  OBVIOUS
  <2> HIDE DEF T
  <2> QED  BY <1>1, <2>1, LeastNat
<1>3. m \in 0 .. n /\ h[m] - h[0] # g[m] - g[0] /\ m # 0  OBVIOUS
<1>4. m - 1 \in 0 .. n /\ m - 1 \notin T /\ m \in 1 .. n  BY <1>2, <1>3
<1>5. h[m - 1] - h[0] = g[m - 1] - g[0] /\ h[m] - h[m - 1] = g[m] - g[m - 1]
  BY <1>4 DEF SameAddends
<1>6. PICK x, y, z \in Int : x = h[m] /\ y = h[0] /\ z = h[m - 1]  BY <1>4
<1>7. PICK u, v, w \in Int : u = g[m] /\ v = g[m - 1] /\ w = g[0]  BY <1>4
<1>8. z - y = v - w /\ x - z = u - v  BY <1>5, <1>6, <1>7
<1>9. x - y = u - w  BY <1>8
<1> QED  BY <1>3, <1>6, <1>7, <1>9

\* Two loops that begin alike and go on alike are the same.
Alike(f, g, n) == f[0] = g[0] /\ \A i \in 1 .. n : f[i - 1] = g[i - 1] => f[i] = g[i]

LEMMA SameTurns ==
  ASSUME NEW n \in Nat, NEW f, NEW g, Alike(f, g, n)
  PROVE  \A i \in 0 .. n : f[i] = g[i]
<1> DEFINE T == {i \in 0 .. n : f[i] # g[i]}
<1>1. SUFFICES ASSUME T # {} PROVE FALSE  OBVIOUS
<1>2. PICK m \in T : \A k \in T : m <= k
  <2>1. T \in SUBSET Nat  OBVIOUS
  <2> HIDE DEF T
  <2> QED  BY <1>1, <2>1, LeastNat
<1>3. m \in 0 .. n /\ f[m] # g[m] /\ m # 0  BY DEF Alike
<1>4. m - 1 \in 0 .. n /\ m - 1 \notin T /\ m \in 1 .. n  BY <1>2, <1>3
<1> QED  BY <1>3, <1>4 DEF Alike

-----------------------------------------------------------------------------
(***************************************************************************)
(* Sequences                                                               *)
(***************************************************************************)
LEMMA OneElement ==
  ASSUME NEW S, NEW e \in S
  PROVE  <<e>> \in Seq(S) /\ Len(<<e>>) = 1 /\ <<e>>[1] = e
OBVIOUS

Regroups(a, b, c) == (a \o b) \o c = a \o (b \o c)

LEMMA Regrouped ==
  ASSUME NEW S, NEW a \in Seq(S), NEW b \in Seq(S), NEW c \in Seq(S)
  PROVE  Regroups(a, b, c)
BY ConcatAssociative DEF Regroups

LEMMA MadeSeq ==
  ASSUME NEW S, NEW n \in Nat, NEW f \in [1 .. n -> S]
  PROVE  f \in Seq(S) /\ Len(f) = n
OBVIOUS

LEMMA WiderSeq ==
  ASSUME NEW S, NEW T, S \subseteq T, NEW s \in Seq(S)
  PROVE  s \in Seq(T)
<1>1. PICK n \in Nat : n = Len(s) /\ s \in [1 .. n -> S]  BY LenProperties
<1>2. s \in [1 .. n -> T]
  <2>1. s = [i \in 1 .. n |-> s[i]] /\ \A i \in 1 .. n : s[i] \in T  BY <1>1
  <2> QED  BY <2>1
<1> QED  BY <1>2, MadeSeq

\* a function on 1 .. n as a sequence
LEMMA AsSeq ==
  ASSUME NEW S, NEW n \in Nat, NEW f \in [1 .. n -> S]
  PROVE  \E s \in Seq(S) : s = f /\ Len(s) = n /\ DOMAIN s = 1 .. n /\ \A i \in 1 .. n : s[i] = f[i]
<1>1. PICK s \in Seq(S) : s = f  BY MadeSeq
<1>2. Len(s) = n  BY <1>1, MadeSeq
<1>3. DOMAIN s = 1 .. n  BY <1>1
<1> QED  BY <1>1, <1>2, <1>3

\* t is s, of length n, and behind it e
IsAppend(t, s, n, e) ==
  /\ t = Append(s, e) /\ n = Len(s) /\ Len(t) = n + 1 /\ DOMAIN t = 1 .. n + 1
  /\ t[n + 1] = e /\ \A i \in 1 .. n : t[i] = s[i]

LEMMA Appended ==
  ASSUME NEW S, NEW s \in Seq(S), NEW e \in S, NEW n, n = Len(s)
  PROVE  \E t \in Seq(S) : IsAppend(t, s, n, e)
<1>1. PICK t \in Seq(S) : t = Append(s, e)  BY AppendProperties
<1>2. Len(t) = Len(s) + 1 /\ t[Len(s) + 1] = e /\ \A i \in 1 .. Len(s) : t[i] = s[i]
  BY <1>1, AppendProperties
<1>3. DOMAIN t = 1 .. Len(s) + 1  BY <1>2, LenProperties
<1> QED  BY <1>1, <1>2, <1>3 DEF IsAppend

\* e and behind it s
LEMMA InFront ==
  ASSUME NEW S, NEW s \in Seq(S), NEW e \in S
  PROVE  /\ <<e>> \o s \in Seq(S) /\ Len(<<e>> \o s) = Len(s) + 1 /\ <<e>> \o s # <<>>
         /\ \A i \in 1 .. Len(s) + 1 : (<<e>> \o s)[i] = IF i = 1 THEN e ELSE s[i - 1]
<1>1. PICK n \in Nat : n = Len(s)  BY LenProperties
<1>2. PICK a \in Seq(S) : a = <<e>> /\ Len(a) = 1 /\ a[1] = e  BY OneElement
<1>3. /\ a \o s \in Seq(S) /\ Len(a \o s) = 1 + n
      /\ \A i \in 1 .. 1 + n : (a \o s)[i] = IF i <= 1 THEN a[i] ELSE s[i - 1]
  BY <1>1, <1>2, ConcatProperties
<1>4. a \o s # <<>>  BY <1>3, EmptySeq
<1>5. 1 + n = n + 1 /\ \A i \in 1 .. n + 1 : i <= 1 <=> i = 1  OBVIOUS
<1>6. \A i \in 1 .. n + 1 : (a \o s)[i] = IF i = 1 THEN e ELSE s[i - 1]  BY <1>2, <1>3, <1>5
<1> QED  BY <1>1, <1>2, <1>3, <1>4, <1>5, <1>6

LEMMA FirstAndRest ==
  ASSUME NEW S, NEW s \in Seq(S), s # <<>>
  PROVE  /\ s[1] \in S /\ Tail(s) \in Seq(S) /\ Len(s) = Len(Tail(s)) + 1
         /\ s = <<s[1]>> \o Tail(s)
<1>1. PICK n \in Nat : n = Len(s) /\ n # 0  BY LenProperties, EmptySeq
<1>2. PICK e \in S : e = s[1]  BY <1>1, ElementOfSeq
<1>3. PICK t \in Seq(S) : t = Tail(s)  BY HeadTailProperties
<1>4. PICK m \in Nat : m = Len(t) /\ n = m + 1  BY <1>1, <1>3, HeadTailProperties
<1>5. \A i \in 1 .. m : t[i] = s[i + 1]  BY <1>3, <1>4, HeadTailProperties
<1>6. PICK w \in Seq(S) : w = <<e>> \o t  BY InFront
<1>7. Len(w) = n /\ \A i \in 1 .. m + 1 : w[i] = IF i = 1 THEN e ELSE t[i - 1]  BY <1>4, <1>6, InFront
<1>8. ASSUME NEW i \in 1 .. n PROVE s[i] = w[i]
  <2>1. i # 1 => i - 1 \in 1 .. m /\ i - 1 + 1 = i  BY <1>4
  <2> QED  BY <1>2, <1>4, <1>5, <1>7, <2>1
<1>9. s = w  BY <1>1, <1>7, <1>8, SeqEqual
<1> QED  BY <1>1, <1>2, <1>3, <1>4, <1>6, <1>9

-----------------------------------------------------------------------------
(***************************************************************************)
(* Sequences of sequences                                                  *)
(***************************************************************************)
\* g joins the sequences of s one after the other
Joined(g, s, S) ==
  /\ g \in [0 .. Len(s) -> Seq(S)] /\ g[0] = <<>>
  /\ \A i \in 1 .. Len(s) : g[i] = g[i - 1] \o s[i]

\* FlattenSeq is the last of these sequences.
LEMMA FlattenIs ==
  ASSUME NEW S, NEW s \in Seq(Seq(S))
  PROVE  \E g : Joined(g, s, S) /\ FlattenSeq(s) = g[Len(s)]
<1> DEFINE n == Len(s)
           turn == [a \in Seq(S) \X (1 .. n) |-> a[1] \o s[a[2]]]
           Is(f) == f = [i \in 1 .. n |-> IF i = 1 THEN s[i] ELSE f[i - 1] \o s[i]]
           f == CHOOSE f : Is(f)
<1>1. n \in Nat /\ \A i \in 1 .. n : s[i] \in Seq(S)  BY LenProperties, ElementOfSeq
<1>2. turn \in [Seq(S) \X (1 .. n) -> Seq(S)]  BY <1>1, ConcatProperties
<1>3. PICK g : Turns(g, n, <<>>, turn, Seq(S))
  <2>1. <<>> \in Seq(S)  BY EmptySeq
  <2> HIDE DEF turn, n
  <2> QED  BY <1>1, <1>2, <2>1, TurnsExist
<1>4. ASSUME NEW i \in 1 .. n PROVE g[i] = g[i - 1] \o s[i] /\ g[i - 1] \in Seq(S)
  <2>1. g[i - 1] \in Seq(S)
    <3>1. i - 1 \in 0 .. n  BY <1>1
    <3>2. g \in [0 .. n -> Seq(S)]  BY <1>3 DEF Turns
    <3> HIDE DEF n
    <3> QED  BY <3>1, <3>2
  <2>2. <<g[i - 1], i>> \in Seq(S) \X (1 .. n)  BY <2>1
  <2>3. g[i] = turn[<<g[i - 1], i>>]  BY <1>3 DEF Turns
  <2> QED  BY <2>1, <2>2, <2>3
<1>5. g[0] = <<>> /\ \A i \in 0 .. n : g[i] \in Seq(S)  BY <1>3 DEF Turns
<1> DEFINE h == [i \in 1 .. n |-> g[i]]
<1>6. Is(h)
  <2>1. ASSUME NEW i \in 1 .. n PROVE g[i] = IF i = 1 THEN s[i] ELSE h[i - 1] \o s[i]
    <3>1. CASE i = 1
      <4>1. g[i] = <<>> \o s[i] /\ s[i] \in Seq(S)
        <5>1. i - 1 = 0  BY <3>1
        <5> HIDE DEF n
        <5> QED  BY <1>1, <1>4, <1>5, <5>1
      <4> QED  BY <3>1, <4>1, ConcatEmptySeq
    <3>2. CASE i # 1
      <4>1. i - 1 \in 1 .. n  BY <1>1, <3>2
      <4> QED  BY <1>4, <3>2, <4>1
    <3> QED  BY <3>1, <3>2
  <2>2. h = [i \in 1 .. n |-> IF i = 1 THEN s[i] ELSE h[i - 1] \o s[i]]
    <3> DEFINE hh == h
    <3>1. hh = [i \in 1 .. n |-> g[i]]  OBVIOUS
    <3>2. \A i \in 1 .. n : g[i] = IF i = 1 THEN s[i] ELSE hh[i - 1] \o s[i]  BY <2>1
    <3> HIDE DEF hh, n
    <3>3. hh = [i \in 1 .. n |-> IF i = 1 THEN s[i] ELSE hh[i - 1] \o s[i]]  BY <3>1, <3>2
    <3> QED  BY <3>3 DEF hh
  <2> QED  BY <2>2
<1> HIDE DEF h
<1>7. PICK e : e = f /\ Is(e)
  <2> HIDE DEF Is
  <2> QED  BY <1>6
<1>8. \A i \in 1 .. n : e[i] = IF i = 1 THEN s[i] ELSE e[i - 1] \o s[i]
  <2> HIDE DEF n
  <2> QED  BY <1>7
<1> DEFINE e0 == [i \in 0 .. n |-> IF i = 0 THEN <<>> ELSE e[i]]
<1>9. e0[0] = g[0]  BY <1>1, <1>5
<1>10. ASSUME NEW i \in 1 .. n, e0[i - 1] = g[i - 1] PROVE e0[i] = g[i]
  <2>1. e0[i] = e[i]  BY <1>1
  <2>2. CASE i = 1
    <3>1. g[i] = <<>> \o s[i] /\ s[i] \in Seq(S)
      <4>1. i - 1 = 0  BY <2>2
      <4> HIDE DEF n
      <4> QED  BY <1>1, <1>4, <1>5, <4>1
    <3>2. g[i] = s[i]  BY <3>1, ConcatEmptySeq
    <3> QED  BY <1>8, <2>1, <2>2, <3>2
  <2>3. CASE i # 1
    <3>1. e0[i - 1] = e[i - 1]  BY <1>1, <2>3
    <3> QED  BY <1>4, <1>8, <1>10, <2>1, <2>3, <3>1
  <2> QED  BY <2>2, <2>3
<1> HIDE DEF e0
<1>11. \A i \in 0 .. n : e0[i] = g[i]
  <2> HIDE DEF n
  <2>1. Alike(e0, g, n)  BY <1>9, <1>10 DEF Alike
  <2> QED  BY <1>1, <2>1, SameTurns
<1>12. Joined(g, s, S)
  <2>1. g \in [0 .. n -> Seq(S)]  BY <1>3 DEF Turns
  <2> QED  BY <1>4, <1>5, <2>1 DEF Joined
<1>13. CASE n = 0
  <2>1. s = <<>>  BY <1>13, EmptySeq
  <2>2. FlattenSeq(s) = s  BY <1>13 DEF FlattenSeq
  <2> QED  BY <1>5, <1>12, <1>13, <2>1, <2>2
<1>14. CASE n # 0
  <2>1. FlattenSeq(s) = f[n]  BY <1>14 DEF FlattenSeq
  <2>2. n \in 1 .. n /\ n \in 0 .. n  BY <1>1, <1>14
  <2>3. e[n] = e0[n]  BY <2>2 DEF e0
  <2>4. e0[n] = g[n]  BY <1>11, <2>2
  <2> HIDE DEF f, Is
  <2>5. FlattenSeq(s) = g[n]  BY <1>7, <2>1, <2>3, <2>4
  <2> QED  BY <1>12, <2>5
<1> QED  BY <1>13, <1>14

LEMMA FlattenIsSeq ==
  ASSUME NEW S, NEW s \in Seq(Seq(S))
  PROVE  FlattenSeq(s) \in Seq(S)
<1>1. PICK g : Joined(g, s, S) /\ FlattenSeq(s) = g[Len(s)]  BY FlattenIs
<1>2. Len(s) \in 0 .. Len(s)  BY LenProperties
<1> QED  BY <1>1, <1>2 DEF Joined

BeginAlike(s, t, n) ==
  /\ n \in Nat /\ Len(s) \in Nat /\ Len(t) \in Nat /\ n <= Len(s) /\ n <= Len(t)
  /\ \A i \in 1 .. n : s[i] = t[i]

\* Sequences that begin alike are joined alike.
LEMMA JoinedAlike ==
  ASSUME NEW S, NEW s, NEW t, NEW g, NEW h, NEW n,
         BeginAlike(s, t, n), Joined(g, s, S), Joined(h, t, S)
  PROVE  \A i \in 0 .. n : g[i] = h[i]
<1>1. n \in Nat /\ \A i \in 1 .. n : i \in 1 .. Len(s) /\ i \in 1 .. Len(t)  BY DEF BeginAlike
<1>2. \A i \in 1 .. n : g[i] = g[i - 1] \o s[i] /\ h[i] = h[i - 1] \o t[i] /\ s[i] = t[i]
  BY <1>1 DEF Joined, BeginAlike
<1>3. Alike(g, h, n)  BY <1>2 DEF Alike, Joined
<1> QED  BY <1>1, <1>3, SameTurns

\* The beginnings of a sequence of sequences make these sequences one after the other.
LEMMA FlattenPrefix ==
  ASSUME NEW S, NEW s \in Seq(Seq(S)), NEW g, Joined(g, s, S), NEW k \in 0 .. Len(s)
  PROVE  FlattenSeq(SubSeq(s, 1, k)) = g[k]
<1>1. Len(s) \in Nat /\ k \in Nat /\ \A i \in 1 .. k : s[i] \in Seq(S)
  BY LenProperties, ElementOfSeq
<1>2. PICK t \in Seq(Seq(S)) : t = SubSeq(s, 1, k) /\ Len(t) = k /\ \A i \in 1 .. k : t[i] = s[i]
  <2>1. /\ SubSeq(s, 1, k) \in Seq(Seq(S)) /\ Len(SubSeq(s, 1, k)) = IF 1 <= k THEN k - 1 + 1 ELSE 0
        /\ \A i \in 1 .. k - 1 + 1 : SubSeq(s, 1, k)[i] = s[1 + i - 1]
    BY <1>1, SubSeqProperties
  <2>2. k - 1 + 1 = k /\ \A i \in 1 .. k : 1 + i - 1 = i  BY <1>1
  <2>3. (IF 1 <= k THEN k - 1 + 1 ELSE 0) = k  BY <1>1
  <2> QED  BY <2>1, <2>2, <2>3
<1>3. PICK h : Joined(h, t, S) /\ FlattenSeq(t) = h[k]  BY <1>2, FlattenIs
<1>4. BeginAlike(t, s, k)  BY <1>1, <1>2 DEF BeginAlike
<1>5. \A i \in 0 .. k : h[i] = g[i]  BY <1>3, <1>4, JoinedAlike
<1> QED  BY <1>1, <1>2, <1>3, <1>5

\* FlattenSeq puts a sequence added at the end behind the others.
LEMMA FlattenAppend ==
  ASSUME NEW S, NEW s \in Seq(Seq(S)), NEW e \in Seq(S)
  PROVE  FlattenSeq(Append(s, e)) = FlattenSeq(s) \o e
<1>1. PICK n \in Nat : n = Len(s)  BY LenProperties
<1>2. PICK t \in Seq(Seq(S)) : t = Append(s, e) /\ Len(t) = n + 1 /\ t[n + 1] = e /\ \A i \in 1 .. n : t[i] = s[i]
  <2>1. /\ Append(s, e) \in Seq(Seq(S)) /\ Len(Append(s, e)) = Len(s) + 1
        /\ Append(s, e)[Len(s) + 1] = e /\ \A i \in 1 .. Len(s) : Append(s, e)[i] = s[i]
    BY AppendProperties
  <2> QED  BY <1>1, <2>1
<1>3. PICK g : Joined(g, s, S) /\ FlattenSeq(s) = g[n]  BY <1>1, FlattenIs
<1>4. PICK h : Joined(h, t, S) /\ FlattenSeq(t) = h[n + 1]  BY <1>2, FlattenIs
<1>5. h[n] = g[n]
  <2>1. BeginAlike(s, t, n)  BY <1>1, <1>2 DEF BeginAlike
  <2>2. \A i \in 0 .. n : g[i] = h[i]  BY <1>3, <1>4, <2>1, JoinedAlike
  <2> QED  BY <2>2
<1>6. n + 1 \in 1 .. n + 1 /\ n + 1 - 1 = n  OBVIOUS
<1>7. \A i \in 1 .. n + 1 : h[i] = h[i - 1] \o t[i]  BY <1>2, <1>4 DEF Joined
<1>8. h[n + 1] = h[n] \o t[n + 1]
  <2>1. PICK j \in 1 .. n + 1 : j = n + 1 /\ j - 1 = n  BY <1>6
  <2>2. h[j] = h[j - 1] \o t[j]  BY <1>7
  <2> QED  BY <2>1, <2>2
<1> QED  BY <1>2, <1>3, <1>4, <1>5, <1>8

\* FlattenSeq puts a sequence added in front before the others.
LEMMA FlattenCons ==
  ASSUME NEW S, NEW s \in Seq(Seq(S)), NEW x \in Seq(S)
  PROVE  FlattenSeq(<<x>> \o s) = x \o FlattenSeq(s)
<1>1. PICK n \in Nat : n = Len(s)  BY LenProperties
<1>2. PICK t \in Seq(Seq(S)) : t = <<x>> \o s  BY InFront
<1>3. Len(t) = n + 1 /\ t[1] = x /\ \A i \in 1 .. n : t[i + 1] = s[i]
  <2>1. Len(t) = n + 1 /\ \A i \in 1 .. n + 1 : t[i] = IF i = 1 THEN x ELSE s[i - 1]
    BY <1>1, <1>2, InFront
  <2>2. ASSUME NEW i \in 1 .. n PROVE t[i + 1] = s[i]
    <3>1. PICK j \in 1 .. n + 1 : j = i + 1 /\ j # 1 /\ j - 1 = i  OBVIOUS
    <3> QED  BY <2>1, <3>1
  <2>3. 1 \in 1 .. n + 1  OBVIOUS
  <2> QED  BY <2>1, <2>2, <2>3
<1>4. PICK g : Joined(g, s, S) /\ FlattenSeq(s) = g[n]  BY <1>1, FlattenIs
<1>5. PICK h : Joined(h, t, S) /\ FlattenSeq(t) = h[n + 1]  BY <1>3, FlattenIs
<1>6. /\ \A i \in 0 .. n : g[i] \in Seq(S) /\ g[0] = <<>>
      /\ \A i \in 1 .. n : g[i] = g[i - 1] \o s[i] /\ s[i] \in Seq(S)
  BY <1>1, <1>4, ElementOfSeq DEF Joined
<1>7. h[0] = <<>> /\ \A i \in 1 .. n + 1 : h[i] = h[i - 1] \o t[i]  BY <1>3, <1>5 DEF Joined
<1> DEFINE T == {i \in 0 .. n : h[i + 1] = x \o g[i]}
<1>8. 0 \in T
  <2>1. h[1] = h[0] \o t[1]
    <3>1. 1 \in 1 .. n + 1 /\ 1 - 1 = 0  OBVIOUS
    <3> QED  BY <1>7, <3>1
  <2>2. h[1] = x /\ g[0] = <<>> /\ x \o <<>> = x  BY <1>3, <1>4, <1>7, <2>1, ConcatEmptySeq DEF Joined
  <2> QED  BY <2>2
<1>9. ASSUME NEW i \in 1 .. n, i - 1 \in T PROVE i \in T
  <2>1. i + 1 \in 1 .. n + 1 /\ i + 1 - 1 = i /\ i - 1 + 1 = i /\ i - 1 \in 0 .. n /\ i \in 0 .. n  OBVIOUS
  <2>2. h[i] = x \o g[i - 1]  BY <1>9, <2>1
  <2>3. h[i + 1] = h[i] \o s[i]
    <3>1. PICK j \in 1 .. n + 1 : j = i + 1 /\ j - 1 = i  BY <2>1
    <3>2. h[j] = h[j - 1] \o t[j]  BY <1>7
    <3>3. t[j] = s[i]  BY <1>3, <3>1
    <3> QED  BY <3>1, <3>2, <3>3
  <2>4. PICK a \in Seq(S), b \in Seq(S) : a = g[i - 1] /\ b = s[i] /\ g[i] = a \o b  BY <1>6, <2>1
  <2>5. (x \o a) \o b = x \o (a \o b)  BY ConcatAssociative
  <2> QED  BY <2>1, <2>2, <2>3, <2>4, <2>5
<1>10. \A i \in 0 .. n : i \in T
  <2> HIDE DEF T
  <2> QED  BY <1>8, <1>9, Induct
<1>11. n \in T
  <2> HIDE DEF T
  <2> QED  BY <1>10
<1> QED  BY <1>2, <1>4, <1>5, <1>11

\* An element of a sequence of s follows those of the sequences before it.
LEMMA FlattenAt ==
  ASSUME NEW S, NEW s \in Seq(Seq(S)), NEW i \in 1 .. Len(s), NEW u \in 1 .. Len(s[i]), NEW l,
         l = Len(FlattenSeq(SubSeq(s, 1, i - 1)))
  PROVE  l \in Nat /\ l + u \in 1 .. Len(FlattenSeq(s)) /\ FlattenSeq(s)[l + u] = s[i][u]
<1>1. PICK n \in Nat : n = Len(s)  BY LenProperties
<1>2. PICK g : Joined(g, s, S) /\ FlattenSeq(s) = g[n]  BY <1>1, FlattenIs
<1>3. \A k \in 0 .. n : g[k] \in Seq(S)  BY <1>1, <1>2 DEF Joined
<1>4. \A k \in 1 .. n : g[k] = g[k - 1] \o s[k] /\ s[k] \in Seq(S)  BY <1>1, <1>2, ElementOfSeq DEF Joined
<1>5. i \in 1 .. n /\ i - 1 \in 0 .. n /\ i \in 0 .. n  BY <1>1
<1>6. l = Len(g[i - 1]) /\ l \in Nat
  <2>1. FlattenSeq(SubSeq(s, 1, i - 1)) = g[i - 1]  BY <1>1, <1>2, <1>5, FlattenPrefix
  <2> QED  BY <1>3, <1>5, <2>1, LenProperties
<1>7. PICK m \in Nat : m = Len(s[i]) /\ u \in 1 .. m  BY <1>4, <1>5, LenProperties
<1> DEFINE T == {k \in 0 .. n : k >= i => l + u \in 1 .. Len(g[k]) /\ g[k][l + u] = s[i][u]}
<1>8. 0 \in T  BY <1>5
<1>9. ASSUME NEW k \in 1 .. n, k - 1 \in T PROVE k \in T
  <2>1. k - 1 \in 0 .. n /\ k \in 0 .. n  OBVIOUS
  <2>2. PICK a \in Nat, b \in Nat : a = Len(g[k - 1]) /\ b = Len(s[k]) /\ g[k - 1] \in Seq(S) /\ s[k] \in Seq(S)
    BY <1>3, <1>4, <2>1, LenProperties
  <2>3. /\ Len(g[k]) = a + b
        /\ \A j \in 1 .. a + b : g[k][j] = IF j <= a THEN g[k - 1][j] ELSE s[k][j - a]
    <3>1. PICK v \in Seq(S), w \in Seq(S) : v = g[k - 1] /\ w = s[k] /\ g[k] = v \o w  BY <1>4, <2>2
    <3>2. /\ Len(v \o w) = Len(v) + Len(w)
          /\ \A j \in 1 .. Len(v) + Len(w) : (v \o w)[j] = IF j <= Len(v) THEN v[j] ELSE w[j - Len(v)]
      BY ConcatProperties
    <3>3. Len(v) = a /\ Len(w) = b  BY <2>2, <3>1
    <3> HIDE DEF T
    <3> QED  BY <3>1, <3>2, <3>3
  <2>4. CASE k < i  BY <1>5, <2>1, <2>4
  <2>5. CASE k = i
    <3>1. a = l /\ b = m  BY <1>6, <1>7, <2>2, <2>5
    <3>2. l + u \in 1 .. a + b /\ ~(l + u <= a) /\ l + u - a = u
      <4>1. PICK c \in Nat, d \in Nat : c = l /\ d = u /\ d \in 1 .. m  BY <1>6, <1>7
      <4>2. c + d \in 1 .. c + m /\ ~(c + d <= c) /\ c + d - c = d  BY <4>1
      <4>3. a = c /\ b = m  BY <3>1, <4>1
      <4>4. c + d \in 1 .. a + b /\ ~(c + d <= a) /\ c + d - a = d  BY <4>2, <4>3
      <4> HIDE DEF T
      <4> QED  BY <4>1, <4>4
    <3>3. g[k][l + u] = s[k][u]  BY <2>3, <3>2
    <3> QED  BY <2>1, <2>3, <2>5, <3>2, <3>3
  <2>6. CASE k > i
    <3>1. l + u \in 1 .. a /\ g[k - 1][l + u] = s[i][u]  BY <1>5, <1>9, <2>1, <2>2, <2>6
    <3>2. l + u \in 1 .. a + b /\ l + u <= a  BY <3>1
    <3> QED  BY <2>1, <2>3, <3>1, <3>2
  <2> QED  BY <1>5, <2>4, <2>5, <2>6
<1>10. \A k \in 0 .. n : k \in T
  <2> HIDE DEF T
  <2> QED  BY <1>8, <1>9, Induct
<1>11. n \in T /\ n >= i  BY <1>5, <1>10
<1> QED  BY <1>2, <1>6, <1>11

LEMMA ReverseIsSeq ==
  ASSUME NEW S, NEW s \in Seq(S)
  PROVE  Reverse(s) \in Seq(S)
<1>1. Len(s) \in Nat /\ \A i \in 1 .. Len(s) : s[i] \in S  BY LenProperties, ElementOfSeq
<1>2. \A i \in 1 .. Len(s) : Len(s) - i + 1 \in 1 .. Len(s)  BY <1>1
<1>3. \A i \in 1 .. Len(s) : s[Len(s) - i + 1] \in S  BY <1>1, <1>2
<1>4. Reverse(s) = [i \in 1 .. Len(s) |-> s[Len(s) - i + 1]]  BY DEF Reverse
<1> QED  BY <1>1, <1>3, <1>4

\* A sequence is what is before an element, the element, and what is behind it.
LEMMA SplitAt ==
  ASSUME NEW S, NEW r \in Seq(S), NEW w \in 1 .. Len(r)
  PROVE  \E a, c \in Seq(S) : /\ r = (a \o <<r[w]>>) \o c
                              /\ Len(a) = w - 1 /\ \A i \in 1 .. w - 1 : a[i] = r[i]
<1>1. PICK n \in Nat, m \in Nat, l \in Nat : n = Len(r) /\ m = w /\ m = l + 1 /\ l < n
  <2>1. Len(r) \in Nat  BY LenProperties
  <2>2. w \in Nat /\ w - 1 \in Nat /\ w = w - 1 + 1 /\ w - 1 < Len(r)  BY <2>1
  <2> QED  BY <2>1, <2>2
<1>2. \A j \in 1 .. n : r[j] \in S  BY <1>1, ElementOfSeq
<1>3. PICK a \in Seq(S) : Len(a) = l /\ \A i \in 1 .. l : a[i] = r[i]
  <2>1. \A j \in 1 .. l : j \in 1 .. n  BY <1>1
  <2>2. [i \in 1 .. l |-> r[i]] \in [1 .. l -> S]  BY <1>2, <2>1
  <2>3. PICK a \in [1 .. l -> S] : a = [i \in 1 .. l |-> r[i]]  BY <2>2
  <2>4. a \in Seq(S) /\ Len(a) = l  BY MadeSeq
  <2> QED  BY <2>3, <2>4
<1>4. PICK c \in Seq(S) : Len(c) = n - m /\ \A i \in 1 .. n - m : c[i] = r[m + i]
  <2>1. n - m \in Nat /\ \A j \in 1 .. n - m : m + j \in 1 .. n  BY <1>1
  <2>2. [i \in 1 .. n - m |-> r[m + i]] \in [1 .. n - m -> S]  BY <1>2, <2>1
  <2>3. PICK c \in [1 .. n - m -> S] : c = [i \in 1 .. n - m |-> r[m + i]]  BY <2>2
  <2>4. c \in Seq(S) /\ Len(c) = n - m  BY <2>1, MadeSeq
  <2> QED  BY <2>3, <2>4
<1>5. PICK it \in S : it = r[m]  BY <1>1, <1>2
<1>6. PICK one \in Seq(S) : one = <<it>> /\ Len(one) = 1 /\ one[1] = it  BY OneElement
<1>7. PICK b \in Seq(S) : b = a \o one /\ Len(b) = m /\ \A i \in 1 .. m : b[i] = r[i]
  <2>1. PICK b \in Seq(S) : b = a \o one  BY ConcatProperties
  <2>2. Len(b) = l + 1 /\ \A i \in 1 .. l + 1 : b[i] = IF i <= l THEN a[i] ELSE one[i - l]
    BY <1>3, <1>6, <2>1, ConcatProperties
  <2>3. ASSUME NEW i \in 1 .. m PROVE b[i] = r[i]
    <3>1. CASE i <= l  BY <1>1, <1>3, <2>2, <3>1
    <3>2. CASE ~(i <= l)
      <4>1. i = m /\ i - l = 1  BY <1>1, <3>2
      <4> QED  BY <1>1, <1>5, <1>6, <2>2, <3>2, <4>1
    <3> QED  BY <3>1, <3>2
  <2> QED  BY <1>1, <2>1, <2>2, <2>3
<1>8. r = b \o c
  <2>1. PICK k \in Nat : k = n - m /\ n = m + k
    <3>1. n - m \in Nat /\ n = m + (n - m)  BY <1>1
    <3> QED  BY <3>1
  <2>2. PICK d \in Seq(S) : d = b \o c  BY ConcatProperties
  <2>3. Len(d) = m + k /\ \A i \in 1 .. m + k : d[i] = IF i <= m THEN b[i] ELSE c[i - m]
    <3>1. Len(b) = m /\ Len(c) = k  BY <1>4, <1>7, <2>1
    <3> QED  BY <2>2, <3>1, ConcatProperties
  <2>4. ASSUME NEW i \in 1 .. n PROVE d[i] = r[i]
    <3>1. CASE i <= m
      <4>1. i \in 1 .. m  BY <3>1
      <4> QED  BY <1>7, <2>1, <2>3, <3>1, <4>1
    <3>2. CASE ~(i <= m)
      <4>1. i - m \in 1 .. k /\ m + (i - m) = i  BY <2>1, <3>2
      <4>2. c[i - m] = r[m + (i - m)]  BY <1>4, <2>1, <4>1
      <4> QED  BY <2>1, <2>3, <3>2, <4>1, <4>2
    <3> QED  BY <3>1, <3>2
  <2>5. Len(d) = Len(r)  BY <1>1, <2>1, <2>3
  <2> QED  BY <1>1, <2>2, <2>4, <2>5, SeqEqual
<1>9. r = (a \o <<r[w]>>) \o c  BY <1>1, <1>5, <1>6, <1>7, <1>8
<1>10. w - 1 = l  BY <1>1
<1>11. Len(a) = w - 1 /\ \A i \in 1 .. w - 1 : a[i] = r[i]  BY <1>3, <1>10
<1> QED  BY <1>9, <1>11
-----------------------------------------------------------------------------
(***************************************************************************)
(* Parts of sequences                                                      *)
(***************************************************************************)
\* t is s from m to n
IsPart(t, s, m, n) ==
  /\ t = SubSeq(s, m, n) /\ Len(t) = n - m + 1 /\ DOMAIN t = 1 .. n - m + 1
  /\ \A i \in 1 .. n - m + 1 : t[i] = s[i + (m - 1)]

LEMMA PartOf ==
  ASSUME NEW S, NEW s \in Seq(S), NEW m \in Nat \ {0}, NEW n \in Nat, m <= n + 1, n <= Len(s)
  PROVE  \E t \in Seq(S) : IsPart(t, s, m, n)
<1>1. PICK l \in Nat : l = Len(s) /\ \A i \in 1 .. l : s[i] \in S  BY LenProperties, ElementOfSeq
<1>2. \A i \in m .. n : s[i] \in S  BY <1>1
<1>3. PICK t \in Seq(S) : t = SubSeq(s, m, n)
  <2>1. SubSeq(s, m, n) \in Seq(S)  BY <1>2, SubSeqProperties
  <2> QED  BY <2>1
<1>4. Len(t) = IF m <= n THEN n - m + 1 ELSE 0  BY <1>2, <1>3, SubSeqProperties
<1>5. Len(t) = n - m + 1  BY <1>4
<1>6. \A i \in 1 .. n - m + 1 : SubSeq(s, m, n)[i] = s[m + i - 1]  BY <1>2, SubSeqProperties
<1>7. ASSUME NEW i \in 1 .. n - m + 1 PROVE t[i] = s[i + (m - 1)]
  <2>1. t[i] = s[m + i - 1]  BY <1>3, <1>6
  <2>2. m + i - 1 = i + (m - 1)  OBVIOUS
  <2> QED  BY <2>1, <2>2
<1>8. DOMAIN t = 1 .. n - m + 1  BY <1>5, LenProperties
<1> QED  BY <1>3, <1>5, <1>7, <1>8 DEF IsPart

\* t is a, of length k, and behind it b, of length l
IsJoint(t, a, k, b, l) ==
  /\ t = a \o b /\ k = Len(a) /\ l = Len(b) /\ Len(t) = k + l /\ DOMAIN t = 1 .. k + l
  /\ \A i \in 1 .. k : t[i] = a[i]
  /\ \A i \in 1 .. l : t[k + i] = b[i]

LEMMA JointOf ==
  ASSUME NEW S, NEW a \in Seq(S), NEW b \in Seq(S), NEW k, k = Len(a), NEW l, l = Len(b)
  PROVE  \E t \in Seq(S) : IsJoint(t, a, k, b, l)
<1>1. k \in Nat /\ l \in Nat  BY LenProperties
<1>2. PICK t \in Seq(S) : t = a \o b  BY ConcatProperties
<1>3. Len(t) = k + l  BY <1>2, ConcatProperties
<1>4. \A i \in 1 .. Len(a) + Len(b) : (a \o b)[i] = IF i <= Len(a) THEN a[i] ELSE b[i - Len(a)]  BY ConcatProperties
<1>5. ASSUME NEW i \in 1 .. k PROVE t[i] = a[i]
  <2>1. i \in 1 .. k + l /\ i <= k  BY <1>1
  <2> QED  BY <1>2, <1>4, <2>1
<1>6. ASSUME NEW i \in 1 .. l PROVE t[k + i] = b[i]
  <2>1. k + i \in 1 .. k + l /\ ~(k + i <= k) /\ k + i - k = i  BY <1>1
  <2>2. t[k + i] = b[k + i - k]  BY <1>2, <1>4, <2>1
  <2> QED  BY <2>1, <2>2
<1>7. DOMAIN t = 1 .. k + l  BY <1>3, LenProperties
<1> QED  BY <1>2, <1>3, <1>5, <1>6, <1>7 DEF IsJoint

\* A part can be cut anywhere.
LEMMA CutInTwo ==
  ASSUME NEW S, NEW s \in Seq(S), NEW m \in Nat \ {0}, NEW k \in Nat, NEW n \in Nat,
         m <= k + 1, k <= n, n <= Len(s)
  PROVE  /\ SubSeq(s, m, k) \in Seq(S) /\ SubSeq(s, k + 1, n) \in Seq(S)
         /\ SubSeq(s, m, n) = SubSeq(s, m, k) \o SubSeq(s, k + 1, n)
<1>0. Len(s) \in Nat /\ k <= Len(s) /\ m <= n + 1 /\ k + 1 <= n + 1 /\ k + 1 \in Nat \ {0}  BY LenProperties
<1>1. PICK t \in Seq(S) : IsPart(t, s, m, n)  BY <1>0, PartOf
<1>2. PICK a \in Seq(S) : IsPart(a, s, m, k)  BY <1>0, PartOf
<1>3. PICK b \in Seq(S) : IsPart(b, s, k + 1, n)  BY <1>0, PartOf
<1>4. PICK p \in Nat, q \in Nat : p = k - m + 1 /\ q = n - k /\ n - m + 1 = p + q /\ n - (k + 1) + 1 = q  OBVIOUS
<1>5. Len(a) = p /\ Len(b) = q /\ Len(t) = p + q  BY <1>1, <1>2, <1>3, <1>4 DEF IsPart
<1>6. PICK u \in Seq(S) : IsJoint(u, a, p, b, q)  BY <1>5, JointOf
<1>7. Len(u) = p + q /\ (\A i \in 1 .. p : u[i] = a[i]) /\ (\A i \in 1 .. q : u[p + i] = b[i])  BY <1>6 DEF IsJoint
<1>8. ASSUME NEW i \in 1 .. p + q PROVE t[i] = u[i]
  <2>1. t[i] = s[i + (m - 1)]  BY <1>1, <1>4 DEF IsPart
  <2>2. CASE i \in 1 .. p
    <3>1. a[i] = s[i + (m - 1)]  BY <1>2, <1>4, <2>2 DEF IsPart
    <3> QED  BY <1>7, <2>1, <2>2, <3>1
  <2>3. CASE i > p
    <3>1. PICK j \in 1 .. q : i = p + j
      <4>1. i - p \in 1 .. q /\ i = p + (i - p)  BY <2>3
      <4> QED  BY <4>1
    <3>2. b[j] = s[j + (k + 1 - 1)]  BY <1>3, <1>4, <3>1 DEF IsPart
    <3>3. j + (k + 1 - 1) = i + (m - 1)  BY <1>4, <3>1
    <3>4. u[i] = b[j]  BY <1>7, <3>1
    <3> QED  BY <2>1, <3>2, <3>3, <3>4
  <2> QED  BY <2>2, <2>3
<1>9. t = u  BY <1>5, <1>7, <1>8, SeqEqual
<1>10. t = SubSeq(s, m, n) /\ a = SubSeq(s, m, k) /\ b = SubSeq(s, k + 1, n) /\ u = a \o b
  BY <1>1, <1>2, <1>3, <1>6 DEF IsPart, IsJoint
<1> QED  BY <1>9, <1>10

LEMMA PartOfOne ==
  ASSUME NEW S, NEW s \in Seq(S), NEW i \in 1 .. Len(s)
  PROVE  SubSeq(s, i, i) = <<s[i]>>
<1>1. i \in Nat \ {0} /\ i <= Len(s) /\ i <= i + 1 /\ i - i + 1 = 1  BY LenProperties
<1>2. PICK t \in Seq(S) : IsPart(t, s, i, i)  BY <1>1, PartOf
<1>3. t = SubSeq(s, i, i) /\ Len(t) = 1 /\ \A j \in 1 .. 1 : t[j] = s[j + (i - 1)]  BY <1>1, <1>2 DEF IsPart
<1>4. s[i] \in S  BY ElementOfSeq
<1>5. PICK o \in Seq(S) : o = <<s[i]>> /\ Len(o) = 1 /\ o[1] = s[i]  BY <1>4, OneElement
<1>6. t[1] = s[i]
  <2>1. t[1] = s[1 + (i - 1)] /\ 1 + (i - 1) = i  BY <1>1, <1>3
  <2> QED  BY <2>1
<1>7. \A j \in 1 .. 1 : t[j] = o[j]
  <2>1. \A j \in 1 .. 1 : j = 1  OBVIOUS
  <2> QED  BY <1>5, <1>6, <2>1
<1>8. t = o  BY <1>3, <1>5, <1>7, SeqEqual
<1> QED  BY <1>3, <1>5, <1>8
=============================================================================
