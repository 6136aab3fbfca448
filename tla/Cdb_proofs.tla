----------------------------- MODULE Cdb_proofs -----------------------------
(***************************************************************************)
(* Proofs about the constant database, for any keys, lengths and hashes,   *)
(* any number of tables and any width of positions.                        *)
(***************************************************************************)
EXTENDS CdbRead, Loops

-----------------------------------------------------------------------------
(***************************************************************************)
(* The size of a queue of items                                            *)
(***************************************************************************)
Entries == [h : Nat, p : Nat]

ItemSet == [size : Nat, is : {<<KeyLen[k], d>> : k \in Key, d \in DataLens} \cup Key \cup {"data"} \cup Entries \cup Nat]

\* g is the sums of the sizes in s, from its beginning
Sums(g, s) ==
  /\ g \in [0 .. Len(s) -> Nat] /\ g[0] = 0
  /\ \A i \in 1 .. Len(s) : g[i] = g[i - 1] + s[i].size

\* SizeOf is the last of these sums.
LEMMA SizeIsSum ==
  ASSUME NEW s \in Seq(ItemSet)
  PROVE  \E g : Sums(g, s) /\ SizeOf(s) = g[Len(s)]
<1> DEFINE n == Len(s)
           turn == [a \in Nat \X (1 .. n) |-> a[1] + s[a[2]].size]
           Is(f) == f = [i \in 0 .. n |-> IF i = 0 THEN 0 ELSE f[i - 1] + s[i].size]
           f == CHOOSE f : Is(f)
<1>1. n \in Nat /\ \A i \in 1 .. n : s[i] \in ItemSet  BY LenProperties, ElementOfSeq
<1>2. \A i \in 1 .. n : s[i].size \in Nat  BY <1>1 DEF ItemSet
<1>3. turn \in [Nat \X (1 .. n) -> Nat]  BY <1>2
<1>4. PICK g : Turns(g, n, 0, turn, Nat)
  <2> HIDE DEF turn, n
  <2> QED  BY <1>1, <1>3, TurnsExist
<1>5. ASSUME NEW i \in 1 .. n PROVE g[i] = g[i - 1] + s[i].size
  <2>1. g[i - 1] \in Nat  BY <1>1, <1>4 DEF Turns
  <2>2. <<g[i - 1], i>> \in Nat \X (1 .. n)  BY <2>1
  <2>3. g[i] = turn[<<g[i - 1], i>>]  BY <1>4 DEF Turns
  <2> QED  BY <2>2, <2>3
<1>6. Sums(g, s)  BY <1>4, <1>5 DEF Turns, Sums
<1>7. Is(g)
  <2>1. g = [i \in 0 .. n |-> g[i]]  BY <1>4 DEF Turns
  <2>2. \A i \in 0 .. n : g[i] = IF i = 0 THEN 0 ELSE g[i - 1] + s[i].size
    BY <1>1, <1>4, <1>5 DEF Turns
  <2> HIDE DEF n
  <2> QED  BY <2>1, <2>2
<1>8. PICK e : e = f /\ Is(e)
  <2> HIDE DEF Is
  <2> QED  BY <1>7
<1>9. e[0] = g[0] /\ \A i \in 1 .. n : e[i] = e[i - 1] + s[i].size
  <2>1. \A i \in 0 .. n : e[i] = IF i = 0 THEN 0 ELSE e[i - 1] + s[i].size
    <3> HIDE DEF n
    <3> QED  BY <1>8
  <2>2. 0 \in 0 .. n /\ \A i \in 1 .. n : i \in 0 .. n /\ i # 0  BY <1>1
  <2> HIDE DEF n
  <2> QED  BY <2>1, <2>2, <1>4 DEF Turns
<1>10. ASSUME NEW i \in 1 .. n, e[i - 1] = g[i - 1] PROVE e[i] = g[i]
  BY <1>5, <1>9, <1>10
<1>11. \A i \in 0 .. n : e[i] = g[i]
  <2> HIDE DEF n
  <2>1. Alike(e, g, n)  BY <1>9, <1>10 DEF Alike
  <2> QED  BY <1>1, <2>1, SameTurns
<1>12. SizeOf(s) = f[n]  BY DEF SizeOf
<1>13. SizeOf(s) = g[Len(s)]
  <2>1. n \in 0 .. n  BY <1>1
  <2> HIDE DEF f
  <2> QED  BY <2>1, <1>8, <1>11, <1>12
<1> QED  BY <1>6, <1>13

LEMMA SizeNat ==
  ASSUME NEW s \in Seq(ItemSet)
  PROVE  SizeOf(s) \in Nat
<1>1. PICK g : Sums(g, s) /\ SizeOf(s) = g[Len(s)]  BY SizeIsSum
<1>2. Len(s) \in 0 .. Len(s)  BY LenProperties
<1> QED  BY <1>1, <1>2 DEF Sums

LEMMA SizeEmpty == SizeOf(<<>>) = 0
<1>1. <<>> \in Seq(ItemSet) /\ Len(<<>>) = 0  BY EmptySeq
<1>2. PICK g : Sums(g, <<>>) /\ SizeOf(<<>>) = g[0]  BY <1>1, SizeIsSum
<1> QED  BY <1>2 DEF Sums

LEMMA SizeOne ==
  ASSUME NEW it \in ItemSet
  PROVE  SizeOf(<<it>>) = it.size
<1>1. <<it>> \in Seq(ItemSet) /\ Len(<<it>>) = 1 /\ <<it>>[1] = it  OBVIOUS
<1>2. PICK g : Sums(g, <<it>>) /\ SizeOf(<<it>>) = g[1]  BY <1>1, SizeIsSum
<1>3. g[0] = 0 /\ g[1] = g[1 - 1] + <<it>>[1].size  BY <1>1, <1>2 DEF Sums
<1>4. it.size \in Nat  BY DEF ItemSet
<1> QED  BY <1>1, <1>2, <1>3, <1>4

\* Two queues, one behind the other, have both their sizes.
LEMMA SizeConcat ==
  ASSUME NEW s \in Seq(ItemSet), NEW t \in Seq(ItemSet)
  PROVE  s \o t \in Seq(ItemSet) /\ SizeOf(s \o t) = SizeOf(s) + SizeOf(t)
<1>1. PICK w \in Seq(ItemSet) : w = s \o t /\ Len(w) = Len(s) + Len(t)
  BY ConcatProperties
<1>2. PICK g : Sums(g, s) /\ SizeOf(s) = g[Len(s)]  BY SizeIsSum
<1>3. PICK k : Sums(k, t) /\ SizeOf(t) = k[Len(t)]  BY SizeIsSum
<1>4. PICK h : Sums(h, w) /\ SizeOf(w) = h[Len(w)]  BY SizeIsSum
<1>5. PICK a \in Nat, b \in Nat : a = Len(s) /\ b = Len(t) /\ Len(w) = a + b
  BY <1>1, LenProperties
<1>6. /\ \A i \in 1 .. a : w[i] = s[i]
      /\ \A i \in 1 .. b : w[a + i] = t[i]
  <2>1. \A i \in 1 .. a + b : w[i] = IF i <= a THEN s[i] ELSE t[i - a]
    BY <1>1, <1>5, ConcatProperties
  <2>2. \A i \in 1 .. b : a + i \in 1 .. a + b /\ ~(a + i <= a) /\ a + i - a = i  OBVIOUS
  <2>3. \A i \in 1 .. a : i \in 1 .. a + b /\ i <= a  OBVIOUS
  <2> QED  BY <2>1, <2>2, <2>3
<1>7. /\ g \in [0 .. a -> Nat] /\ g[0] = 0 /\ \A i \in 1 .. a : g[i] = g[i - 1] + s[i].size
      /\ k \in [0 .. b -> Nat] /\ k[0] = 0 /\ \A i \in 1 .. b : k[i] = k[i - 1] + t[i].size
      /\ h \in [0 .. a + b -> Nat] /\ h[0] = 0 /\ \A i \in 1 .. a + b : h[i] = h[i - 1] + w[i].size
  BY <1>2, <1>3, <1>4, <1>5 DEF Sums
<1>8. /\ \A i \in 1 .. a : s[i].size \in Nat
      /\ \A i \in 1 .. b : t[i].size \in Nat
  <2>1. (\A i \in 1 .. a : s[i] \in ItemSet) /\ \A i \in 1 .. b : t[i] \in ItemSet
    BY <1>5, ElementOfSeq
  <2> QED  BY <2>1 DEF ItemSet
<1>9. h[a] - h[0] = g[a] - g[0]
  <2> DEFINE e == [i \in 0 .. a |-> h[i]]
  <2>1. e \in [0 .. a -> Int] /\ g \in [0 .. a -> Int] /\ e[0] = h[0] /\ e[a] = h[a]
    <3>1. \A i \in 0 .. a : i \in 0 .. a + b  OBVIOUS
    <3> QED  BY <1>7, <3>1
  <2>2. ASSUME NEW i \in 1 .. a PROVE e[i] - e[i - 1] = g[i] - g[i - 1]
    <3>1. i \in 1 .. a + b /\ i \in 0 .. a /\ i - 1 \in 0 .. a /\ i - 1 \in 0 .. a + b  OBVIOUS
    <3>2. PICK x, y, z \in Nat : x = h[i - 1] /\ y = g[i - 1] /\ z = s[i].size
      BY <1>7, <1>8, <3>1
    <3>3. h[i] = x + z /\ g[i] = y + z  BY <1>6, <1>7, <3>1, <3>2
    <3>4. e[i] = x + z /\ e[i - 1] = x  BY <3>1, <3>2, <3>3
    <3> HIDE DEF e
    <3>5. (x + z) - x = (y + z) - y  OBVIOUS
    <3> QED  BY <3>2, <3>3, <3>4, <3>5
  <2> HIDE DEF e
  <2>3. SameAddends(g, e, a)  BY <2>2 DEF SameAddends
  <2>4. e[a] - e[0] = g[a] - g[0]  BY <2>1, <2>3, SumsAgree
  <2> QED  BY <2>1, <2>4
<1>10. h[a + b] - h[a] = k[b] - k[0]
  <2> DEFINE e == [i \in 0 .. b |-> h[a + i]]
  <2>1. e \in [0 .. b -> Int] /\ k \in [0 .. b -> Int] /\ e[0] = h[a] /\ e[b] = h[a + b]
    <3>1. a + 0 = a /\ \A i \in 0 .. b : a + i \in 0 .. a + b  OBVIOUS
    <3> QED  BY <1>7, <3>1
  <2>2. ASSUME NEW i \in 1 .. b PROVE e[i] - e[i - 1] = k[i] - k[i - 1]
    <3>1. /\ a + i \in 1 .. a + b /\ a + i - 1 = a + (i - 1) /\ a + (i - 1) \in 0 .. a + b
          /\ i - 1 \in 0 .. b /\ i \in 0 .. b
      OBVIOUS
    <3>2. PICK m \in 1 .. a + b : m = a + i /\ m - 1 = a + (i - 1)  BY <3>1
    <3>3. h[m] = h[m - 1] + w[m].size /\ w[m] = t[i]  BY <1>6, <1>7, <3>2
    <3>4. PICK x, y, z \in Nat : x = h[m - 1] /\ y = k[i - 1] /\ z = t[i].size
      <4>1. h[m - 1] \in Nat  BY <1>7, <3>1, <3>2
      <4>2. k[i - 1] \in Nat  BY <1>7, <3>1
      <4> QED  BY <1>8, <4>1, <4>2
    <3>5. h[m] = x + z /\ k[i] = y + z  BY <1>7, <3>3, <3>4
    <3>6. e[i] = x + z /\ e[i - 1] = x  BY <3>1, <3>2, <3>4, <3>5
    <3> HIDE DEF e
    <3>7. (x + z) - x = (y + z) - y  OBVIOUS
    <3> QED  BY <3>4, <3>5, <3>6, <3>7
  <2> HIDE DEF e
  <2>3. SameAddends(k, e, b)  BY <2>2 DEF SameAddends
  <2>4. e[b] - e[0] = k[b] - k[0]  BY <2>1, <2>3, SumsAgree
  <2> QED  BY <2>1, <2>4
<1>11. PICK x, y, z, u \in Nat : x = h[a] /\ y = h[a + b] /\ z = g[a] /\ u = k[b]
  <2>1. a \in 0 .. a /\ b \in 0 .. b /\ a \in 0 .. a + b /\ a + b \in 0 .. a + b  OBVIOUS
  <2> QED  BY <1>7, <2>1
<1>12. x - 0 = z - 0 /\ y - x = u - 0  BY <1>7, <1>9, <1>10, <1>11
<1>13. y = z + u  BY <1>12
<1> QED  BY <1>1, <1>2, <1>3, <1>4, <1>5, <1>11, <1>13

\* What is behind the first item is smaller by it.
LEMMA SizeTail ==
  ASSUME NEW q \in Seq(ItemSet), q # <<>>
  PROVE  /\ q[1] \in ItemSet /\ q[1].size \in Nat /\ Tail(q) \in Seq(ItemSet)
         /\ SizeOf(q) = q[1].size + SizeOf(Tail(q))
<1>1. q[1] \in ItemSet /\ Tail(q) \in Seq(ItemSet) /\ Head(q) = q[1]  BY HeadTailProperties
<1>2. PICK it \in ItemSet : it = q[1]  BY <1>1
<1>3. <<it>> \in Seq(ItemSet)  OBVIOUS
<1>4. q = <<it>> \o Tail(q)  BY <1>1, <1>2, HeadTailProperties
<1>5. SizeOf(q) = SizeOf(<<it>>) + SizeOf(Tail(q))  BY <1>1, <1>3, <1>4, SizeConcat
<1> QED  BY <1>1, <1>2, <1>5, SizeOne DEF ItemSet

\* Items of eight bytes each
LEMMA SizeEight ==
  ASSUME NEW s \in Seq(ItemSet), \A i \in 1 .. Len(s) : s[i].size = 8
  PROVE  SizeOf(s) = 8 * Len(s)
<1>1. PICK n \in Nat : n = Len(s)  BY LenProperties
<1>2. PICK h : Sums(h, s) /\ SizeOf(s) = h[n]  BY <1>1, SizeIsSum
<1>3. h \in [0 .. n -> Nat] /\ h[0] = 0 /\ \A i \in 1 .. n : h[i] = h[i - 1] + 8
  BY <1>1, <1>2 DEF Sums
<1> DEFINE g == [i \in 0 .. n |-> 8 * i]
<1>4. g \in [0 .. n -> Int] /\ g[0] = 0 /\ g[n] = 8 * n  OBVIOUS
<1>5. ASSUME NEW i \in 1 .. n PROVE g[i] - g[i - 1] = 8
  <2>1. g[i] = 8 * i /\ g[i - 1] = 8 * (i - 1)  OBVIOUS
  <2> QED  BY <2>1
<1> HIDE DEF g
<1>6. ASSUME NEW i \in 1 .. n PROVE h[i] - h[i - 1] = g[i] - g[i - 1]
  <2>1. PICK x \in Nat : x = h[i - 1]  BY <1>3
  <2>2. h[i] = x + 8  BY <1>3, <2>1
  <2>3. (x + 8) - x = 8  OBVIOUS
  <2> QED  BY <1>5, <2>1, <2>2, <2>3
<1>7. h \in [0 .. n -> Int]  BY <1>3
<1>8. h[n] - h[0] = g[n] - g[0]
  <2>1. SameAddends(g, h, n)  BY <1>6 DEF SameAddends
  <2> QED  BY <1>4, <1>7, <2>1, SumsAgree
<1>9. h[n] \in Nat  BY <1>3
<1> QED  BY <1>1, <1>2, <1>3, <1>4, <1>8, <1>9

-----------------------------------------------------------------------------
(***************************************************************************)
(* The hash tables                                                         *)
(***************************************************************************)
LEMMA NewestIsSeq ==
  ASSUME NEW hs \in Seq(Seq(Entries))
  PROVE  Newest(hs) \in Seq(Entries)
<1> DEFINE rs == [i \in DOMAIN hs |-> Reverse(hs[i])]
<1>1. Len(hs) \in Nat /\ DOMAIN hs = 1 .. Len(hs) /\ \A i \in 1 .. Len(hs) : hs[i] \in Seq(Entries)
  BY LenProperties, ElementOfSeq
<1>2. \A i \in 1 .. Len(hs) : Reverse(hs[i]) \in Seq(Entries)  BY <1>1, ReverseIsSeq
<1>3. rs \in Seq(Seq(Entries))  BY <1>1, <1>2
<1>4. Newest(hs) = FlattenSeq(rs)  BY DEF Newest
<1> HIDE DEF rs
<1> QED  BY <1>3, <1>4, FlattenIsSeq

\* g is what the loop of cdb_make_finish makes of the entries es for table i
SplitBy(g, es, i) ==
  /\ g \in [0 .. Len(es) -> Seq(Entries)] /\ g[0] = <<>>
  /\ \A j \in 1 .. Len(es) : g[j] = IF Table(es[j].h) = i THEN <<es[j]>> \o g[j - 1] ELSE g[j - 1]

LEMMA SplitTurns ==
  ASSUME NEW hs \in Seq(Seq(Entries)), NEW i
  PROVE  \E g : SplitBy(g, Newest(hs), i) /\ Split(hs, i) = g[Len(Newest(hs))]
<1> DEFINE es == Newest(hs)
           n == Len(es)
           S == Seq(Entries)
           next(s, j) == IF Table(es[j].h) = i THEN <<es[j]>> \o s ELSE s
           turn == [a \in S \X (1 .. n) |-> next(a[1], a[2])]
           Is(f) == f = [j \in 0 .. n |-> IF j = 0 THEN <<>>
                           ELSE IF Table(es[j].h) = i THEN <<es[j]>> \o f[j - 1] ELSE f[j - 1]]
           f == CHOOSE f : Is(f)
<1>1. n \in Nat /\ \A j \in 1 .. n : es[j] \in Entries
  <2>1. es \in Seq(Entries)  BY NewestIsSeq
  <2> HIDE DEF es
  <2> QED  BY <2>1, LenProperties, ElementOfSeq
<1> HIDE DEF es
<1>2. \A s \in S : \A j \in 1 .. n : next(s, j) \in S
  <2> SUFFICES ASSUME NEW s \in S, NEW j \in 1 .. n PROVE next(s, j) \in S  OBVIOUS
  <2>1. <<es[j]>> \in Seq(Entries)  BY <1>1
  <2>2. <<es[j]>> \o s \in Seq(Entries)  BY <2>1, ConcatProperties
  <2> QED  BY <2>2
<1>3. <<>> \in S  BY EmptySeq
<1>4. turn \in [S \X (1 .. n) -> S]  BY <1>2
<1>5. PICK g : Turns(g, n, <<>>, turn, S)
  <2> HIDE DEF turn, n, S
  <2> QED  BY <1>1, <1>3, <1>4, TurnsExist
<1>6. g \in [0 .. n -> S] /\ g[0] = <<>>  BY <1>5 DEF Turns
<1>7. ASSUME NEW j \in 1 .. n PROVE g[j] = next(g[j - 1], j)
  <2>1. g[j - 1] \in S
    <3>1. j - 1 \in 0 .. n  BY <1>1
    <3> HIDE DEF n, S
    <3> QED  BY <1>6, <3>1
  <2>2. <<g[j - 1], j>> \in S \X (1 .. n)  BY <2>1
  <2>3. g[j] = turn[<<g[j - 1], j>>]  BY <1>5 DEF Turns
  <2>4. turn[<<g[j - 1], j>>] = next(g[j - 1], j)
    <3> HIDE DEF next, S, n
    <3> QED  BY <2>2
  <2> QED  BY <2>3, <2>4
<1>8. Is(g)
  <2>1. \A j \in 0 .. n : g[j] = IF j = 0 THEN <<>>
                           ELSE IF Table(es[j].h) = i THEN <<es[j]>> \o g[j - 1] ELSE g[j - 1]
    <3>1. \A j \in 0 .. n : j # 0 => j \in 1 .. n  BY <1>1
    <3> HIDE DEF n
    <3> QED  BY <1>6, <1>7, <3>1
  <2> HIDE DEF n
  <2> QED  BY <1>6, <2>1
<1>9. PICK e : e = f /\ Is(e)
  <2> HIDE DEF Is
  <2> QED  BY <1>8
<1>10. \A j \in 0 .. n : e[j] = IF j = 0 THEN <<>>
                           ELSE IF Table(es[j].h) = i THEN <<es[j]>> \o e[j - 1] ELSE e[j - 1]
  <2> HIDE DEF n
  <2> QED  BY <1>9
<1>11. e[0] = g[0]
  <2>1. 0 \in 0 .. n  BY <1>1
  <2> HIDE DEF n
  <2> QED  BY <1>6, <1>10, <2>1
<1>12. ASSUME NEW j \in 1 .. n, e[j - 1] = g[j - 1] PROVE e[j] = g[j]
  <2>1. j \in 0 .. n /\ j # 0  BY <1>1
  <2> HIDE DEF n
  <2> QED  BY <1>7, <1>10, <1>12, <2>1
<1>13. \A j \in 0 .. n : e[j] = g[j]
  <2> HIDE DEF n
  <2>1. Alike(e, g, n)  BY <1>11, <1>12 DEF Alike
  <2> QED  BY <1>1, <2>1, SameTurns
<1>14. Split(hs, i) = f[n]  BY DEF Split, es
<1>15. n \in 0 .. n  BY <1>1
<1>16. Split(hs, i) = g[n]
  <2>1. e[n] = g[n]  BY <1>13, <1>15
  <2> HIDE DEF f, Is, n
  <2> QED  BY <1>9, <1>14, <2>1
<1>17. SplitBy(g, es, i)
  <2>1. \A j \in 1 .. n : g[j] = IF Table(es[j].h) = i THEN <<es[j]>> \o g[j - 1] ELSE g[j - 1]
    BY <1>7
  <2> QED  BY <1>6, <2>1 DEF SplitBy
<1> QED  BY <1>16, <1>17 DEF es

LEMMA SplitIsSeq ==
  ASSUME NEW hs \in Seq(Seq(Entries)), NEW i
  PROVE  Split(hs, i) \in Seq(Entries)
<1>1. PICK g : SplitBy(g, Newest(hs), i) /\ Split(hs, i) = g[Len(Newest(hs))]  BY SplitTurns
<1>2. Len(Newest(hs)) \in 0 .. Len(Newest(hs))  BY NewestIsSeq, LenProperties
<1> QED  BY <1>1, <1>2 DEF SplitBy

\* g is what the loop of cdb_make_finish makes of the entries es for a table
FilledBy(g, es) ==
  /\ g \in [0 .. Len(es) -> [1 .. 2 * Len(es) -> Entries]]
  /\ g[0] = [u \in 1 .. 2 * Len(es) |-> NoEntry]
  /\ \A j \in 1 .. Len(es) : g[j] = Insert(g[j - 1], es[j])

LEMMA HashTableTurns ==
  ASSUME NEW hs \in Seq(Seq(Entries)), NEW i
  PROVE  \E g : FilledBy(g, Split(hs, i)) /\ HashTable(hs, i) = g[Len(Split(hs, i))]
<1> DEFINE es == Split(hs, i)
           n == Len(es)
           empty == [u \in 1 .. 2 * n |-> NoEntry]
           S == [1 .. 2 * n -> Entries]
           turn == [a \in S \X (1 .. n) |-> Insert(a[1], es[a[2]])]
           Is(f) == f = [j \in 0 .. n |-> IF j = 0 THEN empty ELSE Insert(f[j - 1], es[j])]
           f == CHOOSE f : Is(f)
<1>1. n \in Nat /\ \A j \in 1 .. n : es[j] \in Entries
  <2>1. es \in Seq(Entries)  BY SplitIsSeq
  <2> HIDE DEF es
  <2> QED  BY <2>1, LenProperties, ElementOfSeq
<1> HIDE DEF es
<1>2. \A t \in S : \A j \in 1 .. n : Insert(t, es[j]) \in S
  <2> SUFFICES ASSUME NEW t \in S, NEW j \in 1 .. n PROVE Insert(t, es[j]) \in S  OBVIOUS
  <2>1. \E x : Insert(t, es[j]) = [t EXCEPT ![x] = es[j]]  BY Zenon DEF Insert
  <2>2. es[j] \in Entries  BY <1>1
  <2> QED  BY <2>1, <2>2
<1>3. empty \in S  BY DEF NoEntry, Entries
<1>4. turn \in [S \X (1 .. n) -> S]
  <2> HIDE DEF S, n
  <2> QED  BY <1>2
<1> HIDE DEF S, empty
<1>5. PICK g : Turns(g, n, empty, turn, S)
  <2> HIDE DEF turn, n
  <2> QED  BY <1>1, <1>3, <1>4, TurnsExist
<1>6. g \in [0 .. n -> S] /\ g[0] = empty  BY <1>5 DEF Turns
<1>7. ASSUME NEW j \in 1 .. n PROVE g[j] = Insert(g[j - 1], es[j])
  <2>1. g[j - 1] \in S
    <3>1. j - 1 \in 0 .. n  BY <1>1
    <3> HIDE DEF n
    <3> QED  BY <1>6, <3>1
  <2>2. <<g[j - 1], j>> \in S \X (1 .. n)  BY <2>1
  <2>3. g[j] = turn[<<g[j - 1], j>>]  BY <1>5 DEF Turns
  <2> HIDE DEF n
  <2> QED  BY <2>2, <2>3
<1>8. Is(g)
  <2>1. \A j \in 0 .. n : g[j] = IF j = 0 THEN empty ELSE Insert(g[j - 1], es[j])
    <3>1. \A j \in 0 .. n : j # 0 => j \in 1 .. n  BY <1>1
    <3> HIDE DEF n
    <3> QED  BY <1>6, <1>7, <3>1
  <2> HIDE DEF n
  <2> QED  BY <1>6, <2>1
<1>9. PICK e : e = f /\ Is(e)
  <2> HIDE DEF Is
  <2> QED  BY <1>8
<1>10. \A j \in 0 .. n : e[j] = IF j = 0 THEN empty ELSE Insert(e[j - 1], es[j])
  <2> HIDE DEF n
  <2> QED  BY <1>9
<1>11. e[0] = g[0]
  <2>1. 0 \in 0 .. n  BY <1>1
  <2> HIDE DEF n
  <2> QED  BY <1>6, <1>10, <2>1
<1>12. ASSUME NEW j \in 1 .. n, e[j - 1] = g[j - 1] PROVE e[j] = g[j]
  <2>1. j \in 0 .. n /\ j # 0  BY <1>1
  <2> HIDE DEF n
  <2> QED  BY <1>7, <1>10, <1>12, <2>1
<1>13. \A j \in 0 .. n : e[j] = g[j]
  <2> HIDE DEF n
  <2>1. Alike(e, g, n)  BY <1>11, <1>12 DEF Alike
  <2> QED  BY <1>1, <2>1, SameTurns
<1>14. HashTable(hs, i) = f[n]  BY DEF HashTable, es, empty
<1>15. n \in 0 .. n  BY <1>1
<1>16. HashTable(hs, i) = g[n]
  <2>1. e[n] = g[n]  BY <1>13, <1>15
  <2> HIDE DEF f, Is, n
  <2> QED  BY <1>9, <1>14, <2>1
<1>17. FilledBy(g, es)
  <2> USE DEF S, empty
  <2> QED  BY <1>6, <1>7 DEF FilledBy
<1> QED  BY <1>16, <1>17 DEF es

LEMMA HashTableIsSeq ==
  ASSUME NEW hs \in Seq(Seq(Entries)), NEW i
  PROVE  HashTable(hs, i) \in Seq(Entries)
<1>1. PICK n \in Nat : n = Len(Split(hs, i))  BY SplitIsSeq, LenProperties
<1>2. PICK g : FilledBy(g, Split(hs, i)) /\ HashTable(hs, i) = g[n]  BY <1>1, HashTableTurns
<1>3. PICK t \in [1 .. 2 * n -> Entries] : t = g[n]
  <2>1. g \in [0 .. n -> [1 .. 2 * n -> Entries]] /\ n \in 0 .. n  BY <1>1, <1>2 DEF FilledBy
  <2> QED  BY <2>1
<1>4. 2 * n \in Nat  BY <1>1
<1>5. t \in Seq(Entries)  BY <1>4, MadeSeq
<1> QED  BY <1>2, <1>3, <1>5

\* What cdb_make_finish puts are items of eight bytes.
LEMMA SlotsAreItems ==
  ASSUME NEW hs \in Seq(Seq(Entries))
  PROVE  /\ Slots(hs) \in Seq(ItemSet)
         /\ \A u \in 1 .. Len(Slots(hs)) : Slots(hs)[u].size = 8
<1> DEFINE cells == FlattenSeq(AllTables(hs))
<1>1. Tables \in Nat  BY CdbMakeAssumption
<1>2. AllTables(hs) \in Seq(Seq(Entries))  BY <1>1, HashTableIsSeq DEF AllTables
<1>3. cells \in Seq(Entries)  BY <1>2, FlattenIsSeq
<1> HIDE DEF cells
<1>4. Len(cells) \in Nat /\ DOMAIN cells = 1 .. Len(cells) /\ \A u \in 1 .. Len(cells) : cells[u] \in Entries
  BY <1>3, LenProperties, ElementOfSeq
<1>5. Slots(hs) = [u \in 1 .. Len(cells) |-> Item(8, cells[u])]  BY <1>4 DEF Slots, cells
<1>6. \A u \in 1 .. Len(cells) : Item(8, cells[u]) \in ItemSet /\ Item(8, cells[u]).size = 8
  BY <1>4 DEF Item, ItemSet
<1>7. Slots(hs) \in Seq(ItemSet) /\ Len(Slots(hs)) = Len(cells)  BY <1>4, <1>5, <1>6
<1> QED  BY <1>5, <1>6, <1>7

-----------------------------------------------------------------------------
(***************************************************************************)
(* The position of the writer                                              *)
(***************************************************************************)
\* A position that fits has not wrapped.
LEMMA FitsMeans ==
  ASSUME NEW q \in 0 .. Mod - 1, NEW len \in Nat, Fits(q, len)
  PROVE  q + len < Mod /\ (q + len) % Mod = q + len
<1>1. Mod \in Nat /\ Mod > 0 /\ q \in Nat  BY CdbMakeAssumption
<1>2. (q + len) % Mod >= len  BY DEF Fits
<1>3. q + len < Mod
  <2> SUFFICES ASSUME q + len >= Mod PROVE FALSE  BY <1>1
  <2> DEFINE r == (q + len) % Mod
             d == (q + len) \div Mod
  <2>1. r \in 0 .. Mod - 1 /\ d \in Int /\ q + len = Mod * d + r  BY <1>1
  <2> HIDE DEF r, d
  <2>2. r >= len  BY <1>2 DEF r
  <2>3. Mod * d <= q /\ Mod * d > 0  BY <1>1, <2>1, <2>2
  <2>4. d >= 1
    <3> SUFFICES ASSUME d <= 0 PROVE FALSE  BY <2>1
    <3>1. Mod * d <= 0
      <4>1. 0 - d \in Nat  BY <2>1
      <4>2. Mod * (0 - d) \in Nat  BY <1>1, <4>1
      <4>3. Mod * (0 - d) = 0 - Mod * d /\ Mod * d \in Int  BY <1>1, <2>1
      <4> QED  BY <4>2, <4>3
    <3> QED  BY <1>1, <2>1, <2>3, <3>1
  <2>5. Mod * d >= Mod
    <3>1. d - 1 \in Nat  BY <2>1, <2>4
    <3>2. Mod * (d - 1) \in Nat  BY <1>1, <3>1
    <3>3. Mod * (d - 1) = Mod * d - Mod /\ Mod * d \in Int  BY <1>1, <2>1
    <3> QED  BY <1>1, <3>2, <3>3
  <2>6. q < Mod  BY <1>1
  <2>7. PICK x \in Int : x = Mod * d  BY <1>1, <2>1
  <2>8. x <= q /\ x >= Mod  BY <2>3, <2>5, <2>7
  <2> QED  BY <1>1, <2>6, <2>8
<1> QED  BY <1>1, <1>3

\* The slots of the tables fit one after the other.
LEMMA SlotsFit ==
  ASSUME NEW q \in 0 .. Mod - 1, NEW n \in Nat,
         \A u \in 1 .. n : Fits((q + 8 * (u - 1)) % Mod, 8)
  PROVE  q + 8 * n < Mod
<1>1. Mod \in Nat /\ Mod > 0 /\ q \in Nat  BY CdbMakeAssumption
<1> DEFINE T == {u \in 0 .. n : ~(q + 8 * u < Mod)}
<1>2. SUFFICES ASSUME T # {} PROVE FALSE
  <2>1. n \in 0 .. n  OBVIOUS
  <2>2. n \notin T => q + 8 * n < Mod  BY <2>1
  <2> HIDE DEF T
  <2> QED  BY <2>2
<1>3. PICK m \in T : \A k \in T : m <= k
  <2>1. T \in SUBSET Nat  OBVIOUS
  <2> HIDE DEF T
  <2> QED  BY <1>2, <2>1, LeastNat
<1>4. m \in 1 .. n /\ ~(q + 8 * m < Mod)  BY <1>1
<1>5. m - 1 \in 0 .. n /\ m - 1 \notin T  BY <1>3, <1>4
<1>6. q + 8 * (m - 1) \in 0 .. Mod - 1  BY <1>1, <1>4, <1>5
<1>7. PICK x \in 0 .. Mod - 1 : x = q + 8 * (m - 1)  BY <1>6
<1>8. x % Mod = x  BY <1>1
<1>9. Fits(x % Mod, 8)  BY <1>4, <1>7
<1>10. x + 8 < Mod  BY <1>8, <1>9, FitsMeans
<1>11. x + 8 = q + 8 * m  BY <1>1, <1>4, <1>7
<1> QED  BY <1>4, <1>10, <1>11

\* A record puts its bytes.
LEMMA RecordIs ==
  ASSUME NEW k \in Key, NEW d \in DataLens
  PROVE  /\ Record(k, d) \in Seq(ItemSet)
         /\ SizeOf(Record(k, d)) = 8 + KeyLen[k] + d
         /\ KeyLen[k] \in Nat /\ d \in Nat
<1>1. KeyLen[k] \in Nat /\ d \in Nat  BY CdbMakeAssumption
<1>2. /\ Item(8, <<KeyLen[k], d>>) \in ItemSet /\ Item(8, <<KeyLen[k], d>>).size = 8
      /\ Item(KeyLen[k], k) \in ItemSet /\ Item(KeyLen[k], k).size = KeyLen[k]
      /\ Item(d, "data") \in ItemSet /\ Item(d, "data").size = d
  BY <1>1 DEF Item, ItemSet
<1>3. PICK a \in Seq(ItemSet) : a = <<Item(8, <<KeyLen[k], d>>)>> /\ SizeOf(a) = 8
  <2>1. <<Item(8, <<KeyLen[k], d>>)>> \in Seq(ItemSet)  BY <1>2
  <2> QED  BY <1>2, <2>1, SizeOne
<1>4. PICK b \in Seq(ItemSet) : b = PutItem(KeyLen[k], k) /\ SizeOf(b) = KeyLen[k]
  <2>1. <<Item(KeyLen[k], k)>> \in Seq(ItemSet) /\ <<>> \in Seq(ItemSet)  BY <1>2, EmptySeq
  <2>2. SizeOf(<<Item(KeyLen[k], k)>>) = KeyLen[k]  BY <1>2, SizeOne
  <2>3. CASE KeyLen[k] > 0  BY <2>1, <2>2, <2>3 DEF PutItem
  <2>4. CASE ~(KeyLen[k] > 0)
    <3>1. KeyLen[k] = 0 /\ PutItem(KeyLen[k], k) = <<>>  BY <1>1, <2>4 DEF PutItem
    <3> QED  BY <2>1, <3>1, SizeEmpty
  <2> QED  BY <2>3, <2>4
<1>5. PICK c \in Seq(ItemSet) : c = PutItem(d, "data") /\ SizeOf(c) = d
  <2>1. <<Item(d, "data")>> \in Seq(ItemSet) /\ <<>> \in Seq(ItemSet)  BY <1>2, EmptySeq
  <2>2. SizeOf(<<Item(d, "data")>>) = d  BY <1>2, SizeOne
  <2>3. CASE d > 0  BY <2>1, <2>2, <2>3 DEF PutItem
  <2>4. CASE ~(d > 0)
    <3>1. d = 0 /\ PutItem(d, "data") = <<>>  BY <1>1, <2>4 DEF PutItem
    <3> QED  BY <2>1, <3>1, SizeEmpty
  <2> QED  BY <2>3, <2>4
<1>6. Record(k, d) = (a \o b) \o c  BY <1>3, <1>4, <1>5 DEF Record
<1>7. PICK ab \in Seq(ItemSet) : ab = a \o b /\ SizeOf(ab) = 8 + KeyLen[k]
  <2>1. a \o b \in Seq(ItemSet) /\ SizeOf(a \o b) = SizeOf(a) + SizeOf(b)  BY SizeConcat
  <2> QED  BY <1>3, <1>4, <2>1
<1>8. ab \o c \in Seq(ItemSet) /\ SizeOf(ab \o c) = 8 + KeyLen[k] + d
  <2>1. ab \o c \in Seq(ItemSet) /\ SizeOf(ab \o c) = SizeOf(ab) + SizeOf(c)  BY SizeConcat
  <2> QED  BY <1>5, <1>7, <2>1
<1> QED  BY <1>1, <1>6, <1>7, <1>8

\* cdb_make_addend keeps lists of entries.
LEMMA ListedIsSeq ==
  ASSUME NEW hs \in Seq(Seq(Entries)), NEW e \in Entries
  PROVE  Listed(hs, e) \in Seq(Seq(Entries))
<1>1. <<e>> \in Seq(Entries) /\ <<<<e>>>> \in Seq(Seq(Entries))  OBVIOUS
<1>2. <<<<e>>>> \o hs \in Seq(Seq(Entries))  BY <1>1, ConcatProperties
<1>3. CASE hs = <<>> \/ Len(hs[1]) >= HPList  BY <1>2, <1>3 DEF Listed
<1>4. CASE ~(hs = <<>> \/ Len(hs[1]) >= HPList)
  <2>1. Listed(hs, e) = [hs EXCEPT ![1] = Append(@, e)]  BY <1>4 DEF Listed
  <2>2. 1 \in DOMAIN hs /\ hs[1] \in Seq(Entries) /\ DOMAIN hs = 1 .. Len(hs) /\ Len(hs) \in Nat
    <3>1. Len(hs) \in Nat /\ DOMAIN hs = 1 .. Len(hs) /\ Len(hs) # 0
      BY <1>4, LenProperties, EmptySeq
    <3> QED  BY <3>1, ElementOfSeq
  <2>3. Append(hs[1], e) \in Seq(Entries)  BY <2>2, AppendProperties
  <2>4. \A i \in 1 .. Len(hs) : hs[i] \in Seq(Entries)  BY <2>2, ElementOfSeq
  <2>5. PICK a \in Seq(Entries) : a = Append(hs[1], e)  BY <2>3
  <2>6. [hs EXCEPT ![1] = a] \in Seq(Seq(Entries))  BY <2>2, <2>4
  <2> QED  BY <2>1, <2>5, <2>6
<1> QED  BY <1>3, <1>4

\* The inductive invariant: PosIsOffset, and that what it speaks of are items, entries and
\* positions.  Of a writer that has given up nothing is said.
PosInv ==
  stage \in {"add", "flush"} =>
    /\ queue \in Seq(ItemSet) /\ off \in Nat /\ pos \in 0 .. Mod - 1
    /\ head \in Seq(Seq(Entries))
    /\ pos = off + SizeOf(queue)

LEMMA AddPos ==
  ASSUME PosInv, NEW k \in Key, NEW d \in DataLens, Add(k, d)
  PROVE  PosInv'
<1>1. stage = "add"  BY DEF Add
<1>2. /\ queue \in Seq(ItemSet) /\ off \in Nat /\ pos \in 0 .. Mod - 1
      /\ head \in Seq(Seq(Entries)) /\ pos = off + SizeOf(queue) /\ SizeOf(queue) \in Nat
  BY <1>1, SizeNat DEF PosInv
<1>3. PICK r \in Seq(ItemSet), l \in Nat : r = Record(k, d) /\ l = KeyLen[k] /\ SizeOf(r) = 8 + l + d /\ d \in Nat
  BY RecordIs
<1>4. SUFFICES ASSUME stage' # "failed" PROVE PosInv'  BY DEF PosInv
<1>5. /\ Fits(pos, 8) /\ Fits((pos + 8) % Mod, l) /\ Fits((pos + 8 + l) % Mod, d)
      /\ pos' = (pos + 8 + l + d) % Mod /\ off' = off
      /\ queue' = queue \o r /\ head' = Listed(head, [h |-> Hash[k], p |-> pos])
  BY <1>3, <1>4 DEF Add
<1>6. Mod \in Nat /\ pos \in Nat /\ [h |-> Hash[k], p |-> pos] \in Entries  BY <1>2, CdbMakeAssumption DEF Entries
<1>7. (pos + 8) % Mod = pos + 8 /\ pos + 8 \in 0 .. Mod - 1
  <2>1. 8 \in Nat /\ Fits(pos, 8)  BY <1>5
  <2>2. pos + 8 < Mod /\ (pos + 8) % Mod = pos + 8  BY <1>2, <2>1, FitsMeans
  <2> QED  BY <1>6, <2>2
<1>8. (pos + 8 + l) % Mod = pos + 8 + l /\ pos + 8 + l \in 0 .. Mod - 1
  <2>1. PICK q \in 0 .. Mod - 1 : q = pos + 8  BY <1>7
  <2>2. Fits(q, l)  BY <1>5, <1>7, <2>1
  <2> QED  BY <1>6, <2>1, <2>2, FitsMeans
<1>9. pos' = pos + 8 + l + d /\ pos' \in 0 .. Mod - 1
  <2>1. PICK q \in 0 .. Mod - 1 : q = pos + 8 + l  BY <1>8
  <2>2. Fits(q, d)  BY <1>5, <1>8, <2>1
  <2>3. d \in Nat  BY <1>3
  <2>4. q + d < Mod /\ (q + d) % Mod = q + d  BY <2>2, <2>3, FitsMeans
  <2>5. pos' = (q + d) % Mod  BY <1>5, <2>1
  <2> QED  BY <1>6, <2>1, <2>3, <2>4, <2>5
<1>10. queue' \in Seq(ItemSet) /\ SizeOf(queue') = SizeOf(queue) + SizeOf(r)
  BY <1>2, <1>5, SizeConcat
<1>11. head' \in Seq(Seq(Entries))  BY <1>2, <1>5, <1>6, ListedIsSeq
<1>12. pos' = off' + SizeOf(queue')
  <2>1. PICK x, y \in Nat : x = SizeOf(queue) /\ y = off  BY <1>2
  <2>2. SizeOf(queue') = x + (8 + l + d)  BY <1>3, <1>10, <2>1
  <2>3. pos' = y + x + 8 + l + d /\ off' = y  BY <1>2, <1>5, <1>9, <2>1
  <2> QED  BY <1>3, <2>2, <2>3
<1> QED  BY <1>2, <1>5, <1>9, <1>10, <1>11, <1>12 DEF PosInv

LEMMA FinishPos ==
  ASSUME PosInv, Finish
  PROVE  PosInv'
<1>1. stage = "add"  BY DEF Finish
<1>2. /\ queue \in Seq(ItemSet) /\ off \in Nat /\ pos \in 0 .. Mod - 1
      /\ head \in Seq(Seq(Entries)) /\ pos = off + SizeOf(queue) /\ SizeOf(queue) \in Nat
  BY <1>1, SizeNat DEF PosInv
<1>3. PICK cells \in Seq(ItemSet) : cells = Slots(head) /\ \A u \in 1 .. Len(cells) : cells[u].size = 8
  BY <1>2, SlotsAreItems
<1>4. PICK n \in Nat : n = Len(cells) /\ SizeOf(cells) = 8 * n  BY <1>3, LenProperties, SizeEight
<1>5. SUFFICES ASSUME stage' # "failed" PROVE PosInv'  BY DEF PosInv
<1>6. /\ {u \in 1 .. n : ~Fits((pos + 8 * (u - 1)) % Mod, 8)} = {}
      /\ pos' = (pos + 8 * n) % Mod /\ off' = off /\ head' = head /\ queue' = queue \o cells
  BY <1>3, <1>4, <1>5 DEF Finish
<1>7. \A u \in 1 .. n : Fits((pos + 8 * (u - 1)) % Mod, 8)  BY <1>6
<1>8. pos + 8 * n < Mod  BY <1>2, <1>7, SlotsFit
<1>9. Mod \in Nat /\ pos \in Nat /\ pos + 8 * n \in 0 .. Mod - 1  BY <1>2, <1>8, CdbMakeAssumption
<1>10. pos' = pos + 8 * n
  <2>1. PICK x \in 0 .. Mod - 1 : x = pos + 8 * n  BY <1>9
  <2>2. x % Mod = x  BY <1>9
  <2> QED  BY <1>6, <2>1, <2>2
<1>11. queue' \in Seq(ItemSet) /\ SizeOf(queue') = SizeOf(queue) + SizeOf(cells)
  BY <1>2, <1>6, SizeConcat
<1>12. pos' = off' + SizeOf(queue')  BY <1>2, <1>4, <1>6, <1>9, <1>10, <1>11
<1> QED  BY <1>2, <1>6, <1>9, <1>10, <1>11, <1>12 DEF PosInv

LEMMA EmitPos ==
  ASSUME PosInv, Emit
  PROVE  PosInv'
<1>1. SUFFICES ASSUME stage \in {"add", "flush"} PROVE PosInv'  BY DEF PosInv, Emit
<1>2. /\ queue \in Seq(ItemSet) /\ off \in Nat /\ pos \in 0 .. Mod - 1
      /\ head \in Seq(Seq(Entries)) /\ pos = off + SizeOf(queue)
  BY <1>1 DEF PosInv
<1>3. /\ queue # <<>> /\ off' = off + queue[1].size /\ queue' = Tail(queue)
      /\ stage' = stage /\ head' = head /\ pos' = pos
  BY DEF Emit
<1>4. /\ queue[1].size \in Nat /\ queue' \in Seq(ItemSet)
      /\ SizeOf(queue) = queue[1].size + SizeOf(queue')
  BY <1>2, <1>3, SizeTail
<1>5. SizeOf(queue') \in Nat  BY <1>4, SizeNat
<1>6. pos' = off' + SizeOf(queue') /\ off' \in Nat  BY <1>2, <1>3, <1>4, <1>5
<1> QED  BY <1>2, <1>3, <1>4, <1>6 DEF PosInv

LEMMA InitPos ==
  ASSUME CdbInit
  PROVE  PosInv
<1>1. pos = HeaderSize /\ off = HeaderSize /\ queue = <<>> /\ head = <<>>  BY DEF CdbInit, MakeInit
<1>2. Tables \in Nat /\ HeaderSize \in Nat /\ HeaderSize < Mod /\ Mod \in Nat
  BY CdbMakeAssumption DEF HeaderSize
<1>3. <<>> \in Seq(ItemSet) /\ <<>> \in Seq(Seq(Entries))  BY EmptySeq
<1> QED  BY <1>1, <1>2, <1>3, SizeEmpty DEF PosInv

LEMMA NextPos ==
  ASSUME PosInv, [CdbNext]_vars
  PROVE  PosInv'
<1>1. CASE UNCHANGED cdbvars  BY <1>1 DEF PosInv, cdbvars
<1>2. ASSUME NEW k \in Key, NEW d \in DataLens, Add(k, d) PROVE PosInv'  BY <1>2, AddPos
<1>3. CASE Finish  BY <1>3, FinishPos
<1>4. CASE Emit  BY <1>4, EmitPos
<1>5. CASE Rewind \/ Done \/ MakeFails  BY <1>5 DEF Rewind, Done, MakeFails, PosInv
<1>6. CASE MakeNext  BY <1>2, <1>3, <1>4, <1>5, <1>6 DEF MakeNext
<1>7. CASE UNCHANGED vars  BY <1>1, <1>7 DEF vars
<1>8. CASE CdbNext
  BY <1>1, <1>6, <1>8 DEF CdbNext, Make, FindStart, FindTable, FindOn, Probe
<1> QED  BY <1>7, <1>8

\* As long as nothing has failed, the position that the writer computes in 32 bits, and
\* enters in its tables and the header, is the place in the file where the next byte it
\* puts will be written: for any records, lists and tables, the overflow of the position
\* is noticed wherever it happens (cdbmake.c:27-33, 47-53, 147-152).
THEOREM PositionsAreOffsets == CdbSpec => []PosIsOffset
<1>1. CdbInit => PosInv  BY InitPos
<1>2. PosInv /\ [CdbNext]_vars => PosInv'  BY NextPos
<1>3. PosInv => PosIsOffset  BY DEF PosInv, PosIsOffset
<1> QED  BY <1>1, <1>2, <1>3, PTL DEF CdbSpec

-----------------------------------------------------------------------------
(***************************************************************************)
(* The hash tables hold the records                                        *)
(***************************************************************************)
RecordSet == [key : Key, p : Nat]

\* what cdb_make_addend remembers of a record
Entry(r) == [h |-> Hash[r.key], p |-> r.p]

LEMMA EntryIs ==
  ASSUME NEW r \in RecordSet
  PROVE  Entry(r) \in Entries /\ Entry(r).h = Hash[r.key] /\ Entry(r).p = r.p
BY CdbMakeAssumption DEF Entry, Entries, RecordSet

\* the entries of records, the one of the last record first
Backwards(rs) == [i \in 1 .. Len(rs) |-> Entry(rs[Len(rs) - i + 1])]

LEMMA ReverseAppend ==
  ASSUME NEW S, NEW s \in Seq(S), NEW e \in S
  PROVE  Reverse(Append(s, e)) = <<e>> \o Reverse(s)
<1>1. PICK n \in Nat : n = Len(s)  BY LenProperties
<1>2. PICK t \in Seq(S) : t = Append(s, e)  BY AppendProperties
<1>3. Len(t) = n + 1 /\ t[n + 1] = e /\ \A i \in 1 .. n : t[i] = s[i]  BY <1>1, <1>2, AppendProperties
<1>5. PICK b \in Seq(S) : b = Reverse(s)  BY ReverseIsSeq
<1>6. b = [i \in 1 .. n |-> s[n - i + 1]]  BY <1>1, <1>5 DEF Reverse
<1>7. Len(b) = n /\ \A i \in 1 .. n : b[i] = s[n - i + 1]  BY <1>5, <1>6
<1>8. PICK v \in Seq(S) : v = Reverse(t)  BY ReverseIsSeq
<1>9. v = [i \in 1 .. n + 1 |-> t[n + 1 - i + 1]]  BY <1>3, <1>8 DEF Reverse
<1>10. Len(v) = n + 1 /\ \A i \in 1 .. n + 1 : v[i] = t[n + 1 - i + 1]  BY <1>8, <1>9
<1>11. PICK w \in Seq(S) : w = <<e>> \o b  BY InFront
<1>12. Len(w) = n + 1 /\ \A i \in 1 .. n + 1 : w[i] = IF i = 1 THEN e ELSE b[i - 1]
  BY <1>7, <1>11, InFront
<1>13. ASSUME NEW i \in 1 .. n + 1 PROVE v[i] = w[i]
  <2>1. CASE i = 1
    <3>1. n + 1 - i + 1 = n + 1  BY <2>1
    <3> QED  BY <1>3, <1>10, <1>12, <2>1, <3>1
  <2>2. CASE i # 1
    <3>1. /\ n + 1 - i + 1 = n - (i - 1) + 1 /\ n - (i - 1) + 1 \in 1 .. n
          /\ i - 1 \in 1 .. n
      BY <2>2
    <3>2. v[i] = s[n - (i - 1) + 1]  BY <1>3, <1>10, <3>1
    <3>3. w[i] = s[n - (i - 1) + 1]  BY <1>7, <1>12, <2>2, <3>1
    <3> QED  BY <3>2, <3>3
  <2> QED  BY <2>1, <2>2
<1>14. v = w  BY <1>10, <1>12, <1>13, SeqEqual
<1> QED  BY <1>2, <1>5, <1>8, <1>11, <1>14

\* An entry that cdb_make_addend lists comes before all others.
LEMMA NewestListed ==
  ASSUME NEW hs \in Seq(Seq(Entries)), NEW e \in Entries
  PROVE  Newest(Listed(hs, e)) = <<e>> \o Newest(hs)
<1> DEFINE Rev(t) == [i \in DOMAIN t |-> Reverse(t[i])]
<1>1. PICK n \in Nat : n = Len(hs) /\ DOMAIN hs = 1 .. n /\ \A i \in 1 .. n : hs[i] \in Seq(Entries)
  BY LenProperties, ElementOfSeq
<1>2. PICK rs \in Seq(Seq(Entries)) : rs = Rev(hs) /\ Len(rs) = n /\ \A i \in 1 .. n : rs[i] = Reverse(hs[i])
  <2>1. \A i \in 1 .. n : Reverse(hs[i]) \in Seq(Entries)  BY <1>1, ReverseIsSeq
  <2>2. Rev(hs) = [i \in 1 .. n |-> Reverse(hs[i])]  BY <1>1
  <2>3. Rev(hs) \in Seq(Seq(Entries)) /\ Len(Rev(hs)) = n  BY <2>1, <2>2
  <2> HIDE DEF Rev
  <2> QED  BY <2>2, <2>3
<1>3. Newest(hs) = FlattenSeq(rs)  BY <1>2 DEF Newest
<1>4. PICK one \in Seq(Entries) : one = <<e>> /\ Reverse(one) = one
  <2>1. <<e>> \in Seq(Entries) /\ Len(<<e>>) = 1 /\ <<e>>[1] = e  OBVIOUS
  <2>2. Reverse(<<e>>) = [i \in 1 .. 1 |-> e]
    <3>1. \A i \in 1 .. 1 : 1 - i + 1 = 1  OBVIOUS
    <3> QED  BY <2>1, <3>1 DEF Reverse
  <2>3. <<e>> = [i \in 1 .. 1 |-> e]  OBVIOUS
  <2> QED  BY <2>1, <2>2, <2>3
<1>5. CASE hs = <<>> \/ Len(hs[1]) >= HPList
  <2>1. PICK t \in Seq(Seq(Entries)) : t = <<one>> \o hs  BY InFront
  <2>2. Listed(hs, e) = t  BY <1>4, <1>5, <2>1 DEF Listed
  <2>3. PICK u \in Seq(Seq(Entries)) : u = <<one>> \o rs  BY InFront
  <2>4. Len(t) = n + 1 /\ \A i \in 1 .. n + 1 : t[i] = IF i = 1 THEN one ELSE hs[i - 1]
    BY <1>1, <2>1, InFront
  <2>5. Len(u) = n + 1 /\ \A i \in 1 .. n + 1 : u[i] = IF i = 1 THEN one ELSE rs[i - 1]
    BY <1>2, <2>3, InFront
  <2>6. ASSUME NEW i \in 1 .. n + 1 PROVE Reverse(t[i]) = u[i]
    <3>1. i # 1 => i - 1 \in 1 .. n  OBVIOUS
    <3>2. CASE i = 1  BY <1>4, <2>4, <2>5, <3>2
    <3>3. CASE i # 1
      <4>1. t[i] = hs[i - 1] /\ u[i] = rs[i - 1]  BY <2>4, <2>5, <3>3
      <4> QED  BY <1>2, <3>1, <3>3, <4>1
    <3> QED  BY <3>2, <3>3
  <2>7. Rev(t) = u
    <3>1. DOMAIN t = 1 .. n + 1 /\ u = [i \in 1 .. n + 1 |-> u[i]]  BY <2>4, <2>5, LenProperties
    <3> QED  BY <2>6, <3>1
  <2>8. Newest(t) = FlattenSeq(u)  BY <2>7 DEF Newest
  <2>9. FlattenSeq(u) = one \o FlattenSeq(rs)  BY <2>3, FlattenCons
  <2> QED  BY <1>3, <1>4, <2>2, <2>8, <2>9
<1>6. CASE ~(hs = <<>> \/ Len(hs[1]) >= HPList)
  <2>1. n >= 1 /\ hs[1] \in Seq(Entries)  BY <1>1, <1>6, EmptySeq
  <2>2. PICK x \in Seq(Entries) : x = hs[1]  BY <2>1
  <2>3. PICK y \in Seq(Entries) : y = Append(x, e)  BY AppendProperties
  <2>4. PICK t : t = Listed(hs, e) /\ DOMAIN t = 1 .. n /\ t[1] = y /\ \A i \in 1 .. n : i # 1 => t[i] = hs[i]
    <3>1. Listed(hs, e) = [hs EXCEPT ![1] = y]  BY <1>6, <2>2, <2>3 DEF Listed
    <3>2. 1 \in 1 .. n  BY <2>1
    <3> QED  BY <1>1, <3>1, <3>2
  <2>5. PICK rest \in Seq(Seq(Entries)) : rest = Tail(rs) /\ rs = <<rs[1]>> \o rest
    <3>1. rs # <<>>  BY <1>2, <2>1, EmptySeq
    <3> QED  BY <3>1, FirstAndRest
  <2>6. PICK rx \in Seq(Entries) : rx = Reverse(x) /\ rx = rs[1]
    <3>1. 1 \in 1 .. n  BY <2>1
    <3> QED  BY <1>2, <2>2, <3>1, ReverseIsSeq
  <2>7. PICK ry \in Seq(Entries) : ry = Reverse(y) /\ ry = one \o rx
    BY <1>4, <2>3, <2>6, ReverseIsSeq, ReverseAppend
  <2>8. Rev(t) = <<ry>> \o rest
    <3>1. PICK m \in Nat : m = Len(rest) /\ n = m + 1  BY <1>2, <2>5, <2>6, InFront, LenProperties
    <3>2. \A i \in 1 .. m + 1 : rs[i] = IF i = 1 THEN rx ELSE rest[i - 1]  BY <2>5, <2>6, <3>1, InFront
    <3>3. PICK w \in Seq(Seq(Entries)) : w = <<ry>> \o rest  BY InFront
    <3>4. Len(w) = n /\ \A i \in 1 .. m + 1 : w[i] = IF i = 1 THEN ry ELSE rest[i - 1]  BY <3>1, <3>3, InFront
    <3>5. ASSUME NEW i \in 1 .. n PROVE Reverse(t[i]) = w[i]
      <4>1. CASE i = 1  BY <2>4, <2>7, <3>1, <3>4, <4>1
      <4>2. CASE i # 1
        <5>1. w[i] = rs[i]  BY <3>1, <3>2, <3>4, <4>2
        <5>2. Reverse(t[i]) = rs[i]  BY <1>2, <2>4, <4>2
        <5> QED  BY <5>1, <5>2
      <4> QED  BY <4>1, <4>2
    <3>6. w = [i \in 1 .. n |-> w[i]]  BY <3>4, LenProperties
    <3> QED  BY <2>4, <3>3, <3>5, <3>6
  <2>9. Newest(Listed(hs, e)) = FlattenSeq(<<ry>> \o rest)  BY <2>4, <2>8 DEF Newest
  <2>10. FlattenSeq(<<ry>> \o rest) = ry \o FlattenSeq(rest)  BY FlattenCons
  <2>11. FlattenSeq(rs) = rx \o FlattenSeq(rest)  BY <2>5, <2>6, FlattenCons
  <2>12. PICK f \in Seq(Entries) : f = FlattenSeq(rest)  BY FlattenIsSeq
  <2>13. (one \o rx) \o f = one \o (rx \o f)
    <3>1. Regroups(one, rx, f)  BY Regrouped
    <3> QED  BY <3>1 DEF Regroups
  <2> QED  BY <1>3, <1>4, <2>7, <2>9, <2>10, <2>11, <2>12, <2>13
<1> QED  BY <1>5, <1>6

LEMMA BackwardsIs ==
  ASSUME NEW rs \in Seq(RecordSet)
  PROVE  /\ Backwards(rs) \in Seq(Entries) /\ Len(Backwards(rs)) = Len(rs)
         /\ \A i \in 1 .. Len(rs) : Backwards(rs)[i] = Entry(rs[Len(rs) - i + 1])
<1>1. PICK n \in Nat : n = Len(rs) /\ \A i \in 1 .. n : rs[i] \in RecordSet
  BY LenProperties, ElementOfSeq
<1>2. \A i \in 1 .. n : Entry(rs[n - i + 1]) \in Entries
  <2>1. \A i \in 1 .. n : n - i + 1 \in 1 .. n  OBVIOUS
  <2> QED  BY <1>1, <2>1, EntryIs
<1>3. Backwards(rs) = [i \in 1 .. n |-> Entry(rs[n - i + 1])]  BY <1>1 DEF Backwards
<1> QED  BY <1>1, <1>2, <1>3

\* The lists hold the entries of all records.
LEMMA NewestOfAdd ==
  ASSUME NEW hs \in Seq(Seq(Entries)), NEW rs \in Seq(RecordSet), NEW r \in RecordSet,
         Newest(hs) = Backwards(rs)
  PROVE  Newest(Listed(hs, Entry(r))) = Backwards(Append(rs, r))
<1>1. PICK n \in Nat : n = Len(rs)  BY LenProperties
<1>2. PICK t \in Seq(RecordSet) : t = Append(rs, r) /\ Len(t) = n + 1 /\ t[n + 1] = r /\ \A i \in 1 .. n : t[i] = rs[i]
  <2>1. /\ Append(rs, r) \in Seq(RecordSet) /\ Len(Append(rs, r)) = Len(rs) + 1
        /\ Append(rs, r)[Len(rs) + 1] = r /\ \A i \in 1 .. Len(rs) : Append(rs, r)[i] = rs[i]
    BY AppendProperties
  <2> QED  BY <1>1, <2>1
<1>3. PICK b \in Seq(Entries) : b = Backwards(rs)  BY BackwardsIs
<1>4. Len(b) = n /\ \A i \in 1 .. n : b[i] = Entry(rs[n - i + 1])  BY <1>1, <1>3, BackwardsIs
<1>5. PICK c \in Seq(Entries) : c = Backwards(t)  BY BackwardsIs
<1>6. Len(c) = n + 1 /\ \A i \in 1 .. n + 1 : c[i] = Entry(t[n + 1 - i + 1])
  <2>1. Len(c) = Len(t) /\ \A i \in 1 .. Len(t) : c[i] = Entry(t[Len(t) - i + 1])  BY <1>5, BackwardsIs
  <2> QED  BY <1>2, <2>1
<1>7. PICK e \in Entries : e = Entry(r)  BY EntryIs
<1>8. PICK w \in Seq(Entries) : w = <<e>> \o b  BY InFront
<1>9. Len(w) = n + 1 /\ \A i \in 1 .. n + 1 : w[i] = IF i = 1 THEN e ELSE b[i - 1]  BY <1>4, <1>8, InFront
<1>10. ASSUME NEW i \in 1 .. n + 1 PROVE c[i] = w[i]
  <2>1. CASE i = 1
    <3>1. n + 1 - i + 1 = n + 1  BY <2>1
    <3>2. c[i] = Entry(t[n + 1])  BY <1>6, <3>1
    <3> QED  BY <1>2, <1>7, <1>9, <2>1, <3>2
  <2>2. CASE i # 1
    <3>1. /\ n + 1 - i + 1 = n - (i - 1) + 1 /\ n - (i - 1) + 1 \in 1 .. n
          /\ i - 1 \in 1 .. n
      BY <2>2
    <3>2. c[i] = Entry(rs[n - (i - 1) + 1])  BY <1>2, <1>6, <3>1
    <3>3. w[i] = Entry(rs[n - (i - 1) + 1])  BY <1>4, <1>9, <2>2, <3>1
    <3> QED  BY <3>2, <3>3
  <2> QED  BY <2>1, <2>2
<1>11. c = w  BY <1>6, <1>9, <1>10, SeqEqual
<1>12. Newest(Listed(hs, e)) = <<e>> \o b  BY <1>3, NewestListed
<1> QED  BY <1>2, <1>5, <1>7, <1>8, <1>11, <1>12

\* the entries of later, or of earlier, records come later
Ascending(es) == \A i, j \in 1 .. Len(es) : i < j => es[i].p < es[j].p

Descending(es) == \A i, j \in 1 .. Len(es) : i < j => es[j].p < es[i].p

\* s is the first n entries of es that belong to table i, in the opposite order
SplitHolds(s, es, n, i) ==
  /\ s \in Seq(Entries) /\ Len(s) <= n /\ Ascending(s)
  /\ \A k \in 1 .. Len(s) : \E j \in 1 .. n : s[k] = es[j] /\ Table(es[j].h) = i
  /\ \A j \in 1 .. n : Table(es[j].h) = i => \E k \in 1 .. Len(s) : s[k] = es[j]

LEMMA SplitStep ==
  ASSUME NEW es \in Seq(Entries), Descending(es), NEW n \in 1 .. Len(es), NEW i,
         NEW s, SplitHolds(s, es, n - 1, i)
  PROVE  SplitHolds(IF Table(es[n].h) = i THEN <<es[n]>> \o s ELSE s, es, n, i)
<1>1. PICK l \in Nat : l = Len(s) /\ l <= n - 1  BY LenProperties DEF SplitHolds
<1>2. n \in Nat /\ Len(es) \in Nat /\ es[n] \in Entries /\ \A j \in 1 .. n - 1 : j \in 1 .. n /\ j \in 1 .. Len(es)
  BY LenProperties, ElementOfSeq
<1>3. /\ \A k \in 1 .. l : \E j \in 1 .. n - 1 : s[k] = es[j] /\ Table(es[j].h) = i
      /\ \A j \in 1 .. n - 1 : Table(es[j].h) = i => \E k \in 1 .. l : s[k] = es[j]
      /\ s \in Seq(Entries)
  BY <1>1 DEF SplitHolds
<1>4. CASE Table(es[n].h) # i
  <2>1. \A j \in 1 .. n : Table(es[j].h) = i => j \in 1 .. n - 1  BY <1>2, <1>4
  <2>2. Ascending(s)  BY DEF SplitHolds
  <2>3. \A k \in 1 .. l : \E j \in 1 .. n : s[k] = es[j] /\ Table(es[j].h) = i  BY <1>2, <1>3
  <2>4. \A j \in 1 .. n : Table(es[j].h) = i => \E k \in 1 .. l : s[k] = es[j]  BY <1>3, <2>1
  <2> QED  BY <1>1, <1>2, <1>3, <1>4, <2>2, <2>3, <2>4 DEF SplitHolds
<1>5. CASE Table(es[n].h) = i
  <2>1. PICK e \in Entries : e = es[n]  BY <1>2
  <2>2. PICK t \in Seq(Entries) : t = <<e>> \o s  BY <1>3, InFront
  <2>3. Len(t) = l + 1 /\ \A k \in 1 .. l + 1 : t[k] = IF k = 1 THEN e ELSE s[k - 1]
    BY <1>1, <1>3, <2>2, InFront
  <2>4. \A k \in 1 .. l + 1 : k # 1 => k - 1 \in 1 .. l  OBVIOUS
  <2>5. \A k \in 1 .. l + 1 : \E j \in 1 .. n : t[k] = es[j] /\ Table(es[j].h) = i
    <3> SUFFICES ASSUME NEW k \in 1 .. l + 1 PROVE \E j \in 1 .. n : t[k] = es[j] /\ Table(es[j].h) = i
      OBVIOUS
    <3>1. CASE k = 1  BY <1>2, <1>5, <2>1, <2>3, <3>1
    <3>2. CASE k # 1
      <4>1. k - 1 \in 1 .. l /\ t[k] = s[k - 1]  BY <2>3, <2>4, <3>2
      <4> QED  BY <1>2, <1>3, <4>1
    <3> QED  BY <3>1, <3>2
  <2>6. \A j \in 1 .. n : Table(es[j].h) = i => \E k \in 1 .. l + 1 : t[k] = es[j]
    <3> SUFFICES ASSUME NEW j \in 1 .. n, Table(es[j].h) = i PROVE \E k \in 1 .. l + 1 : t[k] = es[j]
      OBVIOUS
    <3>1. CASE j = n
      <4>1. 1 \in 1 .. l + 1  OBVIOUS
      <4>2. t[1] = e  BY <2>3, <4>1
      <4> QED  BY <2>1, <3>1, <4>1, <4>2
    <3>2. CASE j # n
      <4>1. PICK k \in 1 .. l : s[k] = es[j]  BY <1>2, <1>3, <3>2
      <4>2. PICK m \in 1 .. l + 1 : m = k + 1 /\ m # 1 /\ m - 1 = k  OBVIOUS
      <4> QED  BY <2>3, <4>1, <4>2
    <3> QED  BY <3>1, <3>2
  <2>7. Ascending(t)
    <3> SUFFICES ASSUME NEW a \in 1 .. l + 1, NEW b \in 1 .. l + 1, a < b PROVE t[a].p < t[b].p
      BY <2>3 DEF Ascending
    <3>1. b - 1 \in 1 .. l /\ t[b] = s[b - 1]  BY <2>3
    <3>2. CASE a = 1
      <4>1. PICK j \in 1 .. n - 1 : s[b - 1] = es[j]  BY <1>3, <3>1
      <4>2. j \in 1 .. Len(es) /\ n \in 1 .. Len(es) /\ j < n  BY <1>2
      <4>3. es[n].p < es[j].p  BY <4>2 DEF Descending
      <4> QED  BY <2>1, <2>3, <3>1, <3>2, <4>1, <4>3
    <3>3. CASE a # 1
      <4>1. a - 1 \in 1 .. l /\ t[a] = s[a - 1] /\ a - 1 < b - 1  BY <2>3, <3>3
      <4>2. s[a - 1].p < s[b - 1].p  BY <1>1, <3>1, <4>1 DEF SplitHolds, Ascending
      <4> QED  BY <3>1, <4>1, <4>2
    <3> QED  BY <3>2, <3>3
  <2>8. Len(t) <= n  BY <1>1, <1>2, <2>3
  <2> QED  BY <1>5, <2>1, <2>2, <2>3, <2>5, <2>6, <2>7, <2>8 DEF SplitHolds
<1> QED  BY <1>4, <1>5

\* A table gets its entries, in the order they were added.
LEMMA SplitIs ==
  ASSUME NEW hs \in Seq(Seq(Entries)), Descending(Newest(hs)), NEW i
  PROVE  SplitHolds(Split(hs, i), Newest(hs), Len(Newest(hs)), i)
<1>1. PICK es \in Seq(Entries) : es = Newest(hs)  BY NewestIsSeq
<1>2. PICK n \in Nat : n = Len(es)  BY LenProperties
<1>3. PICK g : SplitBy(g, es, i) /\ Split(hs, i) = g[n]  BY <1>1, <1>2, SplitTurns
<1> DEFINE T == {j \in 0 .. n : SplitHolds(g[j], es, j, i)}
<1>4. 0 \in T
  <2>1. g[0] = <<>>  BY <1>3 DEF SplitBy
  <2>2. <<>> \in Seq(Entries) /\ Len(<<>>) = 0  BY EmptySeq
  <2>3. SplitHolds(<<>>, es, 0, i)  BY <2>2 DEF SplitHolds, Ascending
  <2> QED  BY <2>1, <2>3
<1>5. ASSUME NEW j \in 1 .. n, j - 1 \in T PROVE j \in T
  <2>1. SplitHolds(g[j - 1], es, j - 1, i)  BY <1>5
  <2>2. g[j] = IF Table(es[j].h) = i THEN <<es[j]>> \o g[j - 1] ELSE g[j - 1]  BY <1>2, <1>3 DEF SplitBy
  <2>3. j \in 1 .. Len(es) /\ Descending(es) /\ j \in 0 .. n  BY <1>1, <1>2
  <2>4. SplitHolds(g[j], es, j, i)
    <3> HIDE DEF T
    <3> QED  BY <2>1, <2>2, <2>3, SplitStep
  <2> QED  BY <2>3, <2>4
<1>6. \A j \in 0 .. n : j \in T
  <2> HIDE DEF T
  <2> QED  BY <1>4, <1>5, Induct
<1>7. SplitHolds(g[n], es, n, i)  BY <1>6
<1> QED  BY <1>1, <1>2, <1>3, <1>7

-----------------------------------------------------------------------------
\* Remainders are what is left.
LEMMA RemainderIs ==
  ASSUME NEW n \in Nat, n > 0, NEW q \in Nat, NEW r \in 0 .. n - 1
  PROVE  (n * q + r) % n = r
<1>1. n * q \in Nat  OBVIOUS
<1>2. PICK x \in Nat : x = n * q + r  BY <1>1
<1>3. PICK d \in Int, m \in 0 .. n - 1 : d = x \div n /\ m = x % n /\ x = n * d + m  OBVIOUS
<1>4. n * (d - q) = n * d - n * q /\ n * d \in Int  BY <1>3
<1>5. n * (d - q) = r - m  BY <1>1, <1>2, <1>3, <1>4
<1>6. CASE d = q  BY <1>2, <1>3, <1>6
<1>7. CASE d > q
  <2>1. d - q - 1 \in Nat  BY <1>7
  <2>2. n * (d - q - 1) \in Nat  BY <2>1
  <2>3. n * (d - q - 1) = n * (d - q) - n  BY <1>3
  <2> QED  BY <1>5, <2>2, <2>3
<1>8. CASE d < q
  <2>1. q - d - 1 \in Nat  BY <1>8
  <2>2. n * (q - d - 1) \in Nat  BY <2>1
  <2>3. n * (q - d - 1) = 0 - n * (d - q) - n  BY <1>3
  <2> QED  BY <1>5, <2>2, <2>3
<1> QED  BY <1>6, <1>7, <1>8

\* the k-th slot that a search for h looks at in a table of n slots
SlotOf(h, k, n) == (((h \div Tables) + k) % n) + 1

\* where it begins
First(h, n) == (h \div Tables) % n

\* The slots go around the end of the table once.
LEMMA SlotIs ==
  ASSUME NEW h \in Nat, NEW n \in Nat, n > 0, NEW k \in 0 .. n - 1
  PROVE  /\ First(h, n) \in 0 .. n - 1 /\ SlotOf(h, k, n) \in 1 .. n
         /\ SlotOf(h, k, n) = 1 + IF First(h, n) + k < n THEN First(h, n) + k ELSE First(h, n) + k - n
<1>1. PICK a \in Nat : a = h \div Tables
  <2>1. Tables \in Nat /\ Tables > 0  BY CdbMakeAssumption
  <2> QED  BY <2>1
<1>2. PICK d \in Nat, r \in 0 .. n - 1 : r = a % n /\ a = n * d + r
  <2>1. a % n \in 0 .. n - 1 /\ a \div n \in Nat /\ a = n * (a \div n) + (a % n)  OBVIOUS
  <2> QED  BY <2>1
<1>3. First(h, n) = r  BY <1>1, <1>2 DEF First
<1>4. SlotOf(h, k, n) = ((a + k) % n) + 1  BY <1>1 DEF SlotOf
<1>5. n * d \in Nat /\ n * (d + 1) = n * d + n  OBVIOUS
<1>6. CASE r + k < n
  <2>1. PICK s \in 0 .. n - 1 : s = r + k  BY <1>6
  <2>2. a + k = n * d + s  BY <1>2, <1>5, <2>1
  <2>3. (a + k) % n = s  BY <2>2, RemainderIs
  <2> QED  BY <1>3, <1>4, <1>6, <2>1, <2>3
<1>7. CASE ~(r + k < n)
  <2>1. PICK s \in 0 .. n - 1 : s = r + k - n  BY <1>7
  <2>2. PICK e \in Nat : e = d + 1  OBVIOUS
  <2>3. a + k = n * e + s  BY <1>2, <1>5, <2>1, <2>2
  <2>4. (a + k) % n = s  BY <2>3, RemainderIs
  <2> QED  BY <1>3, <1>4, <1>7, <2>1, <2>4
<1> QED  BY <1>6, <1>7

LEMMA SlotsDiffer ==
  ASSUME NEW h \in Nat, NEW n \in Nat, n > 0, NEW k \in 0 .. n - 1, NEW l \in 0 .. n - 1,
         SlotOf(h, k, n) = SlotOf(h, l, n)
  PROVE  k = l
<1>1. PICK r \in 0 .. n - 1 : r = First(h, n)  BY SlotIs
<1>2. SlotOf(h, k, n) = 1 + IF r + k < n THEN r + k ELSE r + k - n  BY <1>1, SlotIs
<1>3. SlotOf(h, l, n) = 1 + IF r + l < n THEN r + l ELSE r + l - n  BY <1>1, SlotIs
<1>4. PICK v \in Int : v = SlotOf(h, k, n) - 1
  <2>1. SlotOf(h, k, n) \in 1 .. n  BY SlotIs
  <2> QED  BY <2>1
<1>5. (r + k < n /\ v = r + k) \/ (r + k >= n /\ v = r + k - n)  BY <1>2, <1>4
<1>6. (r + l < n /\ v = r + l) \/ (r + l >= n /\ v = r + l - n)  BY <1>3, <1>4
<1> QED  BY <1>5, <1>6

LEMMA SlotsAll ==
  ASSUME NEW h \in Nat, NEW n \in Nat, n > 0, NEW u \in 1 .. n
  PROVE  \E k \in 0 .. n - 1 : SlotOf(h, k, n) = u
<1>1. PICK r \in 0 .. n - 1 : r = First(h, n)
  <2>1. 0 \in 0 .. n - 1  OBVIOUS
  <2> QED  BY <2>1, SlotIs
<1>2. PICK k \in 0 .. n - 1 : k = IF u - 1 >= r THEN u - 1 - r ELSE u - 1 - r + n
  <2>1. CASE u - 1 >= r
    <3>1. u - 1 - r \in 0 .. n - 1  BY <2>1
    <3> QED  BY <2>1, <3>1
  <2>2. CASE u - 1 < r
    <3>1. u - 1 - r + n \in 0 .. n - 1 /\ ~(u - 1 >= r)  BY <2>2
    <3> QED  BY <3>1
  <2> QED  BY <2>1, <2>2
<1>3. SlotOf(h, k, n) = 1 + IF r + k < n THEN r + k ELSE r + k - n  BY <1>1, SlotIs
<1>4. 1 + (IF r + k < n THEN r + k ELSE r + k - n) = u  BY <1>2
<1> QED  BY <1>3, <1>4

\* the slots in use
Occupied(t) == {u \in DOMAIN t : t[u].p > 0}

\* a search of n slots for the hash of e comes to e in its k-th step
Sits(t, n, e, k) ==
  /\ t[SlotOf(e.h, k, n)] = e
  /\ \A j \in 0 .. k - 1 : t[SlotOf(e.h, j, n)].p > 0

\* a search for h comes to the entries with this hash in their order
InOrder(t, n) ==
  \A h \in Nat : \A k, l \in 0 .. n - 1 :
    /\ k < l
    /\ t[SlotOf(h, k, n)].p > 0 /\ t[SlotOf(h, k, n)].h = h
    /\ t[SlotOf(h, l, n)].p > 0 /\ t[SlotOf(h, l, n)].h = h
    => t[SlotOf(h, k, n)].p < t[SlotOf(h, l, n)].p

\* the table t of n slots holds the first m entries of es
Filed(t, es, m, n) ==
  /\ t \in [1 .. n -> Entries]
  /\ IsFiniteSet(Occupied(t)) /\ Cardinality(Occupied(t)) <= m
  /\ \A u \in 1 .. n : t[u].p > 0 => \E j \in 1 .. m : t[u] = es[j]
  /\ \A u, v \in 1 .. n : t[u].p > 0 /\ t[u] = t[v] => u = v
  /\ \A j \in 1 .. m : \E k \in 0 .. n - 1 : Sits(t, n, es[j], k)
  /\ InOrder(t, n)

\* the entry e goes to its k-th slot, the first that is free
GoesTo(t, n, e, k) ==
  /\ t[SlotOf(e.h, k, n)].p = 0
  /\ \A j \in 0 .. k - 1 : t[SlotOf(e.h, j, n)].p > 0
  /\ Insert(t, e) = [t EXCEPT ![SlotOf(e.h, k, n)] = e]

LEMMA InsertIs ==
  ASSUME NEW n \in Nat, NEW t \in [1 .. n -> Entries], NEW e \in Entries, NEW u \in 1 .. n, t[u].p = 0
  PROVE  \E k \in 0 .. n - 1 : GoesTo(t, n, e, k)
<1>1. Len(t) = n /\ n > 0 /\ e.h \in Nat  BY MadeSeq DEF Entries
<1> DEFINE free == {k \in 0 .. n - 1 : t[SlotOf(e.h, k, n)].p = 0}
           first == CHOOSE k \in free : \A j \in free : k <= j
<1>2. free # {}
  <2>1. PICK k \in 0 .. n - 1 : SlotOf(e.h, k, n) = u  BY <1>1, SlotsAll
  <2> QED  BY <2>1
<1>3. first \in free /\ \A j \in free : first <= j
  <2>1. \E k \in free : \A j \in free : k <= j
    <3>1. free \in SUBSET Nat  OBVIOUS
    <3> HIDE DEF free
    <3> QED  BY <1>2, <3>1, LeastNat
  <2> HIDE DEF free
  <2> QED  BY <2>1
<1>4. Insert(t, e) = [t EXCEPT ![SlotOf(e.h, first, n)] = e]  BY <1>1 DEF Insert, SlotOf
<1> HIDE DEF first
<1>5. PICK k \in 0 .. n - 1 : k = first  BY <1>3
<1>6. ASSUME NEW j \in 0 .. k - 1 PROVE t[SlotOf(e.h, j, n)].p > 0
  <2>1. j \in 0 .. n - 1 /\ j \notin free  BY <1>3, <1>5
  <2>2. SlotOf(e.h, j, n) \in 1 .. n  BY <1>1, <2>1, SlotIs
  <2>3. PICK v \in 1 .. n : v = SlotOf(e.h, j, n)  BY <2>2
  <2>4. t[v].p \in Nat /\ t[v].p # 0  BY <2>1, <2>3 DEF Entries
  <2> QED  BY <2>3, <2>4
<1> QED  BY <1>3, <1>4, <1>5, <1>6 DEF GoesTo

LEMMA FiledStep ==
  ASSUME NEW es \in Seq(Entries), Ascending(es), \A j \in 1 .. Len(es) : es[j].p > 0,
         NEW n \in Nat, NEW m \in 1 .. Len(es), m <= n, NEW t, Filed(t, es, m - 1, n)
  PROVE  Filed(Insert(t, es[m]), es, m, n)
<1>1. /\ m \in Nat /\ Len(es) \in Nat
      /\ \A j \in 1 .. m : j \in 1 .. Len(es) /\ es[j] \in Entries /\ es[j].p > 0 /\ es[j].h \in Nat /\ es[j].p \in Nat
  <2>1. Len(es) \in Nat /\ \A j \in 1 .. Len(es) : es[j] \in Entries  BY LenProperties, ElementOfSeq
  <2> QED  BY <2>1 DEF Entries
<1>2. PICK e \in Entries : e = es[m] /\ e.p > 0 /\ e.h \in Nat /\ e.p \in Nat  BY <1>1
<1>3. \A j \in 1 .. m - 1 : es[j].p < e.p /\ j \in 1 .. m
  <2>1. \A j \in 1 .. m - 1 : j \in 1 .. Len(es) /\ j < m /\ j \in 1 .. m  BY <1>1
  <2> QED  BY <1>2, <2>1 DEF Ascending
<1>4. /\ t \in [1 .. n -> Entries] /\ IsFiniteSet(Occupied(t)) /\ Cardinality(Occupied(t)) <= m - 1
      /\ \A u \in 1 .. n : t[u].p > 0 => \E j \in 1 .. m - 1 : t[u] = es[j]
      /\ \A u, v \in 1 .. n : t[u].p > 0 /\ t[u] = t[v] => u = v
      /\ \A j \in 1 .. m - 1 : \E k \in 0 .. n - 1 : Sits(t, n, es[j], k)
      /\ InOrder(t, n)
  BY DEF Filed
<1>5. \A u \in 1 .. n : t[u].p \in Nat /\ t[u].h \in Nat  BY <1>4 DEF Entries
<1>6. n > 0  BY <1>1
<1>7. PICK free \in 1 .. n : t[free].p = 0
  <2> SUFFICES ASSUME \A u \in 1 .. n : t[u].p # 0 PROVE FALSE  OBVIOUS
  <2>1. Occupied(t) = 1 .. n
    <3>1. DOMAIN t = 1 .. n  BY <1>4
    <3> QED  BY <1>5, <3>1 DEF Occupied
  <2>2. Cardinality(1 .. n) = n
    <3>1. Cardinality(1 .. n) = IF 1 > n THEN 0 ELSE n - 1 + 1  BY FS_Interval
    <3> QED  BY <1>6, <3>1
  <2> QED  BY <1>1, <1>4, <2>1, <2>2
<1>8. PICK k0 \in 0 .. n - 1 : GoesTo(t, n, e, k0)  BY <1>4, <1>7, InsertIs
<1>9. PICK w \in 1 .. n : w = SlotOf(e.h, k0, n)  BY <1>2, <1>6, SlotIs
<1>10. PICK s \in [1 .. n -> Entries] : s = Insert(t, e) /\ \A u \in 1 .. n : s[u] = IF u = w THEN e ELSE t[u]
  <2>1. Insert(t, e) = [t EXCEPT ![w] = e]  BY <1>8, <1>9 DEF GoesTo
  <2> QED  BY <1>4, <2>1
<1>11. t[w].p = 0  BY <1>8, <1>9 DEF GoesTo
<1>12. \A h \in Nat : \A k \in 0 .. n - 1 : SlotOf(h, k, n) \in 1 .. n  BY <1>6, SlotIs
<1>13. IsFiniteSet(Occupied(s)) /\ Cardinality(Occupied(s)) <= m
  <2>1. Occupied(s) = Occupied(t) \cup {w} /\ w \notin Occupied(t)
    <3>1. DOMAIN t = 1 .. n /\ DOMAIN s = 1 .. n  BY <1>4
    <3> QED  BY <1>2, <1>10, <1>11, <3>1 DEF Occupied
  <2>2. /\ IsFiniteSet(Occupied(t) \cup {w})
        /\ Cardinality(Occupied(t) \cup {w}) = Cardinality(Occupied(t)) + 1
    BY <1>4, <2>1, FS_AddElement
  <2>3. Cardinality(Occupied(t)) \in Nat  BY <1>4, FS_CardinalityType
  <2> QED  BY <1>1, <1>4, <2>1, <2>2, <2>3
<1>14. \A u \in 1 .. n : s[u].p > 0 => \E j \in 1 .. m : s[u] = es[j]
  <2> SUFFICES ASSUME NEW u \in 1 .. n, s[u].p > 0 PROVE \E j \in 1 .. m : s[u] = es[j]  OBVIOUS
  <2>1. CASE u = w
    <3>1. m \in 1 .. m  BY <1>1
    <3> QED  BY <1>2, <1>10, <2>1, <3>1
  <2>2. CASE u # w
    <3>1. PICK j \in 1 .. m - 1 : t[u] = es[j]  BY <1>4, <1>10, <2>2
    <3> QED  BY <1>3, <1>10, <2>2, <3>1
  <2> QED  BY <2>1, <2>2
<1>15. \A u \in 1 .. n : t[u].p > 0 => u # w /\ t[u] # e /\ t[u].p < e.p
  <2> SUFFICES ASSUME NEW u \in 1 .. n, t[u].p > 0 PROVE u # w /\ t[u] # e /\ t[u].p < e.p  OBVIOUS
  <2>1. PICK j \in 1 .. m - 1 : t[u] = es[j]  BY <1>4
  <2>2. t[u].p < e.p  BY <1>3, <2>1
  <2> QED  BY <1>2, <1>11, <2>2
<1>16. ASSUME NEW u \in 1 .. n, NEW v \in 1 .. n, s[u].p > 0, s[u] = s[v] PROVE u = v
  <2>1. s[v].p > 0  BY <1>16
  <2>2. u # w => s[u] = t[u] /\ t[u] # e  BY <1>10, <1>15, <1>16
  <2>3. v # w => s[v] = t[v] /\ t[v] # e  BY <1>10, <1>15, <2>1
  <2> QED  BY <1>4, <1>10, <1>16, <2>2, <2>3
<1>17. ASSUME NEW h \in Nat, NEW k \in 0 .. n - 1, t[SlotOf(h, k, n)].p > 0
       PROVE  s[SlotOf(h, k, n)] = t[SlotOf(h, k, n)] /\ SlotOf(h, k, n) # w
  <2>1. PICK u \in 1 .. n : u = SlotOf(h, k, n)  BY <1>12
  <2> QED  BY <1>10, <1>15, <1>17, <2>1
<1>18. ASSUME NEW j \in 1 .. m - 1, NEW k \in 0 .. n - 1, Sits(t, n, es[j], k) PROVE Sits(s, n, es[j], k)
  <2>1. PICK f \in Entries : f = es[j] /\ f.p > 0 /\ f.h \in Nat  BY <1>1, <1>3
  <2>2. s[SlotOf(f.h, k, n)] = f
    <3>1. t[SlotOf(f.h, k, n)] = f  BY <1>18, <2>1 DEF Sits
    <3> QED  BY <1>17, <2>1, <3>1
  <2>3. ASSUME NEW i \in 0 .. k - 1 PROVE s[SlotOf(f.h, i, n)].p > 0
    <3>1. i \in 0 .. n - 1 /\ t[SlotOf(f.h, i, n)].p > 0  BY <1>18, <2>1 DEF Sits
    <3> QED  BY <1>17, <2>1, <3>1
  <2> QED  BY <2>1, <2>2, <2>3 DEF Sits
<1>19. Sits(s, n, e, k0)
  <2>1. s[SlotOf(e.h, k0, n)] = e  BY <1>9, <1>10
  <2>2. ASSUME NEW i \in 0 .. k0 - 1 PROVE s[SlotOf(e.h, i, n)].p > 0
    <3>1. i \in 0 .. n - 1 /\ t[SlotOf(e.h, i, n)].p > 0  BY <1>8 DEF GoesTo
    <3> QED  BY <1>2, <1>17, <3>1
  <2> QED  BY <2>1, <2>2 DEF Sits
<1>20. \A j \in 1 .. m : \E k \in 0 .. n - 1 : Sits(s, n, es[j], k)
  <2> SUFFICES ASSUME NEW j \in 1 .. m PROVE \E k \in 0 .. n - 1 : Sits(s, n, es[j], k)  OBVIOUS
  <2>1. CASE j = m  BY <1>2, <1>19, <2>1
  <2>2. CASE j # m
    <3>1. j \in 1 .. m - 1  BY <1>1, <2>2
    <3> QED  BY <1>4, <1>18, <3>1
  <2> QED  BY <2>1, <2>2
<1>21. InOrder(s, n)
  <2> SUFFICES ASSUME NEW h \in Nat, NEW k \in 0 .. n - 1, NEW l \in 0 .. n - 1, k < l,
                      NEW a, a = SlotOf(h, k, n), NEW b, b = SlotOf(h, l, n),
                      s[a].p > 0, s[a].h = h, s[b].p > 0, s[b].h = h
               PROVE  s[a].p < s[b].p
    BY DEF InOrder
  <2>1. a \in 1 .. n /\ b \in 1 .. n /\ a # b
    <3>1. SlotOf(h, k, n) # SlotOf(h, l, n)  BY <1>6, SlotsDiffer
    <3> QED  BY <1>12, <3>1
  <2>2. CASE a # w /\ b # w
    <3>1. s[a] = t[a] /\ s[b] = t[b]  BY <1>10, <2>1, <2>2
    <3> QED  BY <1>4, <3>1 DEF InOrder
  <2>3. CASE b = w
    <3>1. s[b] = e /\ s[a] = t[a] /\ t[a].p > 0  BY <1>10, <2>1, <2>3
    <3> QED  BY <1>15, <2>1, <3>1
  <2>4. CASE a = w
    <3>1. s[a] = e /\ s[b] = t[b] /\ t[b].p > 0 /\ e.h = h /\ t[b].h = h  BY <1>10, <2>1, <2>4
    <3>2. PICK j \in 1 .. m - 1 : t[b] = es[j]  BY <1>4, <2>1, <3>1
    <3>3. PICK i \in 0 .. n - 1 : Sits(t, n, es[j], i)  BY <1>4, <3>2
    <3>4. es[j].h = h /\ t[SlotOf(h, i, n)] = t[b]  BY <3>1, <3>2, <3>3 DEF Sits
    <3>5. SlotOf(h, i, n) = b  BY <1>4, <1>12, <2>1, <3>1, <3>4
    <3>6. i = l  BY <1>6, <3>5, SlotsDiffer
    <3>7. k \in 0 .. i - 1  BY <3>6
    <3>8. t[SlotOf(h, k, n)].p > 0  BY <3>3, <3>4, <3>7 DEF Sits
    <3> QED  BY <1>11, <2>4, <3>8
  <2> QED  BY <2>2, <2>3, <2>4
<1>22. Filed(s, es, m, n)  BY <1>13, <1>14, <1>16, <1>20, <1>21 DEF Filed
<1> QED  BY <1>2, <1>10, <1>22

\* The hash table that cdb_make_finish makes holds the entries of its list.
LEMMA HashTableIs ==
  ASSUME NEW hs \in Seq(Seq(Entries)), NEW i, NEW es, es = Split(hs, i),
         Ascending(es), \A j \in 1 .. Len(es) : es[j].p > 0
  PROVE  Filed(HashTable(hs, i), es, Len(es), 2 * Len(es))
<1>1. es \in Seq(Entries)  BY SplitIsSeq
<1>2. PICK m \in Nat : m = Len(es)  BY <1>1, LenProperties
<1>3. PICK n \in Nat : n = 2 * m  BY <1>2
<1>4. PICK g : FilledBy(g, es) /\ HashTable(hs, i) = g[m]  BY <1>2, HashTableTurns
<1> DEFINE T == {j \in 0 .. m : Filed(g[j], es, j, n)}
<1>5. 0 \in T
  <2>1. PICK t : t = g[0] /\ t = [u \in 1 .. n |-> NoEntry]  BY <1>2, <1>3, <1>4 DEF FilledBy
  <2>2. t \in [1 .. n -> Entries] /\ \A u \in 1 .. n : t[u].p = 0  BY <2>1 DEF NoEntry, Entries
  <2>3. Occupied(t) = {}  BY <2>2 DEF Occupied
  <2>4. IsFiniteSet({}) /\ Cardinality({}) = 0  BY FS_EmptySet
  <2>5. InOrder(t, n)
    <3> SUFFICES ASSUME NEW h \in Nat, NEW k \in 0 .. n - 1 PROVE ~(t[SlotOf(h, k, n)].p > 0)
      BY DEF InOrder
    <3>1. SlotOf(h, k, n) \in 1 .. n  BY SlotIs
    <3> QED  BY <2>2, <3>1
  <2>6. Filed(t, es, 0, n)  BY <2>2, <2>3, <2>4, <2>5 DEF Filed
  <2>7. 0 \in 0 .. m /\ Filed(g[0], es, 0, n)  BY <2>1, <2>6
  <2> QED  BY <2>7
<1>6. ASSUME NEW j \in 1 .. m, j - 1 \in T PROVE j \in T
  <2>1. Filed(g[j - 1], es, j - 1, n)  BY <1>6
  <2>2. g[j] = Insert(g[j - 1], es[j])  BY <1>2, <1>4 DEF FilledBy
  <2>3. j \in 1 .. Len(es) /\ j <= n /\ j \in 0 .. m  BY <1>2, <1>3
  <2>4. Filed(g[j], es, j, n)
    <3> HIDE DEF T
    <3> QED  BY <1>1, <2>1, <2>2, <2>3, FiledStep
  <2> QED  BY <2>3, <2>4
<1>7. \A j \in 0 .. m : j \in T
  <2> HIDE DEF T
  <2> QED  BY <1>5, <1>6, Induct
<1>8. Filed(g[m], es, m, n)  BY <1>7
<1> QED  BY <1>2, <1>3, <1>4, <1>8

\* the records are one behind the other and behind the header
Placed(rs) ==
  /\ \A i \in 1 .. Len(rs) : rs[i].p >= HeaderSize
  /\ \A i, j \in 1 .. Len(rs) : i < j => rs[i].p < rs[j].p

\* t is a table, number i, with all records of rs whose hash leads to it
TableHolds(t, rs, i) ==
  /\ t \in Seq(Entries) /\ Len(t) \in 0 .. 2 * Len(rs)
  /\ \A u \in 1 .. Len(t) : t[u].p > 0 => \E r \in 1 .. Len(rs) : t[u] = Entry(rs[r])
  /\ \A r \in 1 .. Len(rs) : Table(Hash[rs[r].key]) = i =>
       \E k \in 0 .. Len(t) - 1 : Sits(t, Len(t), Entry(rs[r]), k)
  /\ InOrder(t, Len(t))

LEMMA HeaderSizeIs == HeaderSize \in Nat /\ HeaderSize > 0 /\ HeaderSize = 8 * Tables /\ Tables \in Nat /\ Tables > 0
BY CdbMakeAssumption DEF HeaderSize

LEMMA TablesHold ==
  ASSUME NEW hs \in Seq(Seq(Entries)), NEW rs \in Seq(RecordSet), Placed(rs),
         Newest(hs) = Backwards(rs), NEW i \in 0 .. Tables - 1
  PROVE  TableHolds(HashTable(hs, i), rs, i)
<1>1. PICK n \in Nat : n = Len(rs)  BY LenProperties
<1>2. PICK es \in Seq(Entries) : es = Newest(hs) /\ es = Backwards(rs)  BY NewestIsSeq
<1>3. Len(es) = n /\ \A j \in 1 .. n : es[j] = Entry(rs[n - j + 1])  BY <1>1, <1>2, BackwardsIs
<1>4. \A r \in 1 .. n : rs[r] \in RecordSet /\ Entry(rs[r]).p = rs[r].p /\ Entry(rs[r]).h = Hash[rs[r].key] /\ rs[r].p \in Nat
  <2>1. \A r \in 1 .. n : rs[r] \in RecordSet  BY <1>1, ElementOfSeq
  <2>2. \A r \in RecordSet : r.p \in Nat  BY DEF RecordSet
  <2> QED  BY <2>1, <2>2, EntryIs
<1>5. \A j \in 1 .. n : n - j + 1 \in 1 .. n /\ n - (n - j + 1) + 1 = j  OBVIOUS
<1>6. Descending(es)
  <2> SUFFICES ASSUME NEW j \in 1 .. n, NEW k \in 1 .. n, j < k PROVE es[k].p < es[j].p
    BY <1>3 DEF Descending
  <2>1. n - k + 1 < n - j + 1  OBVIOUS
  <2>2. rs[n - k + 1].p < rs[n - j + 1].p  BY <1>1, <1>5, <2>1 DEF Placed
  <2> QED  BY <1>3, <1>4, <1>5, <2>2
<1>7. PICK s : s = Split(hs, i) /\ SplitHolds(s, es, n, i)  BY <1>2, <1>3, <1>6, SplitIs
<1>8. PICK m \in Nat : m = Len(s) /\ m <= n  BY <1>7, LenProperties DEF SplitHolds
<1>9. s \in Seq(Entries) /\ Ascending(s)  BY <1>7 DEF SplitHolds
<1>10. \A j \in 1 .. m : \E r \in 1 .. n : s[j] = Entry(rs[r])
  <2> SUFFICES ASSUME NEW j \in 1 .. m PROVE \E r \in 1 .. n : s[j] = Entry(rs[r])  OBVIOUS
  <2>1. PICK k \in 1 .. n : s[j] = es[k]  BY <1>7, <1>8 DEF SplitHolds
  <2>2. n - k + 1 \in 1 .. n /\ s[j] = Entry(rs[n - k + 1])  BY <1>3, <1>5, <2>1
  <2> QED  BY <2>2
<1>11. \A j \in 1 .. m : s[j].p > 0
  <2> SUFFICES ASSUME NEW j \in 1 .. m PROVE s[j].p > 0  OBVIOUS
  <2>1. PICK r \in 1 .. n : s[j] = Entry(rs[r])  BY <1>10
  <2>2. rs[r].p >= HeaderSize  BY <1>1 DEF Placed
  <2> QED  BY <1>4, <2>1, <2>2, HeaderSizeIs
<1>12. PICK t : t = HashTable(hs, i) /\ Filed(t, s, m, 2 * m)  BY <1>7, <1>8, <1>9, <1>11, HashTableIs
<1>13. t \in [1 .. 2 * m -> Entries] /\ 2 * m \in Nat /\ 2 * m \in 0 .. 2 * n  BY <1>8, <1>12 DEF Filed
<1>14. t \in Seq(Entries) /\ Len(t) = 2 * m  BY <1>13, MadeSeq
<1>15. \A u \in 1 .. 2 * m : t[u].p > 0 => \E r \in 1 .. n : t[u] = Entry(rs[r])
  <2> SUFFICES ASSUME NEW u \in 1 .. 2 * m, t[u].p > 0 PROVE \E r \in 1 .. n : t[u] = Entry(rs[r])
    OBVIOUS
  <2>1. PICK j \in 1 .. m : t[u] = s[j]  BY <1>12 DEF Filed
  <2> QED  BY <1>10, <2>1
<1>16. ASSUME NEW r \in 1 .. n, Table(Hash[rs[r].key]) = i
       PROVE  \E k \in 0 .. 2 * m - 1 : Sits(t, 2 * m, Entry(rs[r]), k)
  <2>1. PICK j \in 1 .. n : j = n - r + 1 /\ n - j + 1 = r  OBVIOUS
  <2>2. es[j] = Entry(rs[r]) /\ Table(es[j].h) = i  BY <1>3, <1>4, <1>16, <2>1
  <2>3. PICK k \in 1 .. m : s[k] = es[j]  BY <1>7, <1>8, <2>2 DEF SplitHolds
  <2>4. \E l \in 0 .. 2 * m - 1 : Sits(t, 2 * m, s[k], l)  BY <1>12 DEF Filed
  <2> QED  BY <2>2, <2>3, <2>4
<1>17. InOrder(t, 2 * m)  BY <1>12 DEF Filed
<1> QED  BY <1>1, <1>12, <1>13, <1>14, <1>15, <1>16, <1>17 DEF TableHolds

-----------------------------------------------------------------------------
LEMMA AllTablesIs ==
  ASSUME NEW hs \in Seq(Seq(Entries))
  PROVE  /\ AllTables(hs) \in Seq(Seq(Entries)) /\ Len(AllTables(hs)) = Tables
         /\ \A i \in 1 .. Tables : AllTables(hs)[i] = HashTable(hs, i - 1) /\ AllTables(hs)[i] \in Seq(Entries)
<1>1. Tables \in Nat  BY CdbMakeAssumption
<1> QED  BY <1>1, HashTableIsSeq DEF AllTables

\* where table i begins when the first begins at b
Starts(hs, b, i) == b + 8 * Len(FlattenSeq(SubSeq(AllTables(hs), 1, i - 1)))

LEMMA StartsAre ==
  ASSUME NEW hs \in Seq(Seq(Entries)), NEW b \in Nat, NEW i \in 1 .. Tables
  PROVE  Starts(hs, b, i) \in Nat /\ Starts(hs, b, i) >= b
<1>1. PICK ts \in Seq(Seq(Entries)) : ts = AllTables(hs) /\ Len(ts) = Tables  BY AllTablesIs
<1>2. Tables \in Nat  BY CdbMakeAssumption
<1>3. SubSeq(ts, 1, i - 1) \in Seq(Seq(Entries))
  <2>1. \A j \in 1 .. i - 1 : ts[j] \in Seq(Entries)
    <3>1. \A j \in 1 .. i - 1 : j \in 1 .. Len(ts)  BY <1>1, <1>2
    <3> QED  BY <3>1, ElementOfSeq
  <2> QED  BY <1>2, <2>1, SubSeqProperties
<1>4. FlattenSeq(SubSeq(ts, 1, i - 1)) \in Seq(Entries)  BY <1>3, FlattenIsSeq
<1>5. Len(FlattenSeq(SubSeq(ts, 1, i - 1))) \in Nat  BY <1>4, LenProperties
<1> QED  BY <1>1, <1>5 DEF Starts

\* The slots of a table are put one behind the other from where it begins.
LEMMA SlotsAt ==
  ASSUME NEW hs \in Seq(Seq(Entries)), NEW b \in Nat, NEW i \in 1 .. Tables,
         NEW u \in 1 .. Len(AllTables(hs)[i])
  PROVE  \E v \in 1 .. Len(Slots(hs)) : /\ b + 8 * (v - 1) = Starts(hs, b, i) + 8 * (u - 1)
                                         /\ Slots(hs)[v] = Item(8, AllTables(hs)[i][u])
<1>1. PICK ts \in Seq(Seq(Entries)) : ts = AllTables(hs) /\ Len(ts) = Tables  BY AllTablesIs
<1>2. PICK l : l = Len(FlattenSeq(SubSeq(ts, 1, i - 1)))  OBVIOUS
<1>3. PICK cells \in Seq(Entries) : cells = FlattenSeq(ts)  BY FlattenIsSeq
<1>4. l \in Nat /\ l + u \in 1 .. Len(cells) /\ cells[l + u] = ts[i][u]
  <2>1. i \in 1 .. Len(ts) /\ u \in 1 .. Len(ts[i])  BY <1>1
  <2> QED  BY <1>2, <1>3, <2>1, FlattenAt
<1>5. DOMAIN cells = 1 .. Len(cells) /\ Len(cells) \in Nat  BY LenProperties
<1>6. Slots(hs) = [v \in 1 .. Len(cells) |-> Item(8, cells[v])]  BY <1>1, <1>3, <1>5 DEF Slots
<1>7. Slots(hs) \in Seq(ItemSet) /\ Len(Slots(hs)) = Len(cells)
  <2>1. \A v \in 1 .. Len(cells) : cells[v] \in Entries  BY ElementOfSeq
  <2>2. \A v \in 1 .. Len(cells) : Item(8, cells[v]) \in ItemSet  BY <2>1 DEF Item, ItemSet
  <2>3. PICK f \in [1 .. Len(cells) -> ItemSet] : f = Slots(hs)  BY <1>6, <2>2
  <2> QED  BY <1>5, <2>3, MadeSeq
<1>8. PICK v \in 1 .. Len(cells) : v = l + u  BY <1>4
<1>9. Slots(hs)[v] = Item(8, ts[i][u])  BY <1>4, <1>6, <1>8
<1>10. Starts(hs, b, i) = b + 8 * l  BY <1>1, <1>2 DEF Starts
<1>11. u \in Nat  BY <1>1, AllTablesIs, LenProperties
<1>12. b + 8 * (v - 1) = b + 8 * l + 8 * (u - 1)  BY <1>4, <1>8, <1>11
<1> QED  BY <1>1, <1>7, <1>9, <1>10, <1>12

\* The header is where the tables begin and how many slots they have.
LEMMA HeaderIs ==
  ASSUME NEW hs \in Seq(Seq(Entries)), NEW b \in Nat
  PROVE  /\ Header(hs, b) \in Seq(ItemSet) /\ Len(Header(hs, b)) = 2 * Tables
         /\ \A i \in 1 .. 2 * Tables : Header(hs, b)[i].size = 4
         /\ \A i \in 1 .. Tables : /\ Header(hs, b)[2 * i - 1] = Item(4, Starts(hs, b, i))
                                   /\ Header(hs, b)[2 * i] = Item(4, Len(AllTables(hs)[i]))
<1> DEFINE pair(i) == <<Item(4, Starts(hs, b, i)), Item(4, Len(AllTables(hs)[i]))>>
           Fours == {it \in ItemSet : it.size = 4}
<1>1. PICK n \in Nat : n = Tables  BY CdbMakeAssumption
<1>2. ASSUME NEW i \in 1 .. n
      PROVE  pair(i) \in Seq(Fours) /\ Len(pair(i)) = 2 /\ pair(i)[1] = Item(4, Starts(hs, b, i)) /\ pair(i)[2] = Item(4, Len(AllTables(hs)[i]))
  <2>1. Starts(hs, b, i) \in Nat /\ Len(AllTables(hs)[i]) \in Nat  BY <1>1, StartsAre, AllTablesIs, LenProperties
  <2>2. PICK x, y \in Fours : x = Item(4, Starts(hs, b, i)) /\ y = Item(4, Len(AllTables(hs)[i]))
    <3>1. \A z \in Nat : Item(4, z) \in Fours  BY DEF Item, ItemSet
    <3> HIDE DEF Fours
    <3> QED  BY <2>1, <3>1
  <2>3. pair(i) = <<x, y>>  BY <2>2
  <2> HIDE DEF pair, Fours
  <2> QED  BY <2>2, <2>3
<1>3. PICK ps \in Seq(Seq(Fours)) : ps = [i \in 1 .. n |-> pair(i)] /\ Len(ps) = n /\ \A i \in 1 .. n : ps[i] = pair(i)
  <2>1. [i \in 1 .. n |-> pair(i)] \in [1 .. n -> Seq(Fours)]
    <3> HIDE DEF pair, Fours
    <3> QED  BY <1>2
  <2> DEFINE f == [i \in 1 .. n |-> pair(i)]
  <2>2. f \in Seq(Seq(Fours)) /\ Len(f) = n
    <3> HIDE DEF f, Fours
    <3> QED  BY <2>1, MadeSeq DEF f
  <2>3. \A i \in 1 .. n : f[i] = pair(i)  OBVIOUS
  <2> HIDE DEF Fours, pair
  <2> QED  BY <2>2, <2>3
<1>4. Header(hs, b) = FlattenSeq(ps)
  <2>1. Header(hs, b) = FlattenSeq([i \in 1 .. n |-> pair(i)])  BY <1>1 DEF Header, Starts
  <2> HIDE DEF pair
  <2> QED  BY <1>3, <2>1
<1> HIDE DEF pair
<1>5. PICK g : Joined(g, ps, Fours) /\ FlattenSeq(ps) = g[n]
  <2> HIDE DEF Fours
  <2> QED  BY <1>3, FlattenIs
<1>6. \A i \in 0 .. n : g[i] \in Seq(Fours)
  <2> HIDE DEF Fours
  <2> QED  BY <1>3, <1>5 DEF Joined
<1>7. \A i \in 1 .. n : g[i] = g[i - 1] \o ps[i] /\ ps[i] \in Seq(Fours) /\ Len(ps[i]) = 2
  <2> HIDE DEF Fours
  <2> QED  BY <1>2, <1>3, <1>5 DEF Joined
<1> HIDE DEF Fours
<1> DEFINE T == {i \in 0 .. n : Len(g[i]) = 2 * i}
<1>8. 0 \in T
  <2>1. g[0] = <<>> /\ Len(<<>>) = 0  BY <1>5, EmptySeq DEF Joined
  <2> QED  BY <2>1
<1>9. ASSUME NEW i \in 1 .. n, i - 1 \in T PROVE i \in T
  <2>1. PICK v, w \in Seq(Fours) : v = g[i - 1] /\ w = ps[i]
    <3>1. i - 1 \in 0 .. n  OBVIOUS
    <3> HIDE DEF T
    <3> QED  BY <1>6, <1>7, <3>1
  <2>2. Len(v) = 2 * (i - 1) /\ Len(w) = 2  BY <1>7, <1>9, <2>1
  <2>3. Len(v \o w) = Len(v) + Len(w)
    <3> HIDE DEF T
    <3> QED  BY ConcatProperties
  <2>4. g[i] = v \o w  BY <1>7, <2>1
  <2>5. 2 * (i - 1) + 2 = 2 * i  OBVIOUS
  <2>6. Len(g[i]) = 2 * i
    <3> HIDE DEF T
    <3> QED  BY <2>2, <2>3, <2>4, <2>5
  <2> QED  BY <2>6
<1>10. \A i \in 0 .. n : i \in T
  <2> HIDE DEF T
  <2> QED  BY <1>8, <1>9, Induct
<1>11. \A i \in 0 .. n : Len(g[i]) = 2 * i  BY <1>10
<1> HIDE DEF T
<1>12. PICK f \in Seq(Fours) : f = FlattenSeq(ps) /\ Len(f) = 2 * n
  <2>1. n \in 0 .. n  OBVIOUS
  <2> QED  BY <1>5, <1>6, <1>11, <2>1
<1>13. ASSUME NEW i \in 1 .. n, NEW u \in 1 .. 2 PROVE f[2 * (i - 1) + u] = pair(i)[u]
  <2>1. FlattenSeq(SubSeq(ps, 1, i - 1)) = g[i - 1]
    <3>1. i - 1 \in 0 .. Len(ps)  BY <1>3
    <3> QED  BY <1>5, <3>1, FlattenPrefix
  <2>2. PICK l : l = 2 * (i - 1) /\ l = Len(FlattenSeq(SubSeq(ps, 1, i - 1)))
    <3>1. i - 1 \in 0 .. n  OBVIOUS
    <3> QED  BY <1>11, <2>1, <3>1
  <2>3. i \in 1 .. Len(ps) /\ u \in 1 .. Len(ps[i])  BY <1>3, <1>7
  <2>4. f[l + u] = ps[i][u]  BY <1>12, <2>2, <2>3, FlattenAt
  <2> QED  BY <1>3, <2>2, <2>4
<1>14. f \in Seq(ItemSet) /\ \A i \in 1 .. 2 * n : f[i].size = 4
  <2>1. \A i \in 1 .. 2 * n : f[i] \in Fours  BY <1>12, ElementOfSeq
  <2>2. Fours \subseteq ItemSet /\ \A x \in Fours : x.size = 4  BY DEF Fours
  <2>3. f \in Seq(ItemSet)  BY <2>2, SeqMonotonic
  <2> QED  BY <2>1, <2>2, <2>3
<1>15. ASSUME NEW i \in 1 .. n
       PROVE  f[2 * i - 1] = Item(4, Starts(hs, b, i)) /\ f[2 * i] = Item(4, Len(AllTables(hs)[i]))
  <2>1. 2 * (i - 1) + 1 = 2 * i - 1 /\ 2 * (i - 1) + 2 = 2 * i /\ 1 \in 1 .. 2 /\ 2 \in 1 .. 2  OBVIOUS
  <2>2. f[2 * (i - 1) + 1] = pair(i)[1] /\ f[2 * (i - 1) + 2] = pair(i)[2]  BY <1>13, <2>1
  <2> QED  BY <1>2, <2>1, <2>2
<1> QED  BY <1>1, <1>4, <1>12, <1>14, <1>15

-----------------------------------------------------------------------------
(***************************************************************************)
(* What the writer has put, in the file and in its buffer                  *)
(***************************************************************************)
\* the item it is in the file f at o
InFile(f, o, it) == o \in DOMAIN f /\ f[o] = it

\* the item it is in the file f at o, or will be once the queue q is written from s on
Lies(f, q, s, o, it) ==
  \/ InFile(f, o, it)
  \/ \E a, c \in Seq(ItemSet) : q = (a \o <<it>>) \o c /\ o = s + SizeOf(a)

\* what lies behind the header by f, q and s lies there by g, r and z too
Carried(f, q, s, g, r, z) ==
  \A it \in ItemSet, o \in Nat : o >= HeaderSize /\ Lies(f, q, s, o, it) => Lies(g, r, z, o, it)

\* a file of items, with an end
FileOK(f) ==
  /\ DOMAIN f \subseteq Nat
  /\ \A o \in DOMAIN f : f[o] \in ItemSet
  /\ \E b \in Nat : \A o \in DOMAIN f : o + f[o].size <= b

\* the file f after the item it is written at s
Write(f, s, it) == [o \in DOMAIN f \cup {s} |-> IF o = s THEN it ELSE f[o]]

LEMMA WriteOK ==
  ASSUME NEW f, FileOK(f), NEW s \in Nat, NEW it \in ItemSet
  PROVE  FileOK(Write(f, s, it))
<1> DEFINE g == Write(f, s, it)
<1>1. DOMAIN g = DOMAIN f \cup {s} /\ \A o \in DOMAIN g : g[o] = IF o = s THEN it ELSE f[o]
  BY DEF Write
<1>2. PICK n \in Nat : n = it.size  BY DEF ItemSet
<1>3. PICK b \in Nat : \A o \in DOMAIN f : o + f[o].size <= b  BY DEF FileOK
<1>4. \A o \in DOMAIN f : o \in Nat /\ f[o] \in ItemSet /\ f[o].size \in Nat  BY DEF FileOK, ItemSet
<1>5. PICK c \in Nat : c = b + s + n  OBVIOUS
<1> HIDE DEF g
<1>6. ASSUME NEW o \in DOMAIN g PROVE o + g[o].size <= c
  <2>1. CASE o = s  BY <1>1, <1>2, <1>5, <2>1
  <2>2. CASE o # s
    <3>1. o \in DOMAIN f /\ g[o] = f[o]  BY <1>1, <2>2
    <3> QED  BY <1>3, <1>4, <1>5, <3>1
  <2> QED  BY <2>1, <2>2
<1>7. DOMAIN g \subseteq Nat /\ \A o \in DOMAIN g : g[o] \in ItemSet  BY <1>1, <1>4
<1> QED  BY <1>6, <1>7 DEF FileOK, g

\* What is put later leaves it there.
LEMMA CarriedOn ==
  ASSUME NEW f, NEW q \in Seq(ItemSet), NEW r \in Seq(ItemSet), NEW s
  PROVE  Carried(f, q, s, f, q \o r, s)
<1> SUFFICES ASSUME NEW it \in ItemSet, NEW o \in Nat, Lies(f, q, s, o, it)
             PROVE  Lies(f, q \o r, s, o, it)
  BY DEF Carried
<1>1. CASE InFile(f, o, it)  BY <1>1 DEF Lies
<1>2. CASE ~InFile(f, o, it)
  <2>1. PICK a \in Seq(ItemSet), c \in Seq(ItemSet) : q = (a \o <<it>>) \o c /\ o = s + SizeOf(a)
    BY <1>2 DEF Lies
  <2>2. PICK b \in Seq(ItemSet) : b = a \o <<it>>
    <3>1. <<it>> \in Seq(ItemSet)  OBVIOUS
    <3> QED  BY <3>1, ConcatProperties
  <2>3. PICK d \in Seq(ItemSet) : d = c \o r  BY ConcatProperties
  <2>4. (b \o c) \o r = b \o (c \o r)
    <3>1. Regroups(b, c, r)  BY Regrouped
    <3> QED  BY <3>1 DEF Regroups
  <2>5. q \o r = b \o d  BY <2>1, <2>2, <2>3, <2>4
  <2> QED  BY <2>1, <2>2, <2>5 DEF Lies
<1> QED  BY <1>1, <1>2

\* The writing of the first item leaves what lies in the file and the queue there.
LEMMA CarriedOut ==
  ASSUME NEW f, NEW q \in Seq(ItemSet), q # <<>>, NEW s \in Nat, s \notin DOMAIN f
  PROVE  Carried(f, q, s, Write(f, s, q[1]), Tail(q), s + q[1].size)
<1> SUFFICES ASSUME NEW it \in ItemSet, NEW o \in Nat, Lies(f, q, s, o, it)
             PROVE  Lies(Write(f, s, q[1]), Tail(q), s + q[1].size, o, it)
  BY DEF Carried
<1>0. PICK g : g = Write(f, s, q[1])  OBVIOUS
<1>1. DOMAIN g = DOMAIN f \cup {s} /\ \A v \in DOMAIN g : g[v] = IF v = s THEN q[1] ELSE f[v]
  BY <1>0 DEF Write
<1>2. PICK e \in ItemSet, t \in Seq(ItemSet), n \in Nat : e = q[1] /\ t = Tail(q) /\ q = <<e>> \o t /\ n = e.size
  <2>1. q[1] \in ItemSet /\ q[1].size \in Nat /\ Tail(q) \in Seq(ItemSet)  BY SizeTail
  <2> QED  BY <2>1, FirstAndRest
<1>3. CASE InFile(f, o, it)
  <2>1. o # s /\ o \in DOMAIN g /\ g[o] = it  BY <1>1, <1>3 DEF InFile
  <2> QED  BY <1>0, <2>1 DEF Lies, InFile
<1>4. CASE ~InFile(f, o, it)
  <2>1. PICK a \in Seq(ItemSet), c \in Seq(ItemSet) : q = (a \o <<it>>) \o c /\ o = s + SizeOf(a)
    BY <1>4 DEF Lies
  <2>2. PICK one \in Seq(ItemSet) : one = <<it>>  BY OneElement
  <2>3. CASE a = <<>>
    <3>1. q = one \o c  BY <2>1, <2>2, <2>3
    <3>2. q[1] = it  BY <2>2, <3>1, InFront
    <3>3. o = s  BY <2>1, <2>3, SizeEmpty
    <3> QED  BY <1>0, <1>1, <3>2, <3>3 DEF Lies, InFile
  <2>4. CASE a # <<>>
    <3>1. PICK x \in ItemSet, u \in Seq(ItemSet) : x = a[1] /\ u = Tail(a) /\ a = <<x>> \o u
      <4>1. a[1] \in ItemSet /\ Tail(a) \in Seq(ItemSet)  BY <2>4, SizeTail
      <4> QED  BY <2>4, <4>1, FirstAndRest
    <3>2. SizeOf(a) = x.size + SizeOf(u) /\ x.size \in Nat /\ SizeOf(u) \in Nat
      BY <2>4, <3>1, SizeTail, SizeNat
    <3>3. PICK xs \in Seq(ItemSet) : xs = <<x>>  BY OneElement
    <3>4. PICK b \in Seq(ItemSet) : b = u \o one  BY ConcatProperties
    <3>5. PICK d \in Seq(ItemSet) : d = b \o c  BY ConcatProperties
    <3>6. (xs \o u) \o one = xs \o (u \o one)
      <4>1. Regroups(xs, u, one)  BY Regrouped
      <4> QED  BY <4>1 DEF Regroups
    <3>7. (xs \o b) \o c = xs \o (b \o c)
      <4>1. Regroups(xs, b, c)  BY Regrouped
      <4> QED  BY <4>1 DEF Regroups
    <3>8. q = xs \o d  BY <2>1, <2>2, <3>1, <3>3, <3>4, <3>5, <3>6, <3>7
    <3>9. q[1] = x /\ t = d
      <4>1. q = <<x>> \o d /\ q = <<e>> \o t  BY <1>2, <3>3, <3>8
      <4>2. Len(q) = Len(d) + 1 /\ q[1] = x /\ \A i \in 1 .. Len(d) : q[i + 1] = d[i]
        BY <4>1, InFront
      <4>3. Len(q) = Len(t) + 1 /\ \A i \in 1 .. Len(t) : q[i + 1] = t[i]
        BY <4>1, InFront
      <4>4. Len(t) = Len(d)  BY <4>2, <4>3, LenProperties
      <4>5. \A i \in 1 .. Len(t) : t[i] = d[i]  BY <4>2, <4>3, <4>4
      <4> QED  BY <4>2, <4>4, <4>5, SeqEqual
    <3>10. Tail(q) = (u \o <<it>>) \o c  BY <1>2, <2>2, <3>4, <3>5, <3>9
    <3>11. o = (s + q[1].size) + SizeOf(u)
      <4>1. q[1].size = x.size  BY <3>9
      <4>2. o = s + (x.size + SizeOf(u))  BY <2>1, <3>2
      <4> QED  BY <3>2, <4>1, <4>2
    <3> QED  BY <1>0, <3>10, <3>11 DEF Lies
  <2> QED  BY <2>3, <2>4
<1> QED  BY <1>3, <1>4

\* Once the queue is empty everything lies in the file.
LEMMA LiesInFile ==
  ASSUME NEW f, NEW s, NEW o, NEW it \in ItemSet, Lies(f, <<>>, s, o, it)
  PROVE  InFile(f, o, it)
<1> SUFFICES ASSUME NEW a \in Seq(ItemSet), NEW c \in Seq(ItemSet), <<>> = (a \o <<it>>) \o c PROVE FALSE
  BY DEF Lies
<1>1. PICK one \in Seq(ItemSet) : one = <<it>> /\ Len(one) = 1  BY OneElement
<1>2. PICK b \in Seq(ItemSet) : b = a \o one /\ Len(b) = Len(a) + 1  BY <1>1, ConcatProperties
<1>3. PICK w \in Seq(ItemSet) : w = b \o c /\ Len(w) = Len(b) + Len(c)  BY ConcatProperties
<1>4. Len(w) = 0  BY <1>1, <1>2, <1>3, EmptySeq
<1> QED  BY <1>2, <1>3, <1>4, LenProperties

\* The writing of the header leaves what lies behind it there.
LEMMA CarriedPast ==
  ASSUME NEW f, NEW s \in Nat, s < HeaderSize, NEW it
  PROVE  Carried(f, <<>>, 0, Write(f, s, it), <<>>, 0)
<1> SUFFICES ASSUME NEW e \in ItemSet, NEW o \in Nat, o >= HeaderSize, Lies(f, <<>>, 0, o, e)
             PROVE  Lies(Write(f, s, it), <<>>, 0, o, e)
  BY DEF Carried
<1>1. InFile(f, o, e)  BY LiesInFile
<1>2. o # s  BY HeaderSizeIs
<1>3. InFile(Write(f, s, it), o, e)  BY <1>1, <1>2 DEF InFile, Write
<1> QED  BY <1>3 DEF Lies

LEMMA CarriedDown ==
  ASSUME NEW f, NEW s
  PROVE  Carried(f, <<>>, s, f, <<>>, 0)
BY LiesInFile DEF Carried, Lies

\* An item of a queue of items of eight bytes lies eight bytes for each before it on.
LEMMA LiesEight ==
  ASSUME NEW f, NEW q \in Seq(ItemSet), NEW r \in Seq(ItemSet), NEW s \in Nat,
         \A u \in 1 .. Len(r) : r[u].size = 8, NEW v \in 1 .. Len(r)
  PROVE  Lies(f, q \o r, s, s + SizeOf(q) + 8 * (v - 1), r[v])
<1>1. PICK n \in Nat, w \in Nat : n = Len(r) /\ w = v /\ w \in 1 .. n  BY LenProperties
<1>2. PICK a \in Seq(ItemSet), c \in Seq(ItemSet) :
        r = (a \o <<r[w]>>) \o c /\ Len(a) = w - 1 /\ \A i \in 1 .. w - 1 : a[i] = r[i]
  BY <1>1, SplitAt
<1>4. PICK it \in ItemSet : it = r[w]  BY <1>1, ElementOfSeq
<1>5. PICK one \in Seq(ItemSet) : one = <<it>>  BY OneElement
<1>6. PICK b \in Seq(ItemSet) : b = a \o one  BY ConcatProperties
<1>7. r = b \o c  BY <1>2, <1>4, <1>5, <1>6
<1>8. PICK qa \in Seq(ItemSet) : qa = q \o a /\ SizeOf(qa) = SizeOf(q) + SizeOf(a)  BY SizeConcat
<1>9. q \o r = (qa \o <<it>>) \o c
  <2>1. (q \o b) \o c = q \o (b \o c)
    <3>1. Regroups(q, b, c)  BY Regrouped
    <3> QED  BY <3>1 DEF Regroups
  <2>2. (q \o a) \o one = q \o (a \o one)
    <3>1. Regroups(q, a, one)  BY Regrouped
    <3> QED  BY <3>1 DEF Regroups
  <2> QED  BY <1>5, <1>6, <1>7, <1>8, <2>1, <2>2
<1>10. SizeOf(a) = 8 * (w - 1)
  <2>1. \A i \in 1 .. Len(a) : a[i].size = 8  BY <1>1, <1>2
  <2> QED  BY <1>2, <2>1, SizeEight
<1>11. s + SizeOf(q) + 8 * (w - 1) = s + SizeOf(qa)  BY <1>1, <1>8, <1>10, SizeNat
<1> QED  BY <1>1, <1>4, <1>9, <1>11 DEF Lies

-----------------------------------------------------------------------------
(***************************************************************************)
(* The file of the writer                                                  *)
(***************************************************************************)
\* items with bytes
Filled == {it \in ItemSet : it.size > 0}

LEMMA FilledAreItems ==
  ASSUME NEW q \in Seq(Filled)
  PROVE  q \in Seq(ItemSet)
<1>1. PICK n \in Nat : n = Len(q) /\ q \in [1 .. n -> Filled]  BY LenProperties
<1>2. q \in [1 .. n -> ItemSet]  BY <1>1 DEF Filled
<1> QED  BY <1>2, MadeSeq

\* every record is where its entry says
RecordsLie(rs, f, q, s) ==
  \A i \in 1 .. Len(rs) :
    /\ \E d \in DataLens : Lies(f, q, s, rs[i].p, Item(8, <<KeyLen[rs[i].key], d>>))
    /\ KeyLen[rs[i].key] > 0 => Lies(f, q, s, rs[i].p + 8, Item(KeyLen[rs[i].key], rs[i].key))

\* the tables are one after the other from b on
TablesLie(hs, b, f, q, s) ==
  \A i \in 1 .. Tables : \A u \in 1 .. Len(AllTables(hs)[i]) :
    Lies(f, q, s, Starts(hs, b, i) + 8 * (u - 1), Item(8, AllTables(hs)[i][u]))

\* and the header fin says so
Tabled(hs, fin, f, q, s) ==
  \E b \in Nat : b >= HeaderSize /\ fin = Header(hs, b) /\ TablesLie(hs, b, f, q, s)

LEMMA RecordsCarried ==
  ASSUME NEW rs \in Seq(RecordSet), Placed(rs), NEW f, NEW q, NEW s, NEW g, NEW r, NEW z,
         RecordsLie(rs, f, q, s), Carried(f, q, s, g, r, z)
  PROVE  RecordsLie(rs, g, r, z)
<1> SUFFICES ASSUME NEW i \in 1 .. Len(rs)
             PROVE  /\ \E d \in DataLens : Lies(g, r, z, rs[i].p, Item(8, <<KeyLen[rs[i].key], d>>))
                    /\ KeyLen[rs[i].key] > 0 => Lies(g, r, z, rs[i].p + 8, Item(KeyLen[rs[i].key], rs[i].key))
  BY DEF RecordsLie
<1>1. PICK k \in Key, p \in Nat, l \in Nat : k = rs[i].key /\ p = rs[i].p /\ l = KeyLen[k]
  <2>1. rs[i] \in RecordSet  BY ElementOfSeq
  <2>2. rs[i].key \in Key /\ rs[i].p \in Nat  BY <2>1 DEF RecordSet
  <2> QED  BY <2>2, CdbMakeAssumption
<1>2. p >= HeaderSize /\ p + 8 \in Nat /\ p + 8 >= HeaderSize  BY <1>1, HeaderSizeIs DEF Placed
<1>3. PICK d \in DataLens : Lies(f, q, s, p, Item(8, <<l, d>>))  BY <1>1 DEF RecordsLie
<1>4. Item(8, <<l, d>>) \in ItemSet /\ Item(l, k) \in ItemSet  BY <1>1 DEF Item, ItemSet
<1>5. Lies(g, r, z, p, Item(8, <<l, d>>))  BY <1>2, <1>3, <1>4 DEF Carried
<1>6. ASSUME l > 0 PROVE Lies(g, r, z, p + 8, Item(l, k))
  <2>1. Lies(f, q, s, p + 8, Item(l, k))  BY <1>1, <1>6 DEF RecordsLie
  <2> QED  BY <1>2, <1>4, <2>1 DEF Carried
<1> QED  BY <1>1, <1>5, <1>6

LEMMA TabledCarried ==
  ASSUME NEW hs \in Seq(Seq(Entries)), NEW fin, NEW f, NEW q, NEW s, NEW g, NEW r, NEW z,
         Tabled(hs, fin, f, q, s), Carried(f, q, s, g, r, z)
  PROVE  Tabled(hs, fin, g, r, z)
<1>1. PICK b \in Nat : b >= HeaderSize /\ fin = Header(hs, b) /\ TablesLie(hs, b, f, q, s)  BY DEF Tabled
<1>2. ASSUME NEW i \in 1 .. Tables, NEW u \in 1 .. Len(AllTables(hs)[i])
      PROVE  Lies(g, r, z, Starts(hs, b, i) + 8 * (u - 1), Item(8, AllTables(hs)[i][u]))
  <2>1. PICK v \in Nat : v = u /\ v >= 1
    <3>1. Len(AllTables(hs)[i]) \in Nat  BY AllTablesIs, LenProperties
    <3> QED  BY <3>1
  <2>2. PICK e \in Entries : e = AllTables(hs)[i][u]  BY AllTablesIs, ElementOfSeq
  <2>3. PICK o \in Nat : o = Starts(hs, b, i) + 8 * (v - 1) /\ o >= HeaderSize
    <3>1. Starts(hs, b, i) \in Nat /\ Starts(hs, b, i) >= b  BY StartsAre
    <3> QED  BY <1>1, <2>1, <3>1, HeaderSizeIs
  <2>4. Item(8, e) \in ItemSet  BY DEF Item, ItemSet
  <2>5. Lies(f, q, s, o, Item(8, e))  BY <1>1, <2>1, <2>2, <2>3 DEF TablesLie
  <2>6. Lies(g, r, z, o, Item(8, e))  BY <2>3, <2>4, <2>5 DEF Carried
  <2> QED  BY <2>1, <2>2, <2>3, <2>6
<1>3. TablesLie(hs, b, g, r, z)  BY <1>2 DEF TablesLie
<1> QED  BY <1>1, <1>3 DEF Tabled

\* nothing of the header is in the file
NoHeader == off >= HeaderSize /\ \A o \in DOMAIN file : o >= HeaderSize

\* behind the header the file grows
Appending ==
  /\ NoHeader
  /\ \A o \in DOMAIN file : o < off
  /\ RecordsLie(records, file, queue, off)

\* all that the header points at is in the file
HasAll == RecordsLie(records, file, <<>>, 0) /\ Tabled(head, final, file, <<>>, 0)

\* j halves of entries of the header fin are in the file f, from its beginning
Written(fin, f, j) ==
  /\ \A i \in 1 .. j : InFile(f, 4 * (i - 1), fin[i])
  /\ \A o \in DOMAIN f : o >= HeaderSize \/ \E i \in 1 .. j : o = 4 * (i - 1)

\* and the others in the buffer
QueueIs(fin, q, j) ==
  Len(q) = 2 * Tables - j /\ \A i \in 1 .. Len(q) : q[i] = fin[j + i]

MakeTypes ==
  /\ stage \in {"add", "flush", "header", "done", "failed"}
  /\ pos \in 0 .. Mod - 1 /\ off \in Nat /\ queue \in Seq(Filled) /\ FileOK(file)
  /\ head \in Seq(Seq(Entries)) /\ records \in Seq(RecordSet)
  /\ Placed(records) /\ Newest(head) = Backwards(records)

MakeStages ==
  /\ stage = "add" => Appending /\ \A i \in 1 .. Len(records) : records[i].p < pos
  /\ stage = "flush" => Appending /\ Tabled(head, final, file, queue, off)
  /\ stage = "header" =>
       HasAll /\ \E j \in 0 .. 2 * Tables : Written(final, file, j) /\ QueueIs(final, queue, j) /\ off = 4 * j
  /\ stage = "done" => queue = <<>> /\ HasAll /\ Written(final, file, 2 * Tables)
  /\ stage = "failed" =>
       NoHeader \/ (queue = <<>> /\ HasAll /\ \E j \in 0 .. 2 * Tables : Written(final, file, j))

\* The inductive invariant of the writer: what each stage has put where.
MakeInv == MakeTypes /\ MakeStages

LEMMA RecordFilled ==
  ASSUME NEW k \in Key, NEW d \in DataLens
  PROVE  /\ Record(k, d) \in Seq(Filled)
         /\ \A f : \A q \in Seq(ItemSet) : \A s \in Nat :
              /\ Lies(f, q \o Record(k, d), s, s + SizeOf(q), Item(8, <<KeyLen[k], d>>))
              /\ KeyLen[k] > 0 => Lies(f, q \o Record(k, d), s, s + SizeOf(q) + 8, Item(KeyLen[k], k))
<1>1. PICK l \in Nat, n \in Nat : l = KeyLen[k] /\ n = d  BY CdbMakeAssumption
<1>2. PICK x \in ItemSet : x = Item(8, <<l, d>>) /\ x \in Filled /\ x.size = 8
  <2>1. Item(8, <<l, d>>) \in ItemSet /\ Item(8, <<l, d>>).size = 8  BY <1>1 DEF Item, ItemSet
  <2> QED  BY <2>1 DEF Filled
<1>3. PICK one \in Seq(ItemSet) : one = <<x>> /\ one \in Seq(Filled) /\ SizeOf(one) = 8
  BY <1>2, OneElement, SizeOne
<1>4. <<>> \in Seq(Filled) /\ <<>> \in Seq(ItemSet)  BY EmptySeq
<1>5. PICK y \in ItemSet : y = Item(l, k) /\ (l > 0 => y \in Filled)
  <2>1. Item(l, k) \in ItemSet /\ Item(l, k).size = l  BY <1>1 DEF Item, ItemSet
  <2> QED  BY <2>1 DEF Filled
<1>6. PICK a \in Seq(Filled) : a = PutItem(l, k) /\ a \in Seq(ItemSet) /\ (l > 0 => a = <<y>>)
  <2>1. CASE l > 0
    <3>1. <<y>> \in Seq(Filled)  BY <1>5, <2>1, OneElement
    <3> QED  BY <1>5, <2>1, <3>1, FilledAreItems DEF PutItem
  <2>2. CASE ~(l > 0)  BY <1>4, <2>2 DEF PutItem
  <2> QED  BY <2>1, <2>2
<1>7. PICK c \in Seq(Filled) : c = PutItem(n, "data") /\ c \in Seq(ItemSet)
  <2>1. CASE n > 0
    <3>1. Item(n, "data") \in ItemSet /\ Item(n, "data").size = n  BY <1>1 DEF Item, ItemSet
    <3>2. PICK z \in Filled : z = Item(n, "data")  BY <2>1, <3>1 DEF Filled
    <3>3. <<z>> \in Seq(Filled)  BY OneElement
    <3> QED  BY <2>1, <3>2, <3>3, FilledAreItems DEF PutItem
  <2>2. CASE ~(n > 0)  BY <1>4, <2>2 DEF PutItem
  <2> QED  BY <2>1, <2>2
<1>8. Record(k, d) = (one \o a) \o c  BY <1>1, <1>2, <1>3, <1>6, <1>7 DEF Record
<1>9. one \o a \in Seq(Filled)  BY <1>3, <1>6, ConcatProperties
<1>10. Record(k, d) \in Seq(Filled)  BY <1>8, <1>9, ConcatProperties
<1>11. ASSUME NEW f, NEW q \in Seq(ItemSet), NEW s \in Nat
       PROVE  /\ Lies(f, q \o Record(k, d), s, s + SizeOf(q), x)
              /\ l > 0 => Lies(f, q \o Record(k, d), s, s + SizeOf(q) + 8, y)
  <2>1. PICK r \in Seq(ItemSet) : r = a \o c  BY <1>6, <1>7, ConcatProperties
  <2>2. Record(k, d) = one \o r
    <3>1. Regroups(one, a, c)  BY <1>6, <1>7, Regrouped
    <3> QED  BY <1>8, <2>1, <3>1 DEF Regroups
  <2>3. PICK b \in Seq(ItemSet) : b = q \o one /\ SizeOf(b) = SizeOf(q) + 8
    <3>1. q \o one \in Seq(ItemSet) /\ SizeOf(q \o one) = SizeOf(q) + SizeOf(one)  BY SizeConcat
    <3> QED  BY <1>3, <3>1
  <2>4. q \o Record(k, d) = b \o r
    <3>1. Regroups(q, one, r)  BY Regrouped
    <3> QED  BY <2>2, <2>3, <3>1 DEF Regroups
  <2>5. Lies(f, q \o Record(k, d), s, s + SizeOf(q), x)  BY <1>3, <2>3, <2>4 DEF Lies
  <2>6. ASSUME l > 0 PROVE Lies(f, q \o Record(k, d), s, s + SizeOf(q) + 8, y)
    <3>1. q \o Record(k, d) = (b \o a) \o c
      <4>1. Regroups(b, a, c)  BY <1>6, <1>7, Regrouped
      <4> QED  BY <2>1, <2>4, <4>1 DEF Regroups
    <3>2. s + SizeOf(q) + 8 = s + SizeOf(b)  BY <2>3, SizeNat
    <3> QED  BY <1>6, <1>7, <2>6, <3>1, <3>2 DEF Lies
  <2> QED  BY <2>5, <2>6
<1> QED  BY <1>1, <1>2, <1>5, <1>10, <1>11

LEMMA AddMake ==
  ASSUME PosInv, PosInv', MakeInv, NEW k \in Key, NEW d \in DataLens, Add(k, d)
  PROVE  MakeInv'
<1>1. stage = "add"  BY DEF Add
<1>2. /\ queue \in Seq(Filled) /\ queue \in Seq(ItemSet) /\ off \in Nat /\ pos \in 0 .. Mod - 1
      /\ head \in Seq(Seq(Entries)) /\ pos = off + SizeOf(queue) /\ SizeOf(queue) \in Nat
      /\ records \in Seq(RecordSet) /\ Placed(records) /\ FileOK(file)
      /\ Newest(head) = Backwards(records)
      /\ Appending /\ \A i \in 1 .. Len(records) : records[i].p < pos
  BY <1>1, SizeNat, FilledAreItems DEF PosInv, MakeInv, MakeTypes, MakeStages
<1>3. Mod \in Nat /\ Mod > 0 /\ pos \in Nat  BY <1>2, CdbMakeAssumption
<1>4. PICK r \in RecordSet : r = [key |-> k, p |-> pos] /\ r.key = k /\ r.p = pos
  <2>1. [key |-> k, p |-> pos] \in [key : Key, p : Nat]  BY <1>3
  <2>2. [key |-> k, p |-> pos] \in RecordSet  BY <2>1 DEF RecordSet
  <2> QED  BY <2>2
<1>5. PICK n \in Nat, l \in Nat, m \in Nat : n = Len(records) /\ l = KeyLen[k] /\ m = d
  BY <1>2, LenProperties, CdbMakeAssumption
<1>6. PICK q \in Seq(Filled) : q = Record(k, d) /\ q \in Seq(ItemSet) /\ SizeOf(q) = 8 + l + m
  <2>1. Record(k, d) \in Seq(Filled)  BY RecordFilled
  <2>2. Record(k, d) \in Seq(ItemSet) /\ SizeOf(Record(k, d)) = 8 + KeyLen[k] + d  BY RecordIs
  <2> QED  BY <1>5, <2>1, <2>2
<1>7. /\ queue' = queue \o q /\ head' = Listed(head, Entry(r)) /\ records' = Append(records, r)
      /\ off' = off /\ file' = file /\ final' = final
      /\ stage' \in {"add", "failed"} /\ pos' \in {pos, (pos + 8 + l + m) % Mod}
  BY <1>4, <1>5, <1>6 DEF Add, Entry
<1>8. pos' \in 0 .. Mod - 1
  <2>1. pos + 8 + l + m \in Nat  BY <1>3
  <2>2. PICK x \in Nat : x = pos + 8 + l + m  BY <2>1
  <2>3. x % Mod \in 0 .. Mod - 1  BY <1>3
  <2> QED  BY <1>2, <1>7, <2>2, <2>3
<1>9. queue' \in Seq(Filled) /\ queue' \in Seq(ItemSet) /\ SizeOf(queue') = SizeOf(queue) + (8 + l + m)
  <2>1. queue \o q \in Seq(Filled)  BY <1>2, ConcatProperties
  <2>2. SizeOf(queue \o q) = SizeOf(queue) + SizeOf(q)  BY <1>2, <1>6, SizeConcat
  <2> QED  BY <1>6, <1>7, <2>1, <2>2, FilledAreItems
<1>10. PICK e \in Entries : e = Entry(r)  BY EntryIs
<1>11. head' \in Seq(Seq(Entries))  BY <1>2, <1>7, <1>10, ListedIsSeq
<1>12. Newest(head') = Backwards(records')  BY <1>2, <1>7, NewestOfAdd
<1>13. PICK rs \in Seq(RecordSet) : rs = records' /\ Len(rs) = n + 1 /\ rs[n + 1] = r
                                   /\ \A i \in 1 .. n : rs[i] = records[i]
  <2>1. Append(records, r) \in Seq(RecordSet)  BY <1>2, AppendProperties
  <2>2. PICK rs \in Seq(RecordSet) : rs = Append(records, r)  BY <2>1
  <2>3. Len(rs) = n + 1 /\ \A i \in 1 .. n + 1 : rs[i] = IF i <= n THEN records[i] ELSE r
    BY <1>2, <1>5, <2>2, AppendProperties
  <2>4. rs[n + 1] = r
    <3>1. n + 1 \in 1 .. n + 1 /\ ~(n + 1 <= n)  OBVIOUS
    <3> QED  BY <2>3, <3>1
  <2>5. \A i \in 1 .. n : rs[i] = records[i]
    <3>1. \A i \in 1 .. n : i \in 1 .. n + 1 /\ i <= n  OBVIOUS
    <3> QED  BY <2>3, <3>1
  <2> QED  BY <1>7, <2>2, <2>3, <2>4, <2>5
<1>14. pos >= HeaderSize
  <2>1. off >= HeaderSize  BY <1>2 DEF Appending, NoHeader
  <2> QED  BY <1>2, <2>1, HeaderSizeIs
<1>15. \A i \in 1 .. n + 1 : rs[i].p \in Nat /\ (i = n + 1 \/ i \in 1 .. n)
  <2>1. \A i \in 1 .. n + 1 : rs[i] \in RecordSet  BY <1>13, ElementOfSeq
  <2>2. \A x \in RecordSet : x.p \in Nat  BY DEF RecordSet
  <2> QED  BY <2>1, <2>2
<1>16. Placed(rs)
  <2>1. ASSUME NEW i \in 1 .. n + 1 PROVE rs[i].p >= HeaderSize
    BY <1>2, <1>4, <1>5, <1>13, <1>14, <1>15 DEF Placed
  <2>2. ASSUME NEW i \in 1 .. n + 1, NEW j \in 1 .. n + 1, i < j PROVE rs[i].p < rs[j].p
    <3>1. i \in 1 .. n  BY <2>2
    <3>2. CASE j = n + 1  BY <1>2, <1>4, <1>5, <1>13, <3>1, <3>2
    <3>3. CASE j \in 1 .. n  BY <1>2, <1>5, <1>13, <2>2, <3>1, <3>3 DEF Placed
    <3> QED  BY <1>15, <3>2, <3>3
  <2> QED  BY <1>13, <2>1, <2>2 DEF Placed
<1>17. MakeTypes'
  BY <1>2, <1>7, <1>8, <1>9, <1>11, <1>12, <1>13, <1>16 DEF MakeTypes
<1>18. NoHeader'  BY <1>2, <1>7 DEF Appending, NoHeader
<1>19. ASSUME stage' = "add"
       PROVE  Appending' /\ \A i \in 1 .. Len(records') : records'[i].p < pos'
  <2>1. pos' = pos + (8 + l + m)
    <3>1. pos' = off' + SizeOf(queue')  BY <1>19 DEF PosInv
    <3>2. PICK x, y \in Nat : x = off /\ y = SizeOf(queue)  BY <1>2
    <3>3. pos' = x + (y + (8 + l + m)) /\ pos = x + y  BY <1>2, <1>7, <1>9, <3>1, <3>2
    <3> QED  BY <3>3
  <2>2. pos < pos'  BY <1>3, <2>1
  <2>3. ASSUME NEW i \in 1 .. n + 1 PROVE rs[i].p < pos'
    <3>1. CASE i = n + 1  BY <1>4, <1>13, <2>2, <3>1
    <3>2. CASE i \in 1 .. n
      <4>1. rs[i].p < pos /\ rs[i].p \in Nat  BY <1>2, <1>5, <1>13, <1>15, <3>2
      <4> QED  BY <1>3, <2>1, <4>1
    <3> QED  BY <1>15, <3>1, <3>2
  <2>4. RecordsLie(records, file, queue \o q, off)
    <3>1. RecordsLie(records, file, queue, off)  BY <1>2 DEF Appending
    <3>2. Carried(file, queue, off, file, queue \o q, off)  BY <1>2, <1>6, CarriedOn
    <3> QED  BY <1>2, <3>1, <3>2, RecordsCarried
  <2>5. /\ Lies(file, queue \o q, off, pos, Item(8, <<KeyLen[k], d>>))
        /\ KeyLen[k] > 0 => Lies(file, queue \o q, off, pos + 8, Item(KeyLen[k], k))
    BY <1>2, <1>6, RecordFilled
  <2>6. RecordsLie(rs, file, queue \o q, off)
    <3>1. SUFFICES ASSUME NEW i \in 1 .. n + 1
                   PROVE  /\ \E c \in DataLens : Lies(file, queue \o q, off, rs[i].p, Item(8, <<KeyLen[rs[i].key], c>>))
                          /\ KeyLen[rs[i].key] > 0 => Lies(file, queue \o q, off, rs[i].p + 8, Item(KeyLen[rs[i].key], rs[i].key))
      BY <1>13 DEF RecordsLie
    <3>2. CASE i = n + 1  BY <1>4, <1>13, <2>5, <3>2
    <3>3. CASE i \in 1 .. n
      <4>1. rs[i] = records[i] /\ i \in 1 .. Len(records)  BY <1>5, <1>13, <3>3
      <4> QED  BY <2>4, <4>1 DEF RecordsLie
    <3> QED  BY <1>15, <3>2, <3>3
  <2>7. Appending'  BY <1>2, <1>7, <1>13, <1>18, <2>6 DEF Appending
  <2> QED  BY <1>13, <2>3, <2>7
<1>20. MakeStages'
  <2>1. stage' \notin {"flush", "header", "done"}  BY <1>7
  <2>2. stage' = "failed" => NoHeader'  BY <1>18
  <2> QED  BY <1>19, <2>1, <2>2 DEF MakeStages
<1> QED  BY <1>17, <1>20 DEF MakeInv

LEMMA FinishMake ==
  ASSUME PosInv, PosInv', MakeInv, Finish
  PROVE  MakeInv'
<1>1. stage = "add"  BY DEF Finish
<1>2. /\ queue \in Seq(Filled) /\ queue \in Seq(ItemSet) /\ off \in Nat /\ pos \in 0 .. Mod - 1
      /\ head \in Seq(Seq(Entries)) /\ pos = off + SizeOf(queue) /\ SizeOf(queue) \in Nat
      /\ records \in Seq(RecordSet) /\ Placed(records) /\ FileOK(file)
      /\ Newest(head) = Backwards(records)
      /\ Appending
  BY <1>1, SizeNat, FilledAreItems DEF PosInv, MakeInv, MakeTypes, MakeStages
<1>3. Mod \in Nat /\ Mod > 0 /\ pos \in Nat  BY <1>2, CdbMakeAssumption
<1>4. PICK cells \in Seq(ItemSet) : cells = Slots(head) /\ \A u \in 1 .. Len(cells) : cells[u].size = 8
  BY <1>2, SlotsAreItems
<1>5. PICK n \in Nat : n = Len(cells)  BY LenProperties
<1>6. \A u \in 1 .. n : cells[u] \in Filled
  <2>1. \A u \in 1 .. n : cells[u] \in ItemSet /\ cells[u].size = 8  BY <1>4, <1>5, ElementOfSeq
  <2> QED  BY <2>1 DEF Filled
<1>7. cells \in Seq(Filled)
  <2>1. cells \in [1 .. n -> Filled]
    <3>1. cells \in [1 .. n -> ItemSet]  BY <1>5, LenProperties
    <3> QED  BY <1>6, <3>1
  <2> QED  BY <2>1, MadeSeq
<1>8. /\ off' = off /\ file' = file /\ head' = head /\ records' = records
  BY DEF Finish
<1> DEFINE over == {u \in 1 .. n : ~Fits((pos + 8 * (u - 1)) % Mod, 8)}
<1>9. NoHeader'  BY <1>2, <1>8 DEF Appending, NoHeader
<1>10. CASE over = {}
  <2>1. /\ stage' = "flush" /\ final' = Header(head, pos) /\ queue' = queue \o cells
        /\ pos' = (pos + 8 * n) % Mod
    BY <1>4, <1>5, <1>10 DEF Finish
  <2>2. pos' \in 0 .. Mod - 1  BY <1>3, <2>1
  <2>3. queue' \in Seq(Filled)  BY <1>2, <1>7, <2>1, ConcatProperties
  <2>4. MakeTypes'  BY <1>2, <1>8, <2>1, <2>2, <2>3 DEF MakeTypes
  <2>5. RecordsLie(records, file, queue \o cells, off)
    <3>1. RecordsLie(records, file, queue, off)  BY <1>2 DEF Appending
    <3>2. Carried(file, queue, off, file, queue \o cells, off)  BY <1>2, CarriedOn
    <3> QED  BY <1>2, <3>1, <3>2, RecordsCarried
  <2>6. Appending'  BY <1>2, <1>8, <1>9, <2>1, <2>5 DEF Appending
  <2>7. ASSUME NEW i \in 1 .. Tables, NEW u \in 1 .. Len(AllTables(head)[i])
        PROVE  Lies(file, queue \o cells, off, Starts(head, pos, i) + 8 * (u - 1), Item(8, AllTables(head)[i][u]))
    <3>1. PICK v \in 1 .. Len(cells) : /\ pos + 8 * (v - 1) = Starts(head, pos, i) + 8 * (u - 1)
                                       /\ cells[v] = Item(8, AllTables(head)[i][u])
      BY <1>2, <1>3, <1>4, SlotsAt
    <3>2. Lies(file, queue \o cells, off, off + SizeOf(queue) + 8 * (v - 1), cells[v])
      BY <1>2, <1>4, LiesEight
    <3> QED  BY <1>2, <3>1, <3>2
  <2>8. TablesLie(head, pos, file, queue \o cells, off)  BY <2>7 DEF TablesLie
  <2>9. pos >= HeaderSize
    <3>1. off >= HeaderSize  BY <1>2 DEF Appending, NoHeader
    <3> QED  BY <1>2, <3>1, HeaderSizeIs
  <2>10. Tabled(head, Header(head, pos), file, queue \o cells, off)  BY <1>3, <2>8, <2>9 DEF Tabled
  <2>11. MakeStages'  BY <1>8, <2>1, <2>6, <2>10 DEF MakeStages
  <2> QED  BY <2>4, <2>11 DEF MakeInv
<1>11. CASE over # {}
  <2>1. PICK m \in over : \A v \in over : m <= v
    <3>1. over \in SUBSET Nat  OBVIOUS
    <3> HIDE DEF over
    <3> QED  BY <1>11, <3>1, LeastNat
  <2> DEFINE u == CHOOSE u \in over : \A v \in over : u <= v
  <2>2. u \in over
    <3> HIDE DEF over
    <3> QED  BY <2>1
  <2>3. u \in 1 .. n  BY <2>2
  <2>4. stage' = "failed" /\ queue' = queue \o SubSeq(cells, 1, u) /\ pos' = pos
    BY <1>4, <1>5, <1>11 DEF Finish
  <2> HIDE DEF u
  <2>5. SubSeq(cells, 1, u) \in Seq(Filled)
    <3>1. \A j \in 1 .. u : cells[j] \in Filled  BY <1>6, <2>3
    <3> QED  BY <2>3, <3>1, SubSeqProperties
  <2>6. queue' \in Seq(Filled)  BY <1>2, <2>4, <2>5, ConcatProperties
  <2>7. MakeTypes'  BY <1>2, <1>8, <2>4, <2>6 DEF MakeTypes
  <2>8. MakeStages'  BY <1>9, <2>4 DEF MakeStages
  <2> QED  BY <2>7, <2>8 DEF MakeInv
<1> QED  BY <1>10, <1>11

LEMMA EmitMake ==
  ASSUME MakeInv, Emit
  PROVE  MakeInv'
<1>1. /\ queue # <<>> /\ file' = Write(file, off, queue[1]) /\ off' = off + queue[1].size
      /\ queue' = Tail(queue)
      /\ UNCHANGED <<stage, head, pos, final, records>>
  BY DEF Emit, Write
<1>2. /\ queue \in Seq(Filled) /\ queue \in Seq(ItemSet) /\ off \in Nat
      /\ head \in Seq(Seq(Entries)) /\ records \in Seq(RecordSet) /\ Placed(records) /\ FileOK(file)
  BY FilledAreItems DEF MakeInv, MakeTypes
<1>3. PICK e \in Filled : e = queue[1] /\ e \in ItemSet /\ e.size \in Nat /\ e.size > 0
  <2>1. queue[1] \in Filled  BY <1>1, <1>2, HeadTailProperties
  <2>2. queue[1] \in ItemSet /\ queue[1].size > 0  BY <2>1 DEF Filled
  <2> QED  BY <2>1, <2>2 DEF ItemSet
<1>4. PICK n \in Nat : n = e.size /\ n > 0 /\ off' = off + n /\ file' = Write(file, off, e)
  BY <1>1, <1>3
<1>5. queue' \in Seq(Filled)  BY <1>1, <1>2, HeadTailProperties
<1>6. FileOK(file')  BY <1>2, <1>3, <1>4, WriteOK
<1>7. MakeTypes'  BY <1>1, <1>2, <1>4, <1>5, <1>6 DEF MakeInv, MakeTypes
<1>8. DOMAIN file' = DOMAIN file \cup {off} /\ \A o \in DOMAIN file' : file'[o] = IF o = off THEN e ELSE file[o]
  BY <1>4 DEF Write
<1>9. ASSUME NoHeader PROVE NoHeader'
  <2>1. off >= HeaderSize /\ \A o \in DOMAIN file : o >= HeaderSize  BY <1>9 DEF NoHeader
  <2>2. off' >= HeaderSize  BY <1>2, <1>4, <2>1, HeaderSizeIs
  <2> QED  BY <1>8, <2>1, <2>2 DEF NoHeader
<1>10. ASSUME Appending PROVE Appending' /\ Carried(file, queue, off, file', queue', off')
  <2>1. NoHeader /\ (\A o \in DOMAIN file : o < off) /\ RecordsLie(records, file, queue, off)
    BY <1>10 DEF Appending
  <2>2. off \notin DOMAIN file  BY <1>2, <2>1
  <2>3. Carried(file, queue, off, file', queue', off')
    BY <1>1, <1>2, <2>2, CarriedOut
  <2>4. RecordsLie(records, file', queue', off')  BY <1>2, <2>1, <2>3, RecordsCarried
  <2>5. \A o \in DOMAIN file' : o < off'
    <3>1. \A o \in DOMAIN file : o \in Nat  BY <1>2 DEF FileOK
    <3> QED  BY <1>2, <1>4, <1>8, <2>1, <3>1
  <2> QED  BY <1>1, <1>9, <2>1, <2>3, <2>4, <2>5 DEF Appending
<1>11. CASE stage = "add"
  <2>1. Appending /\ \A i \in 1 .. Len(records) : records[i].p < pos  BY <1>11 DEF MakeInv, MakeStages
  <2> QED  BY <1>1, <1>7, <1>10, <1>11, <2>1 DEF MakeInv, MakeStages
<1>12. CASE stage = "flush"
  <2>1. Appending /\ Tabled(head, final, file, queue, off)  BY <1>12 DEF MakeInv, MakeStages
  <2>2. Tabled(head, final, file', queue', off')  BY <1>2, <1>10, <2>1, TabledCarried
  <2> QED  BY <1>1, <1>7, <1>10, <1>12, <2>1, <2>2 DEF MakeInv, MakeStages
<1>13. CASE stage = "header"
  <2>1. HasAll  BY <1>13 DEF MakeInv, MakeStages
  <2>2. PICK j \in 0 .. 2 * Tables : Written(final, file, j) /\ QueueIs(final, queue, j) /\ off = 4 * j
    BY <1>13 DEF MakeInv, MakeStages
  <2>3. PICK m \in Nat : m = Len(queue) /\ m >= 1
    <3>1. Len(queue) \in Nat /\ Len(queue) # 0  BY <1>1, <1>2, LenProperties, EmptySeq
    <3> QED  BY <3>1
  <2>4. m = 2 * Tables - j /\ \A i \in 1 .. m : queue[i] = final[j + i]  BY <2>2, <2>3 DEF QueueIs
  <2>5. j \in Nat /\ j + 1 \in 0 .. 2 * Tables /\ j + 1 \in 1 .. 2 * Tables /\ off < HeaderSize
    BY <2>2, <2>3, <2>4, HeaderSizeIs
  <2>6. e = final[j + 1]
    <3>1. 1 \in 1 .. m  BY <2>3
    <3> QED  BY <1>3, <2>4, <3>1
  <2>7. n = 4
    <3>1. PICK b \in Nat : final = Header(head, b)  BY <2>1 DEF HasAll, Tabled
    <3>2. \A i \in 1 .. 2 * Tables : Header(head, b)[i].size = 4  BY <1>2, HeaderIs
    <3> QED  BY <1>4, <2>5, <2>6, <3>1, <3>2
  <2>8. off' = 4 * (j + 1)  BY <1>4, <2>2, <2>5, <2>7
  <2>9. Carried(file, <<>>, 0, file', <<>>, 0)  BY <1>2, <1>4, <2>5, CarriedPast
  <2>10. HasAll'
    <3>1. RecordsLie(records, file', <<>>, 0)  BY <1>2, <2>1, <2>9, RecordsCarried DEF HasAll
    <3>2. Tabled(head, final, file', <<>>, 0)  BY <1>2, <2>1, <2>9, TabledCarried DEF HasAll
    <3> QED  BY <1>1, <3>1, <3>2 DEF HasAll
  <2>11. Written(final, file', j + 1)
    <3>1. \A i \in 1 .. j : InFile(file, 4 * (i - 1), final[i])  BY <2>2 DEF Written
    <3>2. \A o \in DOMAIN file : o >= HeaderSize \/ \E i \in 1 .. j : o = 4 * (i - 1)  BY <2>2 DEF Written
    <3>3. off = 4 * (j + 1 - 1) /\ \A i \in 1 .. j + 1 : i = j + 1 \/ (i \in 1 .. j /\ 4 * (i - 1) # off)
      BY <2>2, <2>5
    <3>4. ASSUME NEW i \in 1 .. j + 1 PROVE InFile(file', 4 * (i - 1), final[i])
      <4>1. CASE i = j + 1  BY <1>8, <2>6, <3>3, <4>1 DEF InFile
      <4>2. CASE i \in 1 .. j /\ 4 * (i - 1) # off  BY <1>8, <3>1, <4>2 DEF InFile
      <4> QED  BY <3>3, <4>1, <4>2
    <3>5. ASSUME NEW o \in DOMAIN file' PROVE o >= HeaderSize \/ \E i \in 1 .. j + 1 : o = 4 * (i - 1)
      <4>1. CASE o = off
        <5>1. j + 1 \in 1 .. j + 1  BY <2>5
        <5> QED  BY <3>3, <4>1, <5>1
      <4>2. CASE o \in DOMAIN file
        <5>1. CASE o >= HeaderSize  BY <5>1
        <5>2. ASSUME NEW i \in 1 .. j, o = 4 * (i - 1) PROVE \E k \in 1 .. j + 1 : o = 4 * (k - 1)
          <6>1. i \in 1 .. j + 1  BY <2>5
          <6> QED  BY <5>2, <6>1
        <5> QED  BY <3>2, <4>2, <5>1, <5>2
      <4> QED  BY <1>8, <4>1, <4>2
    <3> QED  BY <3>4, <3>5 DEF Written
  <2>12. QueueIs(final, queue', j + 1)
    <3>1. PICK t \in Seq(Filled) : t = queue' /\ queue = <<e>> \o t  BY <1>1, <1>2, <1>3, <1>5, FirstAndRest
    <3>2. Len(queue) = Len(t) + 1 /\ \A i \in 1 .. Len(t) + 1 : queue[i] = IF i = 1 THEN e ELSE t[i - 1]
      BY <3>1, InFront
    <3>3. PICK k \in Nat : k = Len(t) /\ m = k + 1  BY <2>3, <3>2, LenProperties
    <3>4. ASSUME NEW i \in 1 .. k PROVE t[i] = final[j + 1 + i]
      <4>1. i + 1 \in 1 .. k + 1 /\ i + 1 # 1 /\ i + 1 - 1 = i /\ j + (i + 1) = j + 1 + i  BY <2>5
      <4>2. queue[i + 1] = t[i]  BY <3>2, <3>3, <4>1
      <4>3. queue[i + 1] = final[j + (i + 1)]  BY <2>4, <3>3, <4>1
      <4> QED  BY <4>1, <4>2, <4>3
    <3>5. k = 2 * Tables - (j + 1)  BY <2>4, <2>5, <3>3, HeaderSizeIs
    <3> QED  BY <3>1, <3>3, <3>4, <3>5 DEF QueueIs
  <2>13. MakeStages'
    <3>1. stage' = "header" /\ final' = final  BY <1>1, <1>13
    <3>2. \E i \in 0 .. 2 * Tables : Written(final', file', i) /\ QueueIs(final', queue', i) /\ off' = 4 * i
      BY <2>5, <2>8, <2>11, <2>12, <3>1
    <3> QED  BY <2>10, <3>1, <3>2 DEF MakeStages
  <2> QED  BY <1>7, <2>13 DEF MakeInv
<1>14. CASE stage = "failed"
  <2>1. NoHeader  BY <1>1, <1>14 DEF MakeInv, MakeStages
  <2> QED  BY <1>1, <1>7, <1>9, <1>14, <2>1 DEF MakeInv, MakeStages
<1>15. stage # "done"  BY <1>1 DEF MakeInv, MakeStages
<1> QED  BY <1>11, <1>12, <1>13, <1>14, <1>15 DEF MakeInv, MakeTypes

LEMMA RewindMake ==
  ASSUME MakeInv, Rewind
  PROVE  MakeInv'
<1>1. /\ stage = "flush" /\ queue = <<>> /\ stage' = "header" /\ queue' = final /\ off' = 0
      /\ UNCHANGED <<head, pos, final, file, records>>
  BY DEF Rewind
<1>2. Appending /\ Tabled(head, final, file, <<>>, off)  BY <1>1 DEF MakeInv, MakeStages
<1>3. RecordsLie(records, file, <<>>, off) /\ \A o \in DOMAIN file : o >= HeaderSize
  BY <1>1, <1>2 DEF Appending, NoHeader
<1>4. head \in Seq(Seq(Entries)) /\ records \in Seq(RecordSet) /\ Placed(records)
  BY DEF MakeInv, MakeTypes
<1>5. Carried(file, <<>>, off, file, <<>>, 0)  BY CarriedDown
<1>6. HasAll'
  <2>1. RecordsLie(records, file, <<>>, 0)  BY <1>3, <1>4, <1>5, RecordsCarried
  <2>2. Tabled(head, final, file, <<>>, 0)  BY <1>2, <1>4, <1>5, TabledCarried
  <2> QED  BY <1>1, <2>1, <2>2 DEF HasAll
<1>7. PICK b \in Nat : final = Header(head, b)  BY <1>2 DEF Tabled
<1>8. PICK n \in Nat : n = 2 * Tables  BY HeaderSizeIs
<1>9. PICK q \in Seq(ItemSet) : q = final /\ Len(q) = n /\ \A i \in 1 .. n : q[i].size = 4
  BY <1>4, <1>7, <1>8, HeaderIs
<1>10. final \in Seq(Filled)
  <2>1. \A i \in 1 .. n : q[i] \in Filled
    <3>1. \A i \in 1 .. n : q[i] \in ItemSet /\ q[i].size = 4  BY <1>9, ElementOfSeq
    <3> QED  BY <3>1 DEF Filled
  <2>2. q \in [1 .. n -> Filled]
    <3>1. q \in [1 .. n -> ItemSet]  BY <1>9, LenProperties
    <3> QED  BY <2>1, <3>1
  <2> QED  BY <1>9, <2>2, MadeSeq
<1>11. Written(final, file, 0) /\ QueueIs(final, q, 0)
  <2>1. \A i \in 1 .. 0 : FALSE  OBVIOUS
  <2>2. n = 2 * Tables - 0 /\ \A i \in 1 .. n : 0 + i = i  BY <1>8
  <2> QED  BY <1>3, <1>9, <2>1, <2>2 DEF Written, QueueIs
<1>12. MakeTypes'  BY <1>1, <1>10 DEF MakeInv, MakeTypes
<1>13. \E j \in 0 .. 2 * Tables : Written(final', file', j) /\ QueueIs(final', queue', j) /\ off' = 4 * j
  <2>1. 0 \in 0 .. 2 * Tables  BY <1>8
  <2> QED  BY <1>1, <1>9, <1>11, <2>1
<1>14. MakeStages'  BY <1>1, <1>6, <1>13 DEF MakeStages
<1> QED  BY <1>12, <1>14 DEF MakeInv

LEMMA DoneMake ==
  ASSUME MakeInv, Done
  PROVE  MakeInv'
<1>1. /\ stage = "header" /\ queue = <<>> /\ stage' = "done"
      /\ UNCHANGED <<head, pos, final, queue, off, file, records>>
  BY DEF Done
<1>2. HasAll  BY <1>1 DEF MakeInv, MakeStages
<1>3. PICK j \in 0 .. 2 * Tables : Written(final, file, j) /\ QueueIs(final, queue, j)
  BY <1>1 DEF MakeInv, MakeStages
<1>4. j = 2 * Tables  BY <1>1, <1>3, EmptySeq, HeaderSizeIs DEF QueueIs
<1>5. MakeTypes'  BY <1>1 DEF MakeInv, MakeTypes
<1>6. HasAll'  BY <1>1, <1>2 DEF HasAll
<1>7. MakeStages'  BY <1>1, <1>3, <1>4, <1>6 DEF MakeStages
<1> QED  BY <1>5, <1>7 DEF MakeInv

LEMMA FailMake ==
  ASSUME MakeInv, MakeFails
  PROVE  MakeInv'
<1>1. /\ stage \in {"add", "flush", "header"} /\ stage' = "failed" /\ queue' = <<>>
      /\ UNCHANGED <<head, pos, final, off, file, records>>
  BY DEF MakeFails
<1>2. MakeTypes'  BY <1>1, EmptySeq DEF MakeInv, MakeTypes
<1>3. MakeStages'
  <2>1. CASE stage \in {"add", "flush"}
    <3>1. NoHeader  BY <2>1 DEF MakeInv, MakeStages, Appending
    <3> QED  BY <1>1, <3>1 DEF MakeStages, NoHeader
  <2>2. CASE stage = "header"
    <3>1. HasAll /\ \E j \in 0 .. 2 * Tables : Written(final, file, j)  BY <2>2 DEF MakeInv, MakeStages
    <3>2. HasAll'  BY <1>1, <3>1 DEF HasAll
    <3> QED  BY <1>1, <3>1, <3>2 DEF MakeStages
  <2> QED  BY <1>1, <2>1, <2>2
<1> QED  BY <1>2, <1>3 DEF MakeInv

LEMMA InitMake ==
  ASSUME CdbInit
  PROVE  MakeInv
<1>1. /\ stage = "add" /\ head = <<>> /\ queue = <<>> /\ pos = HeaderSize /\ off = HeaderSize
      /\ DOMAIN file = {} /\ records = <<>>
  BY DEF CdbInit, MakeInit
<1>2. HeaderSize \in Nat /\ HeaderSize < Mod /\ Mod \in Nat  BY CdbMakeAssumption, HeaderSizeIs
<1>3. /\ <<>> \in Seq(Filled) /\ <<>> \in Seq(Seq(Entries)) /\ <<>> \in Seq(RecordSet) /\ Len(<<>>) = 0
  BY EmptySeq
<1>4. FileOK(file)  BY <1>1 DEF FileOK
<1>5. \A i \in 1 .. 0 : FALSE  OBVIOUS
<1>6. Placed(<<>>)  BY <1>3, <1>5 DEF Placed
<1>7. Newest(<<>>) = Backwards(<<>>)
  <2>1. Backwards(<<>>) = <<>>
    <3>1. PICK b \in Seq(Entries) : b = Backwards(<<>>) /\ Len(b) = 0  BY <1>3, BackwardsIs
    <3> QED  BY <3>1, EmptySeq
  <2>2. [i \in DOMAIN <<>> |-> Reverse(<<>>[i])] = <<>>  OBVIOUS
  <2>3. Newest(<<>>) = FlattenSeq(<<>>)  BY <2>2 DEF Newest
  <2>4. FlattenSeq(<<>>) = <<>>
    <3>1. PICK s \in Seq(Seq(Entries)) : s = <<>> /\ Len(s) = 0  BY <1>3
    <3>2. PICK g : Joined(g, s, Entries) /\ FlattenSeq(s) = g[0]  BY <3>1, FlattenIs
    <3>3. g[0] = <<>>  BY <3>2 DEF Joined
    <3> QED  BY <3>1, <3>2, <3>3
  <2> QED  BY <2>1, <2>3, <2>4
<1>8. MakeTypes  BY <1>1, <1>2, <1>3, <1>4, <1>6, <1>7 DEF MakeTypes
<1>9. NoHeader  BY <1>1, <1>2 DEF NoHeader
<1>10. RecordsLie(records, file, queue, off)  BY <1>1, <1>3, <1>5 DEF RecordsLie
<1>11. MakeStages  BY <1>1, <1>3, <1>5, <1>9, <1>10 DEF MakeStages, Appending
<1> QED  BY <1>8, <1>11 DEF MakeInv

LEMMA NextMake ==
  ASSUME PosInv, PosInv', MakeInv, [CdbNext]_vars
  PROVE  MakeInv'
<1>1. CASE UNCHANGED cdbvars
  BY <1>1 DEF cdbvars, MakeInv, MakeTypes, MakeStages, Appending, NoHeader, HasAll
<1>2. ASSUME NEW k \in Key, NEW d \in DataLens, Add(k, d) PROVE MakeInv'  BY <1>2, AddMake
<1>3. CASE Finish  BY <1>3, FinishMake
<1>4. CASE Emit  BY <1>4, EmitMake
<1>5. CASE Rewind  BY <1>5, RewindMake
<1>6. CASE Done  BY <1>6, DoneMake
<1>7. CASE MakeFails  BY <1>7, FailMake
<1>8. CASE MakeNext  BY <1>2, <1>3, <1>4, <1>5, <1>6, <1>7, <1>8 DEF MakeNext
<1>9. CASE UNCHANGED vars  BY <1>1, <1>9 DEF vars
<1>10. CASE CdbNext  BY <1>1, <1>8, <1>10 DEF CdbNext, Make, FindStart, FindTable, FindOn, Probe
<1> QED  BY <1>9, <1>10

-----------------------------------------------------------------------------
(***************************************************************************)
(* A search                                                                *)
(***************************************************************************)
\* the table a search for k goes through
TableOf(k) == AllTables(head)[Table(Hash[k]) + 1]

\* the l-th slot, in the order of this search through n slots
SlotAt(k, l, n) == TableOf(k)[SlotOf(Hash[k], l, n)]

\* a record with the key k is at p
Has(k, p) == \E i \in 1 .. Len(records) : records[i].key = k /\ records[i].p = p

\* and its entry is among the first l of n slots
Seen(k, n, l, p) ==
  \E i \in 1 .. Len(records) :
    /\ records[i].key = k /\ records[i].p = p
    /\ \E j \in 0 .. l - 1 : SlotAt(k, j, n) = Entry(records[i])

\* the record at p has been found
Answered(p) == \E i \in 1 .. Len(answers) : answers[i] = p

ReadTypes ==
  /\ key \in Key \cup {None} /\ busy \in BOOLEAN /\ faults \in BOOLEAN
  /\ hslots \in 0 .. 2 * Len(records) /\ loop \in 0 .. hslots
  /\ res \in {-1, 0, 1} /\ answers \in Seq(Nat)
  /\ IF key = None THEN hslots = 0 ELSE stage \in {"done", "failed"}

\* a search that has found its table goes on in it, as far as it is in the file
OnItsTable ==
  busy \/ loop > 0 =>
    /\ key # None /\ queue = <<>> /\ khash = Hash[key] /\ RecordsLie(records, file, <<>>, 0)
    /\ hslots > 0 /\ hslots = Len(TableOf(key)) /\ hpos \in Nat
    /\ \A u \in 1 .. hslots : InFile(file, hpos + 8 * (u - 1), Item(8, TableOf(key)[u]))
    /\ loop < hslots => kpos = hpos + 8 * (SlotOf(Hash[key], loop, hslots) - 1)

Increasing(s) == \A i, j \in 1 .. Len(s) : i < j => s[i] < s[j]

AnswersAreSeen ==
  key # None =>
    /\ \A p \in Nat : Answered(p) => Seen(key, hslots, loop, p)
    /\ ~faults => \A p \in Nat : Seen(key, hslots, loop, p) => Answered(p)
    /\ ~faults /\ res = 0 /\ ~busy =>
         (\A p \in Nat : Has(key, p) => Answered(p)) \/ (stage = "failed" /\ answers = <<>>)

\* The inductive invariant of the reader: the answers are the records of the key whose
\* slots the search has passed.
ReadInv == ReadTypes /\ OnItsTable /\ Increasing(answers) /\ AnswersAreSeen

LEMMA TableOfIs ==
  ASSUME MakeTypes, NEW k \in Key
  PROVE  /\ Table(Hash[k]) + 1 \in 1 .. Tables /\ Hash[k] \in Nat
         /\ TableOf(k) \in Seq(Entries)
         /\ TableHolds(TableOf(k), records, Table(Hash[k]))
<1>1. PICK h \in Nat : h = Hash[k]  BY CdbMakeAssumption
<1>2. PICK i \in 0 .. Tables - 1 : i = Table(h)
  <2>1. h % Tables \in 0 .. Tables - 1  BY HeaderSizeIs
  <2> QED  BY <2>1 DEF Table
<1>3. PICK j \in 1 .. Tables : j = i + 1 /\ j - 1 = i  BY HeaderSizeIs
<1>4. TableOf(k) = HashTable(head, i) /\ TableOf(k) \in Seq(Entries)
  <2>1. AllTables(head)[j] = HashTable(head, j - 1) /\ AllTables(head)[j] \in Seq(Entries)
    BY AllTablesIs DEF MakeTypes
  <2> QED  BY <1>1, <1>2, <1>3, <2>1 DEF TableOf
<1>5. TableHolds(HashTable(head, i), records, i)  BY TablesHold DEF MakeTypes
<1> QED  BY <1>1, <1>2, <1>3, <1>4, <1>5

\* No step of the writer is left once a search has found its table.
LEMMA WriterStops ==
  ASSUME ReadInv, busy \/ loop > 0
  PROVE  ~MakeNext
<1>1. key # None /\ queue = <<>>  BY DEF ReadInv, OnItsTable
<1>2. stage \in {"done", "failed"}  BY <1>1 DEF ReadInv, ReadTypes
<1>3. ~Finish /\ ~Rewind /\ ~Done /\ ~MakeFails  BY <1>2 DEF Finish, Rewind, Done, MakeFails
<1>4. ~Emit  BY <1>1 DEF Emit
<1>5. ~\E k \in Key, d \in DataLens : Add(k, d)  BY <1>2 DEF Add
<1> QED  BY <1>3, <1>4, <1>5 DEF MakeNext

\* Before that it may still write, but changes nothing a search depends on.
LEMMA MakeRead ==
  ASSUME ReadInv, MakeTypes', Make
  PROVE  ReadInv'
<1>1. ~(busy \/ loop > 0)  BY WriterStops DEF Make
<1>2. UNCHANGED <<key, busy, loop, khash, kpos, hpos, hslots, res, answers, faults>>
  BY DEF Make, rvars, seek
<1>3. CASE key = None
  <2>1. hslots = 0 /\ loop = 0
    <3>1. hslots = 0 /\ loop \in 0 .. hslots  BY <1>3 DEF ReadInv, ReadTypes
    <3> QED  BY <3>1
  <2>2. 0 \in 0 .. 2 * Len(records')
    <3>1. Len(records') \in Nat  BY LenProperties DEF MakeTypes
    <3> QED  BY <3>1
  <2>3. ReadTypes'  BY <1>2, <1>3, <2>1, <2>2 DEF ReadInv, ReadTypes
  <2>4. OnItsTable'  BY <1>1, <1>2 DEF OnItsTable
  <2>5. AnswersAreSeen'  BY <1>2, <1>3 DEF AnswersAreSeen
  <2>6. Increasing(answers')  BY <1>2 DEF ReadInv
  <2> QED  BY <2>3, <2>4, <2>5, <2>6 DEF ReadInv
<1>4. CASE key # None
  <2>1. stage \in {"done", "failed"}  BY <1>4 DEF ReadInv, ReadTypes
  <2>2. ~Finish /\ ~Rewind /\ ~Done /\ ~MakeFails  BY <2>1 DEF Finish, Rewind, Done, MakeFails
  <2>3. ~\E k \in Key, d \in DataLens : Add(k, d)  BY <2>1 DEF Add
  <2>4. Emit  BY <2>2, <2>3 DEF Make, MakeNext
  <2>5. UNCHANGED <<stage, head, records>>  BY <2>4 DEF Emit
  <2>6. ReadTypes'  BY <1>2, <2>5 DEF ReadInv, ReadTypes
  <2>7. OnItsTable'  BY <1>1, <1>2 DEF OnItsTable
  <2>8. AnswersAreSeen'
    BY <1>2, <2>5 DEF ReadInv, AnswersAreSeen, Seen, Has, Answered, SlotAt, TableOf
  <2>9. Increasing(answers')  BY <1>2 DEF ReadInv
  <2> QED  BY <2>6, <2>7, <2>8, <2>9 DEF ReadInv
<1> QED  BY <1>3, <1>4

\* No slot is seen before the first.
LEMMA NothingSeen ==
  ASSUME ReadInv, loop = 0, key # None
  PROVE  answers = <<>> /\ \A k, n, p : ~Seen(k, n, 0, p)
<1>1. \A j \in 0 .. 0 - 1 : FALSE  OBVIOUS
<1>2. \A k, n, p : ~Seen(k, n, 0, p)  BY <1>1 DEF Seen
<1>3. \A p \in Nat : ~Answered(p)  BY <1>2 DEF ReadInv, AnswersAreSeen
<1>4. answers \in Seq(Nat) /\ Len(answers) \in Nat  BY LenProperties DEF ReadInv, ReadTypes
<1>5. Len(answers) = 0
  <2> SUFFICES ASSUME Len(answers) # 0 PROVE FALSE  OBVIOUS
  <2>1. 1 \in 1 .. Len(answers)  BY <1>4
  <2>2. answers[1] \in Nat  BY <1>4, <2>1, ElementOfSeq
  <2> QED  BY <1>3, <2>1, <2>2 DEF Answered
<1> QED  BY <1>2, <1>4, <1>5, EmptySeq

LEMMA FindStartRead ==
  ASSUME ReadInv, NEW k \in Key, FindStart(k)
  PROVE  ReadInv'
<1>1. /\ stage \in {"done", "failed"} /\ ~busy
      /\ key' = k /\ loop' = 0 /\ answers' = <<>> /\ faults' = FALSE /\ res' = 1
      /\ UNCHANGED <<busy, khash, kpos, hpos, hslots>> /\ UNCHANGED cdbvars
  BY DEF FindStart
<1>2. k # None  BY CdbReadAssumption
<1>3. <<>> \in Seq(Nat) /\ Len(<<>>) = 0 /\ \A i \in 1 .. 0 : FALSE  BY EmptySeq
<1>4. ReadTypes'
  <2>1. hslots \in 0 .. 2 * Len(records) /\ 0 \in 0 .. hslots  BY DEF ReadInv, ReadTypes
  <2> QED  BY <1>1, <1>2, <1>3, <2>1 DEF ReadInv, ReadTypes, cdbvars
<1>5. OnItsTable'  BY <1>1 DEF OnItsTable, ReadInv, ReadTypes
<1>6. Increasing(answers')  BY <1>1, <1>3 DEF Increasing
<1>7. AnswersAreSeen'
  <2>1. \A j \in 0 .. 0 - 1 : FALSE  OBVIOUS
  <2>2. \A p : ~Seen(k, hslots, 0, p)'  BY <2>1 DEF Seen
  <2>3. \A p \in Nat : ~Answered(p)'  BY <1>1, <1>3 DEF Answered
  <2>4. res' # 0 /\ key' # None  BY <1>1, <1>2
  <2>5. \A p : ~Seen(key, hslots, loop, p)'
    <3>1. loop' = 0  BY <1>1
    <3> QED  BY <2>1, <3>1 DEF Seen
  <2> QED  BY <2>3, <2>4, <2>5 DEF AnswersAreSeen
<1> QED  BY <1>4, <1>5, <1>6, <1>7 DEF ReadInv

LEMMA FindOnRead ==
  ASSUME ReadInv, FindOn
  PROVE  ReadInv'
<1>1. /\ key # None /\ ~busy /\ res # 0 /\ loop > 0 /\ busy' = TRUE
      /\ UNCHANGED <<key, seek, res, answers, faults, cdbvars>>
  BY DEF FindOn
<1>2. ReadTypes'  BY <1>1 DEF ReadInv, ReadTypes, seek, cdbvars
<1>3. OnItsTable'  BY <1>1 DEF ReadInv, OnItsTable, TableOf, seek, cdbvars
<1>4. AnswersAreSeen'
  BY <1>1 DEF ReadInv, AnswersAreSeen, Seen, Has, Answered, SlotAt, TableOf, seek, cdbvars
<1>5. Increasing(answers')  BY <1>1 DEF ReadInv
<1> QED  BY <1>2, <1>3, <1>4, <1>5 DEF ReadInv

\* A key whose table has no slot has no record.
LEMMA NoSlots ==
  ASSUME MakeTypes, NEW k \in Key, Len(TableOf(k)) = 0, NEW p
  PROVE  ~Has(k, p)
<1> SUFFICES ASSUME NEW i \in 1 .. Len(records), records[i].key = k PROVE FALSE  BY DEF Has
<1>1. TableHolds(TableOf(k), records, Table(Hash[k]))  BY TableOfIs
<1>2. \E j \in 0 .. 0 - 1 : Sits(TableOf(k), 0, Entry(records[i]), j)  BY <1>1 DEF TableHolds
<1> QED  BY <1>2

\* What the header says of the table of a key
LEMMA HeaderRead ==
  ASSUME MakeInv, stage \in {"done", "failed"}, NEW k \in Key, NEW o, o = 8 * Table(Hash[k])
  PROVE  /\ stage = "done" => Half(o + 4) = Len(TableOf(k))
         /\ Half(o + 4) > 0 =>
              /\ queue = <<>> /\ HasAll /\ Half(o + 4) = Len(TableOf(k))
              /\ Half(o) \in Nat
              /\ \A u \in 1 .. Len(TableOf(k)) : InFile(file, Half(o) + 8 * (u - 1), Item(8, TableOf(k)[u]))
<1>1. PICK i \in 1 .. Tables : i = Table(Hash[k]) + 1 /\ TableOf(k) = AllTables(head)[i]
  BY TableOfIs DEF MakeInv, TableOf
<1>2. i \in Nat /\ o = 8 * (i - 1) /\ o \in Nat /\ o + 4 \in Nat /\ o + 4 < HeaderSize /\ o < HeaderSize
  <2>1. Table(Hash[k]) = i - 1
    <3>1. Table(Hash[k]) + 1 \in 1 .. Tables /\ Table(Hash[k]) \in Int
      <4>1. Hash[k] \in Nat  BY CdbMakeAssumption
      <4>2. Hash[k] % Tables \in Int  BY <4>1, HeaderSizeIs
      <4> QED  BY <1>1, <4>2 DEF Table
    <3> QED  BY <1>1, <3>1
  <2> QED  BY <2>1, HeaderSizeIs
<1>3. ASSUME queue = <<>>, HasAll, NEW j \in 0 .. 2 * Tables, Written(final, file, j), 2 * i <= j
      PROVE  /\ Half(o + 4) = Len(TableOf(k)) /\ Half(o) \in Nat
             /\ \A u \in 1 .. Len(TableOf(k)) : InFile(file, Half(o) + 8 * (u - 1), Item(8, TableOf(k)[u]))
  <2>1. PICK b \in Nat : final = Header(head, b) /\ TablesLie(head, b, file, <<>>, 0)
    BY <1>3 DEF HasAll, Tabled
  <2>2. head \in Seq(Seq(Entries))  BY DEF MakeInv, MakeTypes
  <2>3. final[2 * i - 1] = Item(4, Starts(head, b, i)) /\ final[2 * i] = Item(4, Len(AllTables(head)[i]))
    BY <2>1, <2>2, HeaderIs
  <2>4. 2 * i \in 1 .. j /\ 2 * i - 1 \in 1 .. j /\ 4 * (2 * i - 1) = o + 4 /\ 4 * (2 * i - 1 - 1) = o
    BY <1>2, <1>3
  <2>5. InFile(file, o + 4, Item(4, Len(AllTables(head)[i])))
    <3>1. PICK m \in 1 .. j : m = 2 * i /\ 4 * (m - 1) = o + 4  BY <2>4
    <3>2. InFile(file, 4 * (m - 1), final[m])  BY <1>3 DEF Written
    <3> QED  BY <2>3, <3>1, <3>2
  <2>6. InFile(file, o, Item(4, Starts(head, b, i)))
    <3>1. PICK m \in 1 .. j : m = 2 * i - 1 /\ 4 * (m - 1) = o  BY <2>4
    <3>2. InFile(file, 4 * (m - 1), final[m])  BY <1>3 DEF Written
    <3> QED  BY <2>3, <3>1, <3>2
  <2>7. Half(o + 4) = Len(TableOf(k)) /\ Half(o) = Starts(head, b, i)
    BY <1>1, <2>5, <2>6 DEF Half, InFile, Item
  <2>8. Starts(head, b, i) \in Nat  BY <2>2, StartsAre
  <2>9. ASSUME NEW u \in 1 .. Len(TableOf(k))
        PROVE  InFile(file, Half(o) + 8 * (u - 1), Item(8, TableOf(k)[u]))
    <3>1. Lies(file, <<>>, 0, Starts(head, b, i) + 8 * (u - 1), Item(8, TableOf(k)[u]))
      BY <1>1, <2>1, <2>9 DEF TablesLie
    <3>2. TableOf(k)[u] \in Entries  BY <2>9, TableOfIs, ElementOfSeq DEF MakeInv
    <3>3. Item(8, TableOf(k)[u]) \in ItemSet  BY <3>2 DEF Item, ItemSet
    <3> QED  BY <2>7, <3>1, <3>3, LiesInFile
  <2> QED  BY <2>7, <2>8, <2>9
<1>4. CASE stage = "done"
  <2>1. queue = <<>> /\ HasAll /\ Written(final, file, 2 * Tables)  BY <1>4 DEF MakeInv, MakeStages
  <2>2. 2 * Tables \in 0 .. 2 * Tables /\ 2 * i <= 2 * Tables  BY <1>2, HeaderSizeIs
  <2> QED  BY <1>3, <2>1, <2>2
<1>5. CASE stage = "failed"
  <2>1. SUFFICES ASSUME Half(o + 4) > 0
                 PROVE  /\ queue = <<>> /\ HasAll /\ Half(o + 4) = Len(TableOf(k)) /\ Half(o) \in Nat
                        /\ \A u \in 1 .. Len(TableOf(k)) : InFile(file, Half(o) + 8 * (u - 1), Item(8, TableOf(k)[u]))
    BY <1>5
  <2>2. o + 4 \in DOMAIN file  BY <2>1 DEF Half
  <2>3. ~NoHeader  BY <1>2, <2>2, HeaderSizeIs DEF NoHeader
  <2>4. queue = <<>> /\ HasAll /\ \E j \in 0 .. 2 * Tables : Written(final, file, j)
    BY <1>5, <2>3 DEF MakeInv, MakeStages
  <2>5. PICK j \in 0 .. 2 * Tables : Written(final, file, j)  BY <2>4
  <2>6. PICK m \in 1 .. j : o + 4 = 4 * (m - 1)  BY <1>2, <2>2, <2>5, HeaderSizeIs DEF Written
  <2>7. 2 * i <= j
    <3>1. j \in Nat  BY <2>5, HeaderSizeIs
    <3>2. m = 2 * i  BY <1>2, <2>6, <3>1
    <3> QED  BY <2>6, <3>1, <3>2
  <2> QED  BY <1>3, <2>4, <2>5, <2>7
<1> QED  BY <1>4, <1>5

LEMMA FindTableRead ==
  ASSUME MakeInv, ReadInv, FindTable
  PROVE  ReadInv'
<1>1. key # None /\ ~busy /\ res # 0 /\ loop = 0 /\ UNCHANGED <<key, cdbvars>>  BY DEF FindTable
<1>2. PICK k \in Key, h \in Nat, o \in {8 * Table(Hash[key])}, n \in {Half(8 * Table(Hash[key]) + 4)} :
          k = key /\ h = Hash[k] /\ o = 8 * Table(h) /\ n = Half(o + 4)
  <2>1. key \in Key  BY <1>1 DEF ReadInv, ReadTypes
  <2> QED  BY <2>1, CdbMakeAssumption
<1>3. stage \in {"done", "failed"}  BY <1>1 DEF ReadInv, ReadTypes
<1>4. answers = <<>> /\ \A l, p : ~Seen(key, l, 0, p)  BY <1>1, NothingSeen
<1>5. \A l, p : Seen(key, l, 0, p)' <=> Seen(key, l, 0, p)
  BY <1>1 DEF cdbvars, Seen, SlotAt, TableOf
<1>6. \A p : Has(key, p)' <=> Has(key, p)  BY <1>1 DEF cdbvars, Has
<1>7. Len(answers) = 0 /\ (\A i \in 1 .. 0 : FALSE) /\ \A p : ~Answered(p)
  <2>1. Len(answers) = 0 /\ \A i \in 1 .. 0 : FALSE  BY <1>4, EmptySeq
  <2> QED  BY <2>1 DEF Answered
<1>8. Increasing(answers)  BY <1>7 DEF Increasing
<1>9. CASE Error /\ UNCHANGED seek
  <2>1. busy' = FALSE /\ res' = -1 /\ faults' = TRUE /\ answers' = answers /\ UNCHANGED seek
    BY <1>9 DEF Error, FindReturns
  <2>2. ReadTypes'  BY <1>1, <2>1 DEF ReadInv, ReadTypes, seek, cdbvars
  <2>3. OnItsTable'  BY <1>1, <2>1 DEF OnItsTable, seek
  <2>4. AnswersAreSeen'  BY <1>1, <1>7, <2>1 DEF AnswersAreSeen, Answered
  <2> QED  BY <1>8, <2>1, <2>2, <2>3, <2>4 DEF ReadInv
<1>10. CASE n = 0 /\ Over /\ hslots' = n /\ UNCHANGED <<loop, khash, kpos, hpos>>
  <2>1. busy' = FALSE /\ res' = 0 /\ answers' = answers /\ faults' = faults /\ hslots' = 0 /\ loop' = 0
    BY <1>1, <1>10 DEF Over, FindReturns
  <2>2. Len(records) \in Nat  BY LenProperties DEF MakeInv, MakeTypes
  <2>3. hslots' \in 0 .. 2 * Len(records') /\ loop' \in 0 .. hslots'  BY <1>1, <2>1, <2>2 DEF cdbvars
  <2>4. ReadTypes'  BY <1>1, <2>1, <2>3 DEF ReadInv, ReadTypes, cdbvars
  <2>5. OnItsTable'  BY <2>1 DEF OnItsTable
  <2>6. \A p \in Nat : ~Seen(key, hslots, loop, p)'
    <3>1. \A p : Seen(key, hslots, loop, p)' <=> Seen(key, 0, 0, p)
      BY <1>1, <2>1 DEF cdbvars, Seen, SlotAt, TableOf
    <3> QED  BY <1>4, <3>1
  <2>7. stage = "done" => \A p : ~Has(key, p)
    <3> SUFFICES ASSUME stage = "done" PROVE \A p : ~Has(key, p)  OBVIOUS
    <3>1. Len(TableOf(k)) = 0  BY <1>2, <1>3, <1>10, HeaderRead
    <3> QED  BY <1>2, <3>1, NoSlots DEF MakeInv
  <2>8. (\A p \in Nat : Has(key, p)' => Answered(p)') \/ (stage' = "failed" /\ answers' = <<>>)
    <3>1. stage' = stage  BY <1>1 DEF cdbvars
    <3> QED  BY <1>3, <1>4, <1>6, <2>1, <2>7, <3>1
  <2>9. AnswersAreSeen'  BY <1>7, <2>1, <2>6, <2>8 DEF AnswersAreSeen, Answered
  <2> QED  BY <1>8, <2>1, <2>4, <2>5, <2>9 DEF ReadInv
<1>11. CASE /\ n > 0 /\ hslots' = n /\ hpos' = Half(o) /\ khash' = h
            /\ kpos' = Half(o) + 8 * ((h \div Tables) % n)
            /\ busy' = TRUE /\ UNCHANGED <<loop, res, answers, faults>>
  <2>1. /\ queue = <<>> /\ HasAll /\ n = Len(TableOf(k)) /\ Half(o) \in Nat
        /\ \A u \in 1 .. Len(TableOf(k)) : InFile(file, Half(o) + 8 * (u - 1), Item(8, TableOf(k)[u]))
    BY <1>2, <1>3, <1>11, HeaderRead
  <2>2. n \in 0 .. 2 * Len(records) /\ n \in Nat
    <3>1. TableHolds(TableOf(k), records, Table(Hash[k]))  BY TableOfIs DEF MakeInv
    <3>2. Len(records) \in Nat  BY LenProperties DEF MakeInv, MakeTypes
    <3> QED  BY <2>1, <3>1, <3>2 DEF TableHolds
  <2>3. hslots' \in 0 .. 2 * Len(records') /\ loop' \in 0 .. hslots'
    BY <1>1, <1>11, <2>2 DEF cdbvars
  <2>4. ReadTypes'  BY <1>1, <1>11, <2>3 DEF ReadInv, ReadTypes, cdbvars
  <2>5. kpos' = Half(o) + 8 * (SlotOf(h, 0, n) - 1)
    <3>1. 0 \in 0 .. n - 1 /\ n > 0  BY <1>11, <2>2
    <3>2. /\ First(h, n) \in 0 .. n - 1
          /\ SlotOf(h, 0, n) = 1 + IF First(h, n) + 0 < n THEN First(h, n) + 0 ELSE First(h, n) + 0 - n
      BY <2>2, <3>1, SlotIs
    <3>3. SlotOf(h, 0, n) - 1 = First(h, n)  BY <2>2, <3>2
    <3> QED  BY <1>11, <3>3 DEF First
  <2>6. OnItsTable'
    <3>1. TableOf(k)' = TableOf(k)  BY <1>1 DEF TableOf, cdbvars
    <3>2. RecordsLie(records', file', <<>>, 0)  BY <1>1, <2>1 DEF HasAll, cdbvars
    <3>3. key' = k /\ queue' = <<>> /\ file' = file  BY <1>1, <1>2, <2>1 DEF cdbvars
    <3> QED  BY <1>1, <1>2, <1>11, <2>1, <2>2, <2>5, <3>1, <3>2, <3>3 DEF OnItsTable
  <2>7. \A p : ~Seen(key, hslots, loop, p)'
    <3>1. \A p : Seen(key, hslots, loop, p)' <=> Seen(key, n, 0, p)
      BY <1>1, <1>11 DEF cdbvars, Seen, SlotAt, TableOf
    <3> QED  BY <1>4, <3>1
  <2>8. AnswersAreSeen'  BY <1>7, <1>11, <2>7 DEF AnswersAreSeen, Answered
  <2> QED  BY <1>8, <1>11, <2>4, <2>6, <2>8 DEF ReadInv
<1> QED  BY <1>2, <1>9, <1>10, <1>11 DEF FindTable

\* No item ends behind the end of the file.
LEMMA FileEndIs ==
  ASSUME FileOK(file), NEW o \in DOMAIN file
  PROVE  FileEnd \in Nat /\ o + file[o].size <= FileEnd
<1> DEFINE ends == {u + file[u].size : u \in DOMAIN file}
           above == {c \in Nat : \A e \in ends : e <= c}
<1>1. \A u \in DOMAIN file : u \in Nat /\ file[u].size \in Nat  BY DEF FileOK, ItemSet
<1>2. ends \in SUBSET Nat /\ ends # {} /\ o + file[o].size \in ends  BY <1>1
<1>3. PICK b \in Nat : \A e \in ends : e <= b  BY DEF FileOK
<1>4. PICK c \in above : \A d \in above : c <= d
  <2>1. above \in SUBSET Nat /\ b \in above  BY <1>3
  <2> HIDE DEF above
  <2> QED  BY <2>1, LeastNat
<1>5. c \in Nat /\ \A e \in ends : e <= c  BY <1>4
<1>6. c \in ends
  <2> SUFFICES ASSUME c \notin ends PROVE FALSE  OBVIOUS
  <2>1. \A e \in ends : e \in Nat /\ e <= c /\ e # c  BY <1>2, <1>5
  <2> HIDE DEF ends
  <2>2. \A e \in ends : e <= c - 1 /\ c - 1 \in Nat  BY <1>5, <2>1
  <2>3. c - 1 \in Nat  BY <1>2, <2>2
  <2>4. c - 1 \in above  BY <2>2, <2>3
  <2>5. c <= c - 1  BY <1>4, <2>4
  <2> QED  BY <1>5, <2>5
<1>7. FileEnd = CHOOSE e \in ends : \A f \in ends : f <= e
  <2>1. FileEnd = IF ends = {} THEN 0 ELSE CHOOSE e \in ends : \A f \in ends : f <= e  BY DEF FileEnd
  <2> QED  BY <1>2, <2>1
<1> HIDE DEF ends
<1>8. FileEnd \in ends /\ \A f \in ends : f <= FileEnd  BY <1>5, <1>6, <1>7
<1> QED  BY <1>2, <1>8

\* What cdb_findnext reads at kpos
LEMMA SlotIsRead ==
  ASSUME MakeInv, ReadInv, busy, loop < hslots
  PROVE  /\ kpos \in hpos .. hpos + 8 * hslots - 1
         /\ kpos \in DOMAIN file /\ Inside(kpos, 8)
         /\ Slot = SlotAt(key, loop, hslots) /\ Slot \in Entries
         /\ Slot.p > 0 => \E i \in 1 .. Len(records) : Slot = Entry(records[i])
<1>1. /\ key # None /\ hpos \in Nat /\ hslots > 0 /\ hslots = Len(TableOf(key))
      /\ \A u \in 1 .. hslots : InFile(file, hpos + 8 * (u - 1), Item(8, TableOf(key)[u]))
      /\ kpos = hpos + 8 * (SlotOf(Hash[key], loop, hslots) - 1)
  BY DEF ReadInv, OnItsTable
<1>2. PICK k \in Key : k = key  BY <1>1 DEF ReadInv, ReadTypes
<1>3. PICK h \in Nat : h = Hash[k]  BY CdbMakeAssumption
<1>4. PICK n \in Nat, l \in Nat : n = hslots /\ l = loop /\ n > 0 /\ l \in 0 .. n - 1
  <2>1. Len(records) \in Nat  BY LenProperties DEF MakeInv, MakeTypes
  <2>2. hslots \in Nat /\ loop \in Nat  BY <2>1 DEF ReadInv, ReadTypes
  <2> QED  BY <1>1, <2>2
<1>5. PICK u \in 1 .. n : u = SlotOf(h, l, n)  BY <1>4, SlotIs
<1>6. kpos = hpos + 8 * (u - 1)  BY <1>1, <1>2, <1>3, <1>4, <1>5
<1>7. kpos \in DOMAIN file /\ file[kpos] = Item(8, TableOf(k)[u])  BY <1>1, <1>2, <1>4, <1>6 DEF InFile
<1>8. file[kpos].size = 8 /\ Slot = TableOf(k)[u]  BY <1>7 DEF Slot, Item
<1>9. Slot \in Entries  BY <1>1, <1>2, <1>4, <1>8, TableOfIs, ElementOfSeq DEF MakeInv
<1>10. TableHolds(TableOf(k), records, Table(Hash[k]))  BY TableOfIs DEF MakeInv
<1>11. Slot.p > 0 => \E i \in 1 .. Len(records) : Slot = Entry(records[i])
  BY <1>1, <1>2, <1>4, <1>8, <1>10 DEF TableHolds
<1>12. Inside(kpos, 8)
  <2>1. kpos + file[kpos].size <= FileEnd  BY <1>7, FileEndIs DEF MakeInv, MakeTypes
  <2> QED  BY <1>8, <2>1 DEF Inside
<1>13. Slot = SlotAt(key, loop, hslots)  BY <1>2, <1>3, <1>4, <1>5, <1>8 DEF SlotAt
<1> QED  BY <1>1, <1>4, <1>6, <1>7, <1>9, <1>11, <1>12, <1>13

\* match() tells the records of the key from the others.
LEMMA SameIs ==
  ASSUME MakeInv, NEW i \in 1 .. Len(records), key \in Key, RecordsLie(records, file, <<>>, 0)
  PROVE  Same(records[i].p) <=> records[i].key = key
<1>1. PICK k \in Key, p \in Nat, m \in Nat : k = records[i].key /\ p = records[i].p /\ m = KeyLen[k]
  <2>1. records[i] \in RecordSet  BY ElementOfSeq DEF MakeInv, MakeTypes
  <2>2. records[i].key \in Key /\ records[i].p \in Nat  BY <2>1 DEF RecordSet
  <2> QED  BY <2>2, CdbMakeAssumption
<1>2. PICK d \in DataLens : Lies(file, <<>>, 0, p, Item(8, <<m, d>>))  BY <1>1 DEF RecordsLie
<1>3. Item(8, <<m, d>>) \in ItemSet /\ Item(m, k) \in ItemSet  BY <1>1 DEF Item, ItemSet
<1>4. file[p].is[1] = m
  <2>1. InFile(file, p, Item(8, <<m, d>>))  BY <1>2, <1>3, LiesInFile
  <2>2. file[p].is = <<m, d>>  BY <2>1 DEF InFile, Item
  <2> QED  BY <2>2
<1>5. m > 0 => file[p + 8].is = k
  <2> SUFFICES ASSUME m > 0 PROVE file[p + 8].is = k  OBVIOUS
  <2>1. Lies(file, <<>>, 0, p + 8, Item(m, k))  BY <1>1 DEF RecordsLie
  <2>2. InFile(file, p + 8, Item(m, k))  BY <1>3, <2>1, LiesInFile
  <2> QED  BY <2>2 DEF InFile, Item
<1>6. Same(p) <=> m = KeyLen[key] /\ (KeyLen[key] > 0 => file[p + 8].is = key)  BY <1>4 DEF Same
<1>7. KeyLen[key] \in Nat /\ (m = 0 /\ KeyLen[key] = 0 => k = key)  BY <1>1, CdbMakeAssumption
<1>8. Same(p) <=> k = key
  <2>1. ASSUME Same(p) PROVE k = key
    <3>1. CASE m > 0  BY <1>5, <1>6, <2>1, <3>1
    <3>2. CASE m = 0  BY <1>6, <1>7, <2>1, <3>2
    <3> QED  BY <1>1, <3>1, <3>2
  <2>2. ASSUME k = key PROVE Same(p)  BY <1>1, <1>5, <1>6, <2>2
  <2> QED  BY <2>1, <2>2
<1> QED  BY <1>1, <1>8

\* A search that meets an empty slot, or has gone through all slots, has seen all records
\* of the key.
LEMMA AllSeen ==
  ASSUME MakeInv, ReadInv, busy,
         loop = hslots \/ (loop < hslots /\ SlotAt(key, loop, hslots).p = 0),
         NEW p, Has(key, p)
  PROVE  Seen(key, hslots, loop, p)
<1>1. key # None /\ hslots = Len(TableOf(key))  BY DEF ReadInv, OnItsTable
<1>2. PICK k \in Key : k = key  BY <1>1 DEF ReadInv, ReadTypes
<1>3. PICK n \in Nat, l \in Nat : n = hslots /\ l = loop /\ l \in 0 .. n
  <2>1. Len(records) \in Nat  BY LenProperties DEF MakeInv, MakeTypes
  <2>2. hslots \in Nat /\ loop \in 0 .. hslots  BY <2>1 DEF ReadInv, ReadTypes
  <2> QED  BY <2>2
<1>4. PICK i \in 1 .. Len(records) : records[i].key = k /\ records[i].p = p  BY <1>2 DEF Has
<1>5. records[i] \in RecordSet  BY ElementOfSeq DEF MakeInv, MakeTypes
<1>6. PICK e \in Entries : e = Entry(records[i]) /\ e.h = Hash[k] /\ e.p > 0
  <2>1. records[i].p > 0
    <3>1. records[i].p >= HeaderSize  BY DEF MakeInv, MakeTypes, Placed
    <3> QED  BY <1>5, <3>1, HeaderSizeIs DEF RecordSet
  <2> QED  BY <1>4, <1>5, <2>1, EntryIs
<1>7. TableHolds(TableOf(k), records, Table(Hash[k]))  BY TableOfIs DEF MakeInv
<1>8. PICK j \in 0 .. n - 1 : Sits(TableOf(k), n, e, j)  BY <1>1, <1>2, <1>3, <1>4, <1>6, <1>7 DEF TableHolds
<1>9. SlotAt(k, j, n) = e /\ \A m \in 0 .. j - 1 : SlotAt(k, m, n).p > 0
  BY <1>6, <1>8 DEF Sits, SlotAt
<1>10. j < l
  <2> SUFFICES ASSUME j >= l PROVE FALSE  BY <1>3
  <2>1. l < n /\ SlotAt(k, l, n).p = 0  BY <1>2, <1>3
  <2>2. CASE j = l  BY <1>6, <1>9, <2>1, <2>2
  <2>3. CASE j > l
    <3>1. l \in 0 .. j - 1  BY <2>3
    <3> QED  BY <1>9, <2>1, <3>1
  <2> QED  BY <2>2, <2>3
<1>11. j \in 0 .. l - 1  BY <1>3, <1>10
<1> QED  BY <1>2, <1>3, <1>4, <1>6, <1>9, <1>11 DEF Seen

\* A step to the next slot
LEMMA AdvanceIs ==
  ASSUME MakeInv, ReadInv, busy, loop < hslots, Advance, UNCHANGED <<key, cdbvars>>
  PROVE  /\ loop' = loop + 1 /\ hslots' = hslots /\ loop' \in 0 .. hslots' /\ OnItsTable'
         /\ \A p : Seen(key, hslots, loop, p)' <=>
              \/ Seen(key, hslots, loop, p)
              \/ \E i \in 1 .. Len(records) : /\ records[i].key = key /\ records[i].p = p
                                              /\ SlotAt(key, loop, hslots) = Entry(records[i])
<1>1. /\ key # None /\ queue = <<>> /\ khash = Hash[key] /\ RecordsLie(records, file, <<>>, 0)
      /\ hslots > 0 /\ hslots = Len(TableOf(key)) /\ hpos \in Nat
      /\ \A u \in 1 .. hslots : InFile(file, hpos + 8 * (u - 1), Item(8, TableOf(key)[u]))
      /\ kpos = hpos + 8 * (SlotOf(Hash[key], loop, hslots) - 1)
  BY DEF ReadInv, OnItsTable
<1>2. PICK k \in Key : k = key  BY <1>1 DEF ReadInv, ReadTypes
<1>3. PICK h \in Nat : h = Hash[k]  BY CdbMakeAssumption
<1>4. PICK n \in Nat, l \in Nat : n = hslots /\ l = loop /\ n > 0 /\ l \in 0 .. n - 1
  <2>1. Len(records) \in Nat  BY LenProperties DEF MakeInv, MakeTypes
  <2>2. hslots \in Nat /\ loop \in Nat  BY <2>1 DEF ReadInv, ReadTypes
  <2> QED  BY <1>1, <2>2
<1>5. /\ loop' = l + 1 /\ hslots' = n /\ hpos' = hpos /\ khash' = khash
      /\ kpos' = IF kpos + 8 = hpos + 8 * n THEN hpos ELSE kpos + 8
      /\ UNCHANGED <<key, queue, records, file, head>>
  BY <1>4 DEF Advance, cdbvars
<1>6. \A q : TableOf(q)' = TableOf(q)  BY <1>5 DEF TableOf
<1>7. l + 1 < n => kpos' = hpos + 8 * (SlotOf(h, l + 1, n) - 1)
  <2> SUFFICES ASSUME l + 1 < n PROVE kpos' = hpos + 8 * (SlotOf(h, l + 1, n) - 1)  OBVIOUS
  <2>1. PICK r \in 0 .. n - 1 : r = First(h, n)  BY <1>4, SlotIs
  <2>2. PICK u \in 1 .. n : u = SlotOf(h, l, n) /\ u = 1 + IF r + l < n THEN r + l ELSE r + l - n
    <3>1. SlotOf(h, l, n) \in 1 .. n /\ SlotOf(h, l, n) = 1 + IF r + l < n THEN r + l ELSE r + l - n
      BY <1>4, <2>1, SlotIs
    <3> QED  BY <3>1
  <2>3. PICK v \in 1 .. n : v = SlotOf(h, l + 1, n) /\ v = 1 + IF r + (l + 1) < n THEN r + (l + 1) ELSE r + (l + 1) - n
    <3>1. PICK m \in 0 .. n - 1 : m = l + 1  BY <1>4
    <3>2. SlotOf(h, m, n) \in 1 .. n /\ SlotOf(h, m, n) = 1 + IF r + m < n THEN r + m ELSE r + m - n
      BY <1>4, <2>1, SlotIs
    <3> QED  BY <3>1, <3>2
  <2>4. PICK a \in Nat : a = hpos  BY <1>1
  <2>5. kpos = a + 8 * (u - 1)  BY <1>1, <1>2, <1>3, <1>4, <2>2, <2>4
  <2>6. kpos' = IF a + 8 * (u - 1) + 8 = a + 8 * n THEN a ELSE a + 8 * (u - 1) + 8
    BY <1>5, <2>4, <2>5
  <2>7. v = IF u = n THEN 1 ELSE u + 1  BY <2>1, <2>2, <2>3
  <2>8. kpos' = a + 8 * (v - 1)
    <3>1. CASE u = n  BY <2>6, <2>7, <3>1
    <3>2. CASE u # n
      <4>1. ~(a + 8 * (u - 1) + 8 = a + 8 * n)  BY <3>2
      <4> QED  BY <2>6, <2>7, <3>2, <4>1
    <3> QED  BY <3>1, <3>2
  <2> QED  BY <2>3, <2>4, <2>8
<1>8. OnItsTable'
  BY <1>1, <1>2, <1>3, <1>4, <1>5, <1>6, <1>7 DEF OnItsTable
<1>9. ASSUME NEW p
      PROVE  Seen(key, hslots, loop, p)' <=>
               \/ Seen(key, hslots, loop, p)
               \/ \E i \in 1 .. Len(records) : /\ records[i].key = key /\ records[i].p = p
                                               /\ SlotAt(key, loop, hslots) = Entry(records[i])
  <2>1. \A j : j \in 0 .. l + 1 - 1 <=> j \in 0 .. l - 1 \/ j = l  OBVIOUS
  <2>2. Seen(key, hslots, loop, p)' <=>
          \E i \in 1 .. Len(records) : /\ records[i].key = k /\ records[i].p = p
                                       /\ \E j \in 0 .. l + 1 - 1 : SlotAt(k, j, n) = Entry(records[i])
    BY <1>2, <1>5, <1>6 DEF Seen, SlotAt
  <2>3. Seen(key, hslots, loop, p) <=>
          \E i \in 1 .. Len(records) : /\ records[i].key = k /\ records[i].p = p
                                       /\ \E j \in 0 .. l - 1 : SlotAt(k, j, n) = Entry(records[i])
    BY <1>2, <1>4 DEF Seen
  <2> QED  BY <1>2, <1>4, <2>1, <2>2, <2>3
<1> QED  BY <1>4, <1>5, <1>8, <1>9

LEMMA ProbeEnds ==
  ASSUME MakeInv, ReadInv, busy, UNCHANGED <<key, seek, cdbvars>>,
         Error \/ (Over /\ \A p : Has(key, p) => Seen(key, hslots, loop, p))
  PROVE  ReadInv'
<1>1. key # None  BY DEF ReadInv, OnItsTable
<1>2. busy' = FALSE /\ answers' = answers /\ res' \in {-1, 0, 1}  BY DEF Error, Over, FindReturns
<1>3. ReadTypes'
  <2>1. faults' \in BOOLEAN  BY DEF Error, Over, ReadInv, ReadTypes
  <2> QED  BY <1>2, <2>1 DEF ReadInv, ReadTypes, seek, cdbvars
<1>4. OnItsTable'  BY <1>2 DEF ReadInv, OnItsTable, TableOf, seek, cdbvars
<1>5. \A p : /\ Seen(key, hslots, loop, p)' <=> Seen(key, hslots, loop, p)
             /\ Has(key, p)' <=> Has(key, p)
             /\ Answered(p)' <=> Answered(p)
  BY <1>2 DEF Seen, Has, Answered, SlotAt, TableOf, seek, cdbvars
<1>6. AnswersAreSeen
  BY DEF ReadInv
<1>7. \A p \in Nat : Answered(p)' => Seen(key, hslots, loop, p)'
  BY <1>1, <1>2, <1>5, <1>6 DEF AnswersAreSeen
<1>8. CASE Error
  <2>1. faults' = TRUE  BY <1>8 DEF Error
  <2>2. AnswersAreSeen'  BY <1>7, <2>1 DEF AnswersAreSeen
  <2> QED  BY <1>2, <1>3, <1>4, <2>2 DEF ReadInv
<1>9. CASE Over /\ \A p : Has(key, p) => Seen(key, hslots, loop, p)
  <2>1. faults' = faults  BY <1>9 DEF Over
  <2>2. ~faults => \A p \in Nat : Seen(key, hslots, loop, p) => Answered(p)
    BY <1>1, <1>6 DEF AnswersAreSeen
  <2>3. ~faults' => \A p \in Nat : Seen(key, hslots, loop, p)' => Answered(p)'
    BY <1>5, <2>1, <2>2
  <2>4. ~faults' => \A p \in Nat : Has(key, p)' => Answered(p)'
    BY <1>5, <1>9, <2>1, <2>2
  <2>5. AnswersAreSeen'  BY <1>7, <2>3, <2>4 DEF AnswersAreSeen
  <2> QED  BY <1>2, <1>3, <1>4, <2>5 DEF ReadInv
<1> QED  BY <1>8, <1>9

LEMMA ProbePasses ==
  ASSUME MakeInv, ReadInv, busy, loop < hslots, Advance, UNCHANGED <<key, cdbvars>>,
         \/ Pass /\ ~\E i \in 1 .. Len(records) : /\ records[i].key = key
                                                  /\ SlotAt(key, loop, hslots) = Entry(records[i])
         \/ Error
  PROVE  ReadInv'
<1>1. key # None  BY DEF ReadInv, OnItsTable
<1>2. /\ loop' = loop + 1 /\ hslots' = hslots /\ loop' \in 0 .. hslots' /\ OnItsTable'
      /\ \A p : Seen(key, hslots, loop, p)' <=>
           \/ Seen(key, hslots, loop, p)
           \/ \E i \in 1 .. Len(records) : /\ records[i].key = key /\ records[i].p = p
                                           /\ SlotAt(key, loop, hslots) = Entry(records[i])
  BY AdvanceIs
<1>3. answers' = answers /\ busy' \in BOOLEAN /\ faults' \in BOOLEAN /\ res' \in {-1, 0, 1}
  BY DEF Pass, Error, FindReturns, ReadInv, ReadTypes
<1>4. ReadTypes'  BY <1>2, <1>3 DEF ReadInv, ReadTypes, cdbvars
<1>5. \A p : Answered(p)' <=> Answered(p)  BY <1>3 DEF Answered
<1>6. \A p \in Nat : Answered(p)' => Seen(key, hslots, loop, p)'
  BY <1>1, <1>2, <1>5 DEF ReadInv, AnswersAreSeen
<1>7. CASE Error
  <2>1. faults' = TRUE  BY <1>7 DEF Error
  <2>2. AnswersAreSeen'  BY <1>6, <2>1 DEF AnswersAreSeen
  <2> QED  BY <1>2, <1>3, <1>4, <2>2 DEF ReadInv
<1>8. CASE Pass /\ ~\E i \in 1 .. Len(records) : /\ records[i].key = key
                                                 /\ SlotAt(key, loop, hslots) = Entry(records[i])
  <2>1. busy' = TRUE /\ faults' = faults  BY <1>8 DEF Pass
  <2>2. \A p : Seen(key, hslots, loop, p)' <=> Seen(key, hslots, loop, p)  BY <1>2, <1>8
  <2>3. ~faults => \A p \in Nat : Seen(key, hslots, loop, p) => Answered(p)
    BY <1>1 DEF ReadInv, AnswersAreSeen
  <2>4. ~faults' => \A p \in Nat : Seen(key, hslots, loop, p)' => Answered(p)'
    BY <1>5, <2>1, <2>2, <2>3
  <2>5. AnswersAreSeen'  BY <1>6, <2>1, <2>4 DEF AnswersAreSeen
  <2> QED  BY <1>2, <1>3, <1>4, <2>5 DEF ReadInv
<1> QED  BY <1>7, <1>8

\* A record found comes after those found before.
LEMMA ProbeFinds ==
  ASSUME MakeInv, ReadInv, busy, loop < hslots, Advance, UNCHANGED <<key, cdbvars>>,
         NEW i \in 1 .. Len(records), records[i].key = key,
         SlotAt(key, loop, hslots) = Entry(records[i]), Found(records[i].p)
  PROVE  ReadInv'
<1>1. key # None /\ hslots = Len(TableOf(key)) /\ hslots > 0  BY DEF ReadInv, OnItsTable
<1>2. PICK k \in Key, h \in Nat : k = key /\ h = Hash[k]
  <2>1. key \in Key  BY <1>1 DEF ReadInv, ReadTypes
  <2> QED  BY <2>1, CdbMakeAssumption
<1>3. PICK n \in Nat, l \in Nat : n = hslots /\ l = loop /\ n > 0 /\ l \in 0 .. n - 1
  <2>1. Len(records) \in Nat  BY LenProperties DEF MakeInv, MakeTypes
  <2>2. hslots \in Nat /\ loop \in Nat  BY <2>1 DEF ReadInv, ReadTypes
  <2> QED  BY <1>1, <2>2
<1>4. /\ loop' = loop + 1 /\ hslots' = hslots /\ loop' \in 0 .. hslots' /\ OnItsTable'
      /\ \A p : Seen(key, hslots, loop, p)' <=>
           \/ Seen(key, hslots, loop, p)
           \/ \E j \in 1 .. Len(records) : /\ records[j].key = key /\ records[j].p = p
                                           /\ SlotAt(key, loop, hslots) = Entry(records[j])
  BY AdvanceIs
<1>5. \A j \in 1 .. Len(records) : /\ records[j] \in RecordSet /\ records[j].p \in Nat /\ records[j].p > 0
                                   /\ Entry(records[j]).p = records[j].p /\ Entry(records[j]).h = Hash[records[j].key]
  <2> SUFFICES ASSUME NEW j \in 1 .. Len(records)
               PROVE  /\ records[j] \in RecordSet /\ records[j].p \in Nat /\ records[j].p > 0
                      /\ Entry(records[j]).p = records[j].p /\ Entry(records[j]).h = Hash[records[j].key]
    OBVIOUS
  <2>1. records[j] \in RecordSet  BY ElementOfSeq DEF MakeInv, MakeTypes
  <2>2. records[j].p \in Nat  BY <2>1 DEF RecordSet
  <2>3. records[j].p > 0
    <3>1. records[j].p >= HeaderSize  BY DEF MakeInv, MakeTypes, Placed
    <3> QED  BY <2>2, <3>1, HeaderSizeIs
  <2> QED  BY <2>1, <2>2, <2>3, EntryIs
<1>6. PICK p \in Nat : p = records[i].p  BY <1>5
<1>7. answers \in Seq(Nat) /\ Increasing(answers)  BY DEF ReadInv, ReadTypes
<1>8. PICK m \in Nat : m = Len(answers)  BY <1>7, LenProperties
<1>9. /\ busy' = FALSE /\ res' = 1 /\ faults' = faults /\ answers' = Append(answers, p)
  BY <1>6 DEF Found, FindReturns
<1>10. PICK s \in Seq(Nat) : s = answers' /\ Len(s) = m + 1 /\ s[m + 1] = p /\ \A j \in 1 .. m : s[j] = answers[j]
  <2>1. answers \in Seq(Nat) /\ Len(answers) = m  BY <1>7, <1>8
  <2>2. PICK s \in Seq(Nat) : s = Append(answers, p)  BY <2>1, AppendProperties
  <2>3. Len(s) = m + 1 /\ s[m + 1] = p  BY <2>1, <2>2, AppendProperties
  <2>4. \A j \in 1 .. m : s[j] = answers[j]  BY <2>1, <2>2, AppendProperties
  <2>5. s = answers'  BY <1>9, <2>2
  <2> QED  BY <2>3, <2>4, <2>5
<1>11. ReadTypes'  BY <1>4, <1>9, <1>10 DEF ReadInv, ReadTypes, cdbvars
<1>12. \A j \in 1 .. m : answers[j] \in Nat /\ answers[j] < p
  <2> SUFFICES ASSUME NEW j \in 1 .. m PROVE answers[j] \in Nat /\ answers[j] < p  OBVIOUS
  <2>1. Seen(key, hslots, loop, answers[j])
    <3>1. answers[j] \in Nat /\ Answered(answers[j])  BY <1>7, <1>8, ElementOfSeq DEF Answered
    <3> QED  BY <1>1, <3>1 DEF ReadInv, AnswersAreSeen
  <2>2. PICK r \in 1 .. Len(records), d \in 0 .. l - 1 :
          records[r].key = k /\ records[r].p = answers[j] /\ SlotAt(k, d, n) = Entry(records[r])
    BY <1>2, <1>3, <2>1 DEF Seen
  <2>3. InOrder(TableOf(k), n)
    <3>1. TableHolds(TableOf(k), records, Table(Hash[k]))  BY TableOfIs DEF MakeInv
    <3> QED  BY <1>1, <1>2, <1>3, <3>1 DEF TableHolds
  <2>4. d \in 0 .. n - 1 /\ l \in 0 .. n - 1 /\ d < l  BY <1>3
  <2>5. SlotAt(k, d, n).p = answers[j] /\ SlotAt(k, d, n).h = h /\ SlotAt(k, d, n).p > 0
    BY <1>2, <1>5, <2>2
  <2>6. SlotAt(k, l, n).p = p /\ SlotAt(k, l, n).h = h /\ SlotAt(k, l, n).p > 0
    BY <1>2, <1>3, <1>5, <1>6
  <2>7. SlotAt(k, d, n).p < SlotAt(k, l, n).p  BY <1>2, <2>3, <2>4, <2>5, <2>6 DEF InOrder, SlotAt
  <2>8. answers[j] \in Nat  BY <1>5, <2>2
  <2> QED  BY <2>5, <2>6, <2>7, <2>8
<1>13. Increasing(s)
  <2> SUFFICES ASSUME NEW a \in 1 .. m + 1, NEW b \in 1 .. m + 1, a < b PROVE s[a] < s[b]
    BY <1>10 DEF Increasing
  <2>1. a \in 1 .. m  OBVIOUS
  <2>2. CASE b = m + 1  BY <1>10, <1>12, <2>1, <2>2
  <2>3. CASE b \in 1 .. m  BY <1>7, <1>8, <1>10, <2>1, <2>3 DEF Increasing
  <2> QED  BY <2>2, <2>3
<1>14. Seen(key, hslots, loop, p)'  BY <1>4, <1>6
<1>15. \A j \in 1 .. m + 1 : Seen(key, hslots, loop, s[j])'
  <2> SUFFICES ASSUME NEW j \in 1 .. m + 1 PROVE Seen(key, hslots, loop, s[j])'  OBVIOUS
  <2>1. CASE j = m + 1  BY <1>10, <1>14, <2>1
  <2>2. CASE j \in 1 .. m
    <3>1. answers[j] \in Nat /\ Answered(answers[j])  BY <1>7, <1>8, <2>2, ElementOfSeq DEF Answered
    <3>2. Seen(key, hslots, loop, answers[j])  BY <1>1, <3>1 DEF ReadInv, AnswersAreSeen
    <3> QED  BY <1>4, <1>10, <2>2, <3>2
  <2> QED  BY <2>1, <2>2
<1>16. ~faults' => \A q \in Nat : Seen(key, hslots, loop, q)' => \E j \in 1 .. m + 1 : s[j] = q
  <2> SUFFICES ASSUME ~faults, NEW q \in Nat, Seen(key, hslots, loop, q)'
               PROVE  \E j \in 1 .. m + 1 : s[j] = q
    BY <1>9
  <2>1. CASE Seen(key, hslots, loop, q)
    <3>1. Answered(q)  BY <1>1, <2>1 DEF ReadInv, AnswersAreSeen
    <3>2. PICK j \in 1 .. m : answers[j] = q  BY <1>8, <3>1 DEF Answered
    <3>3. j \in 1 .. m + 1 /\ s[j] = q  BY <1>10, <3>2
    <3> QED  BY <3>3
  <2>2. CASE ~Seen(key, hslots, loop, q)
    <3>1. PICK j \in 1 .. Len(records) : records[j].p = q /\ SlotAt(key, loop, hslots) = Entry(records[j])
      BY <1>4, <2>2
    <3>2. q = p
      <4>1. Entry(records[i]).p = p /\ Entry(records[j]).p = q  BY <1>5, <1>6, <3>1
      <4>2. Entry(records[i]) = Entry(records[j])  BY <3>1
      <4> QED  BY <4>1, <4>2
    <3>3. m + 1 \in 1 .. m + 1  OBVIOUS
    <3> QED  BY <1>10, <3>2, <3>3
  <2> QED  BY <2>1, <2>2
<1>17. AnswersAreSeen'
  <2>1. \A q : Answered(q)' <=> \E j \in 1 .. m + 1 : s[j] = q  BY <1>10 DEF Answered
  <2>2. \A q \in Nat : Answered(q)' => Seen(key, hslots, loop, q)'  BY <1>15, <2>1
  <2>3. ~faults' => \A q \in Nat : Seen(key, hslots, loop, q)' => Answered(q)'  BY <1>16, <2>1
  <2> QED  BY <1>9, <2>2, <2>3 DEF AnswersAreSeen
<1> QED  BY <1>4, <1>10, <1>11, <1>13, <1>17 DEF ReadInv

LEMMA ProbeRead ==
  ASSUME MakeInv, ReadInv, Probe
  PROVE  ReadInv'
<1>1. busy /\ UNCHANGED <<key, cdbvars>>  BY DEF Probe
<1>2. key # None /\ khash = Hash[key] /\ RecordsLie(records, file, <<>>, 0)  BY <1>1 DEF ReadInv, OnItsTable
<1>3. key \in Key  BY <1>2 DEF ReadInv, ReadTypes
<1>4. loop < hslots =>
        /\ Slot = SlotAt(key, loop, hslots)
        /\ Slot.p > 0 => \E i \in 1 .. Len(records) : Slot = Entry(records[i])
  BY <1>1, SlotIsRead
<1>5. \A i \in 1 .. Len(records) : /\ records[i] \in RecordSet /\ records[i].p \in Nat
                                   /\ Entry(records[i]).p = records[i].p /\ Entry(records[i]).h = Hash[records[i].key]
  <2> SUFFICES ASSUME NEW j \in 1 .. Len(records)
               PROVE  /\ records[j] \in RecordSet /\ records[j].p \in Nat
                      /\ Entry(records[j]).p = records[j].p /\ Entry(records[j]).h = Hash[records[j].key]
    OBVIOUS
  <2>1. records[j] \in RecordSet  BY ElementOfSeq DEF MakeInv, MakeTypes
  <2>2. records[j].p \in Nat  BY <2>1 DEF RecordSet
  <2> QED  BY <2>1, <2>2, EntryIs
<1>6. CASE loop < hslots /\ Error /\ UNCHANGED seek
  BY <1>1, <1>6, ProbeEnds
<1>7. CASE (loop = hslots \/ (SlotRead /\ Slot.p = 0)) /\ Over /\ UNCHANGED seek
  <2>1. loop = hslots \/ (loop < hslots /\ SlotAt(key, loop, hslots).p = 0)
    BY <1>4, <1>7 DEF SlotRead
  <2>2. \A p : Has(key, p) => Seen(key, hslots, loop, p)  BY <1>1, <2>1, AllSeen
  <2> QED  BY <1>1, <1>7, <2>2, ProbeEnds
<1>8. CASE SlotRead /\ Slot.p > 0 /\ Slot.h # khash /\ Advance /\ Pass
  <2>1. loop < hslots  BY <1>8 DEF SlotRead
  <2>2. ~\E i \in 1 .. Len(records) : records[i].key = key /\ SlotAt(key, loop, hslots) = Entry(records[i])
    BY <1>2, <1>4, <1>5, <1>8, <2>1
  <2> QED  BY <1>1, <1>8, <2>1, <2>2, ProbePasses
<1>9. CASE /\ SlotRead /\ Slot.p > 0 /\ Slot.h = khash /\ Advance
           /\ \/ Error
              \/ Same(Slot.p) /\ Found(Slot.p)
              \/ ~Same(Slot.p) /\ Pass
  <2>1. loop < hslots /\ Advance  BY <1>9 DEF SlotRead
  <2>2. PICK i \in 1 .. Len(records) : SlotAt(key, loop, hslots) = Entry(records[i]) /\ Slot.p = records[i].p
    BY <1>4, <1>5, <1>9, <2>1
  <2>3. Same(records[i].p) <=> records[i].key = key  BY <1>2, <1>3, SameIs
  <2>4. CASE Error  BY <1>1, <2>1, <2>4, ProbePasses
  <2>5. CASE Same(Slot.p) /\ Found(Slot.p)
    <3>1. records[i].key = key /\ Found(records[i].p)  BY <2>2, <2>3, <2>5
    <3> QED  BY <1>1, <2>1, <2>2, <3>1, ProbeFinds
  <2>6. CASE ~Same(Slot.p) /\ Pass
    <3>1. records[i].key # key  BY <2>2, <2>3, <2>6
    <3>2. ASSUME NEW j \in 1 .. Len(records), records[j].key = key,
                 SlotAt(key, loop, hslots) = Entry(records[j])
          PROVE  FALSE
      <4>1. records[j].p = records[i].p
        <5>1. Entry(records[i]).p = records[i].p /\ Entry(records[j]).p = records[j].p  BY <1>5
        <5>2. Entry(records[i]) = Entry(records[j])  BY <2>2, <3>2
        <5> QED  BY <5>1, <5>2
      <4>2. PICK a \in Nat, b \in Nat : a = i /\ b = j
        <5>1. Len(records) \in Nat  BY LenProperties DEF MakeInv, MakeTypes
        <5> QED  BY <5>1
      <4>3. i < j => records[i].p < records[j].p  BY DEF MakeInv, MakeTypes, Placed
      <4>4. j < i => records[j].p < records[i].p  BY DEF MakeInv, MakeTypes, Placed
      <4>5. i = j  BY <1>5, <4>1, <4>2, <4>3, <4>4
      <4> QED  BY <3>1, <3>2, <4>5
    <3> QED  BY <1>1, <2>1, <2>6, <3>2, ProbePasses
  <2> QED  BY <1>9, <2>4, <2>5, <2>6
<1> QED  BY <1>6, <1>7, <1>8, <1>9 DEF Probe

LEMMA NextRead ==
  ASSUME MakeInv, MakeInv', ReadInv, [CdbNext]_vars
  PROVE  ReadInv'
<1>1. CASE Make  BY <1>1, MakeRead DEF MakeInv
<1>2. ASSUME NEW k \in Key, FindStart(k) PROVE ReadInv'  BY <1>2, FindStartRead
<1>3. CASE FindTable  BY <1>3, FindTableRead
<1>4. CASE FindOn  BY <1>4, FindOnRead
<1>5. CASE Probe  BY <1>5, ProbeRead
<1>6. CASE UNCHANGED vars
  BY <1>6 DEF vars, cdbvars, rvars, seek, ReadInv, ReadTypes, OnItsTable, Increasing, AnswersAreSeen,
              Seen, Has, SlotAt, TableOf, Answered
<1> QED  BY <1>1, <1>2, <1>3, <1>4, <1>5, <1>6 DEF CdbNext

LEMMA InitRead ==
  ASSUME CdbInit
  PROVE  ReadInv
<1>1. /\ key = None /\ busy = FALSE /\ res = 0 /\ answers = <<>> /\ faults = FALSE
      /\ loop = 0 /\ hslots = 0 /\ records = <<>>
  BY DEF CdbInit, MakeInit
<1>2. <<>> \in Seq(Nat) /\ Len(<<>>) = 0 /\ \A i \in 1 .. 0 : FALSE  BY EmptySeq
<1>3. ReadTypes
  <2>1. hslots \in 0 .. 2 * Len(records) /\ loop \in 0 .. hslots
    <3>1. Len(records) = 0  BY <1>1, <1>2
    <3>2. 0 \in 0 .. 2 * 0 /\ 0 \in 0 .. 0  OBVIOUS
    <3> QED  BY <1>1, <3>1, <3>2
  <2>2. res \in {-1, 0, 1} /\ answers \in Seq(Nat)  BY <1>1, <1>2
  <2> QED  BY <1>1, <2>1, <2>2 DEF ReadTypes
<1>4. OnItsTable /\ AnswersAreSeen  BY <1>1 DEF OnItsTable, AnswersAreSeen
<1>5. Increasing(answers)  BY <1>1, <1>2 DEF Increasing
<1> QED  BY <1>3, <1>4, <1>5 DEF ReadInv

-----------------------------------------------------------------------------
(***************************************************************************)
(* The records under a key                                                 *)
(***************************************************************************)
\* g is the turns of the function in Under
UnderBy(g, k) ==
  /\ g \in [0 .. Len(records) -> Seq(Nat)] /\ g[0] = <<>>
  /\ \A i \in 1 .. Len(records) :
       g[i] = IF records[i].key = k THEN Append(g[i - 1], records[i].p) ELSE g[i - 1]

LEMMA UnderTurns ==
  ASSUME records \in Seq(RecordSet), NEW k
  PROVE  \E g : UnderBy(g, k) /\ Under(k) = g[Len(records)]
<1> DEFINE n == Len(records)
           S == Seq(Nat)
           next(s, i) == IF records[i].key = k THEN Append(s, records[i].p) ELSE s
           turn == [a \in S \X (1 .. n) |-> next(a[1], a[2])]
           Is(f) == f = [i \in 0 .. n |-> IF i = 0 THEN <<>>
                           ELSE IF records[i].key = k THEN Append(f[i - 1], records[i].p) ELSE f[i - 1]]
           f == CHOOSE f : Is(f)
<1>1. n \in Nat /\ \A i \in 1 .. n : records[i].p \in Nat
  <2>1. n \in Nat /\ \A i \in 1 .. n : records[i] \in RecordSet  BY LenProperties, ElementOfSeq
  <2> QED  BY <2>1 DEF RecordSet
<1>2. \A s \in S : \A i \in 1 .. n : next(s, i) \in S
  <2> SUFFICES ASSUME NEW s \in S, NEW i \in 1 .. n PROVE next(s, i) \in S  OBVIOUS
  <2>1. Append(s, records[i].p) \in Seq(Nat)  BY <1>1, AppendProperties
  <2> QED  BY <2>1
<1>3. <<>> \in S  BY EmptySeq
<1>4. turn \in [S \X (1 .. n) -> S]  BY <1>2
<1>5. PICK g : Turns(g, n, <<>>, turn, S)
  <2> HIDE DEF turn, n, S
  <2> QED  BY <1>1, <1>3, <1>4, TurnsExist
<1>6. g \in [0 .. n -> S] /\ g[0] = <<>>  BY <1>5 DEF Turns
<1>7. ASSUME NEW i \in 1 .. n PROVE g[i] = next(g[i - 1], i)
  <2>1. g[i - 1] \in S
    <3>1. i - 1 \in 0 .. n  BY <1>1
    <3> HIDE DEF n, S
    <3> QED  BY <1>6, <3>1
  <2>2. <<g[i - 1], i>> \in S \X (1 .. n)  BY <2>1
  <2>3. g[i] = turn[<<g[i - 1], i>>]  BY <1>5 DEF Turns
  <2>4. turn[<<g[i - 1], i>>] = next(g[i - 1], i)
    <3> HIDE DEF next, S, n
    <3> QED  BY <2>2
  <2> QED  BY <2>3, <2>4
<1>8. Is(g)
  <2>1. \A i \in 0 .. n : g[i] = IF i = 0 THEN <<>>
                           ELSE IF records[i].key = k THEN Append(g[i - 1], records[i].p) ELSE g[i - 1]
    <3>1. \A i \in 0 .. n : i # 0 => i \in 1 .. n  BY <1>1
    <3> HIDE DEF n
    <3> QED  BY <1>6, <1>7, <3>1
  <2> HIDE DEF n
  <2> QED  BY <1>6, <2>1
<1>9. PICK e : e = f /\ Is(e)
  <2> HIDE DEF Is
  <2> QED  BY <1>8
<1>10. \A i \in 0 .. n : e[i] = IF i = 0 THEN <<>>
                           ELSE IF records[i].key = k THEN Append(e[i - 1], records[i].p) ELSE e[i - 1]
  <2> HIDE DEF n
  <2> QED  BY <1>9
<1>11. e[0] = g[0]
  <2>1. 0 \in 0 .. n  BY <1>1
  <2> HIDE DEF n
  <2> QED  BY <1>6, <1>10, <2>1
<1>12. ASSUME NEW i \in 1 .. n, e[i - 1] = g[i - 1] PROVE e[i] = g[i]
  <2>1. i \in 0 .. n /\ i # 0  BY <1>1
  <2> HIDE DEF n
  <2> QED  BY <1>7, <1>10, <1>12, <2>1
<1>13. \A i \in 0 .. n : e[i] = g[i]
  <2> HIDE DEF n
  <2>1. Alike(e, g, n)  BY <1>11, <1>12 DEF Alike
  <2> QED  BY <1>1, <2>1, SameTurns
<1>14. Under(k) = f[n]  BY DEF Under
<1>15. n \in 0 .. n  BY <1>1
<1>16. Under(k) = g[n]
  <2>1. e[n] = g[n]  BY <1>13, <1>15
  <2> HIDE DEF f, Is, n
  <2> QED  BY <1>9, <1>14, <2>1
<1>17. UnderBy(g, k)
  <2>1. \A i \in 1 .. n : g[i] = IF records[i].key = k THEN Append(g[i - 1], records[i].p) ELSE g[i - 1]
    BY <1>7
  <2> QED  BY <1>6, <2>1 DEF UnderBy
<1> QED  BY <1>16, <1>17

Occurs(s, p) == \E j \in 1 .. Len(s) : s[j] = p

\* s is increasing and has the places of the first n records with the key k
PlacesOf(s, k, n) ==
  /\ s \in Seq(Nat) /\ Increasing(s)
  /\ \A p \in Nat : Occurs(s, p) <=> \E i \in 1 .. n : records[i].key = k /\ records[i].p = p

LEMMA PlacesStep ==
  ASSUME records \in Seq(RecordSet), Placed(records), NEW k, NEW g, UnderBy(g, k),
         NEW n \in 1 .. Len(records), PlacesOf(g[n - 1], k, n - 1)
  PROVE  PlacesOf(g[n], k, n)
<1>1. PICK l \in Nat, m \in Nat : l = Len(records) /\ n = m + 1 /\ n - 1 = m /\ m < l /\ n \in 1 .. l
  <2>1. Len(records) \in Nat  BY LenProperties
  <2>2. n - 1 \in Nat /\ n = n - 1 + 1 /\ n - 1 < Len(records)  BY <2>1
  <2> QED  BY <2>1, <2>2
<1>2. PICK p \in Nat : p = records[n].p
  <2>1. records[n] \in RecordSet  BY ElementOfSeq
  <2> QED  BY <2>1 DEF RecordSet
<1>3. PICK s \in Seq(Nat) : s = g[m] /\ PlacesOf(s, k, m)  BY <1>1 DEF PlacesOf
<1>4. g[n] = IF records[n].key = k THEN Append(s, p) ELSE s  BY <1>1, <1>2, <1>3 DEF UnderBy
<1>5. \A q \in Nat : Occurs(s, q) <=> \E i \in 1 .. m : records[i].key = k /\ records[i].p = q
  BY <1>3 DEF PlacesOf
<1>6. \A i : i \in 1 .. n <=> i \in 1 .. m \/ i = n  BY <1>1
<1>7. CASE records[n].key # k
  <2>1. \A q \in Nat : Occurs(s, q) <=> \E i \in 1 .. n : records[i].key = k /\ records[i].p = q
    BY <1>5, <1>6, <1>7
  <2> QED  BY <1>3, <1>4, <1>7, <2>1 DEF PlacesOf
<1>8. CASE records[n].key = k
  <2>1. PICK a \in Nat : a = Len(s)  BY LenProperties
  <2>2. PICK t \in Seq(Nat) : t = Append(s, p) /\ Len(t) = a + 1 /\ t[a + 1] = p /\ \A j \in 1 .. a : t[j] = s[j]
    <3>1. Append(s, p) \in Seq(Nat)  BY AppendProperties
    <3>2. PICK t \in Seq(Nat) : t = Append(s, p)  BY <3>1
    <3>3. Len(t) = a + 1 /\ t[a + 1] = p /\ \A j \in 1 .. a : t[j] = s[j]
      BY <2>1, <3>2, AppendProperties
    <3> QED  BY <3>2, <3>3
  <2>3. \A j : j \in 1 .. a + 1 <=> j \in 1 .. a \/ j = a + 1  OBVIOUS
  <2>4. \A q : Occurs(t, q) <=> Occurs(s, q) \/ q = p
    <3> SUFFICES ASSUME NEW q PROVE Occurs(t, q) <=> Occurs(s, q) \/ q = p  OBVIOUS
    <3>1. Occurs(t, q) <=> \E j \in 1 .. a + 1 : t[j] = q  BY <2>2 DEF Occurs
    <3>2. Occurs(s, q) <=> \E j \in 1 .. a : t[j] = q  BY <2>1, <2>2 DEF Occurs
    <3> QED  BY <2>2, <2>3, <3>1, <3>2
  <2>5. \A q \in Nat : Occurs(t, q) <=> \E i \in 1 .. n : records[i].key = k /\ records[i].p = q
    BY <1>2, <1>5, <1>6, <1>8, <2>4
  <2>6. \A j \in 1 .. a : s[j] \in Nat /\ s[j] < p
    <3> SUFFICES ASSUME NEW j \in 1 .. a PROVE s[j] \in Nat /\ s[j] < p  OBVIOUS
    <3>1. s[j] \in Nat /\ Occurs(s, s[j])  BY <2>1, ElementOfSeq DEF Occurs
    <3>2. PICK i \in 1 .. m : records[i].p = s[j]  BY <1>5, <3>1
    <3>3. i \in 1 .. l /\ i < n  BY <1>1
    <3>4. records[i].p < records[n].p  BY <1>1, <3>3 DEF Placed
    <3> QED  BY <1>2, <3>1, <3>2, <3>4
  <2>7. Increasing(t)
    <3> SUFFICES ASSUME NEW i \in 1 .. a + 1, NEW j \in 1 .. a + 1, i < j PROVE t[i] < t[j]
      BY <2>2 DEF Increasing
    <3>1. i \in 1 .. a  OBVIOUS
    <3>2. CASE j = a + 1  BY <2>2, <2>6, <3>1, <3>2
    <3>3. CASE j \in 1 .. a  BY <1>3, <2>1, <2>2, <3>1, <3>3 DEF PlacesOf, Increasing
    <3> QED  BY <2>3, <3>2, <3>3
  <2> QED  BY <1>4, <1>8, <2>2, <2>5, <2>7 DEF PlacesOf
<1> QED  BY <1>7, <1>8

\* Under has the places of all records of the key, in their order.
LEMMA UnderIs ==
  ASSUME records \in Seq(RecordSet), Placed(records), NEW k
  PROVE  /\ Under(k) \in Seq(Nat) /\ Increasing(Under(k))
         /\ \A p \in Nat : Occurs(Under(k), p) <=> Has(k, p)
<1>1. PICK n \in Nat : n = Len(records)  BY LenProperties
<1>2. PICK g : UnderBy(g, k) /\ Under(k) = g[n]  BY <1>1, UnderTurns
<1> DEFINE T == {i \in 0 .. n : PlacesOf(g[i], k, i)}
<1>3. 0 \in T
  <2>1. g[0] = <<>> /\ <<>> \in Seq(Nat) /\ Len(<<>>) = 0 /\ \A i \in 1 .. 0 : FALSE
    BY <1>2, EmptySeq DEF UnderBy
  <2>2. Increasing(<<>>) /\ \A p : ~Occurs(<<>>, p)  BY <2>1 DEF Increasing, Occurs
  <2>3. PlacesOf(g[0], k, 0)  BY <2>1, <2>2 DEF PlacesOf
  <2>4. 0 \in 0 .. n  BY <1>1
  <2> QED  BY <2>3, <2>4
<1>4. ASSUME NEW i \in 1 .. n, i - 1 \in T PROVE i \in T
  <2>1. PlacesOf(g[i], k, i)  BY <1>1, <1>2, <1>4, PlacesStep
  <2>2. i \in 0 .. n  BY <1>1
  <2> QED  BY <2>1, <2>2
<1>5. n \in T
  <2> HIDE DEF T
  <2>1. \A i \in 0 .. n : i \in T  BY <1>1, <1>3, <1>4, Induct
  <2>2. n \in 0 .. n  BY <1>1
  <2> QED  BY <2>1, <2>2
<1>6. PlacesOf(Under(k), k, n)  BY <1>2, <1>5
<1> QED  BY <1>1, <1>6 DEF PlacesOf, Has

\* Of two increasing sequences the one that has all of the other's elements up to its last
\* and no more is its beginning.
LEMMA BeginningOf ==
  ASSUME NEW a \in Seq(Nat), NEW u \in Seq(Nat), Increasing(a), Increasing(u),
         \A p \in Nat : Occurs(a, p) => Occurs(u, p),
         \A p \in Nat : \A j \in 1 .. Len(a) : Occurs(u, p) /\ p < a[j] => Occurs(a, p)
  PROVE  /\ Len(a) <= Len(u) /\ a = SubSeq(u, 1, Len(a))
         /\ (\A p \in Nat : Occurs(u, p) => Occurs(a, p)) => a = u
<1>1. PICK n \in Nat, m \in Nat : n = Len(a) /\ m = Len(u)  BY LenProperties
<1>2. (\A i \in 1 .. n : a[i] \in Nat) /\ \A i \in 1 .. m : u[i] \in Nat  BY <1>1, ElementOfSeq
<1>3. /\ \A i, j \in 1 .. n : i < j => a[i] < a[j]
      /\ \A i, j \in 1 .. m : i < j => u[i] < u[j]
  BY <1>1 DEF Increasing
<1> DEFINE T == {i \in 0 .. n : i <= m /\ \A j \in 1 .. i : a[j] = u[j]}
<1>4. 0 \in T
  <2>1. 0 \in 0 .. n /\ 0 <= m /\ \A j \in 1 .. 0 : FALSE  BY <1>1
  <2> QED  BY <2>1
<1>5. ASSUME NEW i \in 1 .. n, i - 1 \in T PROVE i \in T
  <2>1. i - 1 <= m /\ \A j \in 1 .. i - 1 : a[j] = u[j]  BY <1>5
  <2>2. Occurs(u, a[i])
    <3>1. Occurs(a, a[i]) /\ a[i] \in Nat  BY <1>1, <1>2 DEF Occurs
    <3> QED  BY <3>1
  <2>3. PICK k \in 1 .. m : u[k] = a[i]  BY <1>1, <2>2 DEF Occurs
  <2>4. k >= i
    <3> SUFFICES ASSUME k < i PROVE FALSE  BY <1>1
    <3>1. k \in 1 .. i - 1 /\ k \in 1 .. n  BY <1>1
    <3>2. a[k] = u[k] /\ a[k] < a[i]  BY <1>3, <2>1, <3>1
    <3> QED  BY <1>2, <2>3, <3>2
  <2>5. i \in 1 .. m  BY <1>1, <2>3, <2>4
  <2>6. k = i
    <3> SUFFICES ASSUME k > i PROVE FALSE  BY <1>1, <2>4
    <3>1. u[i] < a[i] /\ u[i] \in Nat  BY <1>2, <1>3, <2>3, <2>5
    <3>2. Occurs(u, u[i])  BY <1>1, <2>5 DEF Occurs
    <3>3. Occurs(a, u[i])  BY <1>1, <3>1, <3>2
    <3>4. PICK j \in 1 .. n : a[j] = u[i]  BY <1>1, <3>3 DEF Occurs
    <3>5. j < i
      <4> SUFFICES ASSUME j >= i PROVE FALSE  BY <1>1
      <4>1. j = i \/ i < j  BY <1>1
      <4>2. a[i] <= a[j]  BY <1>2, <1>3, <4>1
      <4> QED  BY <1>2, <3>1, <3>4, <4>2
    <3>6. j \in 1 .. i - 1 /\ j \in 1 .. m  BY <1>1, <2>5, <3>5
    <3>7. a[j] = u[j] /\ u[j] < u[i]  BY <1>3, <2>1, <2>5, <3>5, <3>6
    <3> QED  BY <1>2, <3>1, <3>4, <3>7
  <2>7. \A j \in 1 .. i : a[j] = u[j]
    <3>1. \A j \in 1 .. i : j \in 1 .. i - 1 \/ j = i  BY <1>1
    <3> QED  BY <2>1, <2>3, <2>6, <3>1
  <2>8. i \in 0 .. n /\ i <= m  BY <1>1, <2>5
  <2> QED  BY <2>7, <2>8
<1>6. n <= m /\ \A j \in 1 .. n : a[j] = u[j]
  <2>1. n \in T
    <3> HIDE DEF T
    <3>1. \A i \in 0 .. n : i \in T  BY <1>1, <1>4, <1>5, Induct
    <3>2. n \in 0 .. n  BY <1>1
    <3> QED  BY <3>1, <3>2
  <2> QED  BY <2>1
<1>7. a = SubSeq(u, 1, Len(a))
  <2>1. \A j \in 1 .. n : j \in 1 .. m /\ 1 + j - 1 = j  BY <1>1, <1>6
  <2>2. \A j \in 1 .. n : u[j] \in Nat  BY <1>2, <2>1
  <2>3. PICK w : w = SubSeq(u, 1, n)  OBVIOUS
  <2>4. w \in Seq(Nat) /\ Len(w) = (IF 1 <= n THEN n - 1 + 1 ELSE 0) /\ \A j \in 1 .. n - 1 + 1 : w[j] = u[1 + j - 1]
    BY <2>2, <2>3, SubSeqProperties
  <2>5. Len(w) = n /\ n - 1 + 1 = n  BY <1>1, <2>4
  <2>6. \A j \in 1 .. n : w[j] = a[j]  BY <1>6, <2>1, <2>4, <2>5
  <2> QED  BY <1>1, <2>3, <2>4, <2>5, <2>6, SeqEqual
<1>8. ASSUME \A p \in Nat : Occurs(u, p) => Occurs(a, p) PROVE a = u
  <2>1. n = m
    <3> SUFFICES ASSUME n < m PROVE FALSE  BY <1>1, <1>6
    <3>1. m \in 1 .. m  BY <1>1
    <3>2. Occurs(u, u[m]) /\ u[m] \in Nat  BY <1>1, <1>2, <3>1 DEF Occurs
    <3>3. Occurs(a, u[m])  BY <1>8, <3>2
    <3>4. PICK j \in 1 .. n : a[j] = u[m]  BY <1>1, <3>3 DEF Occurs
    <3>5. j \in 1 .. m /\ j < m /\ a[j] = u[j]  BY <1>1, <1>6
    <3>6. u[j] < u[m]  BY <1>3, <3>1, <3>5
    <3> QED  BY <1>2, <3>2, <3>4, <3>5, <3>6
  <2> QED  BY <1>1, <1>6, <2>1, SeqEqual
<1> QED  BY <1>1, <1>6, <1>7, <1>8

\* While no call fails a search has found all records of its key before the last it found.
LEMMA FoundAllBefore ==
  ASSUME MakeInv, ReadInv, key # None, ~faults,
         NEW p \in Nat, Has(key, p), NEW j \in 1 .. Len(answers), p < answers[j]
  PROVE  Answered(p)
<1>1. PICK k \in Key, h \in Nat : k = key /\ h = Hash[k]
  <2>1. key \in Key  BY DEF ReadInv, ReadTypes
  <2> QED  BY <2>1, CdbMakeAssumption
<1>2. PICK q \in Nat : q = answers[j] /\ p < q /\ Answered(q)
  <2>1. answers[j] \in Nat  BY ElementOfSeq DEF ReadInv, ReadTypes
  <2> QED  BY <2>1 DEF Answered
<1>3. PICK n \in Nat, l \in Nat : n = hslots /\ l = loop /\ l \in 0 .. n
  <2>1. Len(records) \in Nat  BY LenProperties DEF MakeInv, MakeTypes
  <2>2. hslots \in Nat /\ loop \in Nat /\ loop \in 0 .. hslots  BY <2>1 DEF ReadInv, ReadTypes
  <2> QED  BY <2>2
<1>4. Seen(k, n, l, q)  BY <1>1, <1>2, <1>3 DEF ReadInv, AnswersAreSeen
<1>5. PICK i \in 1 .. Len(records), d \in 0 .. l - 1 :
        records[i].key = k /\ records[i].p = q /\ SlotAt(k, d, n) = Entry(records[i])
  BY <1>4 DEF Seen
<1>6. l > 0 /\ n = Len(TableOf(k))  BY <1>1, <1>3, <1>5 DEF ReadInv, OnItsTable
<1>7. \A r \in 1 .. Len(records) : /\ records[r].p \in Nat /\ records[r].p > 0 /\ Entry(records[r]) \in Entries
                                   /\ Entry(records[r]).p = records[r].p /\ Entry(records[r]).h = Hash[records[r].key]
  <2> SUFFICES ASSUME NEW r \in 1 .. Len(records)
               PROVE  /\ records[r].p \in Nat /\ records[r].p > 0 /\ Entry(records[r]) \in Entries
                      /\ Entry(records[r]).p = records[r].p /\ Entry(records[r]).h = Hash[records[r].key]
    OBVIOUS
  <2>1. records[r] \in RecordSet  BY ElementOfSeq DEF MakeInv, MakeTypes
  <2>2. records[r].p \in Nat  BY <2>1 DEF RecordSet
  <2>3. records[r].p > 0
    <3>1. records[r].p >= HeaderSize  BY DEF MakeInv, MakeTypes, Placed
    <3> QED  BY <2>2, <3>1, HeaderSizeIs
  <2> QED  BY <2>1, <2>2, <2>3, EntryIs
<1>8. PICK r \in 1 .. Len(records) : records[r].key = k /\ records[r].p = p  BY <1>1 DEF Has
<1>9. TableHolds(TableOf(k), records, Table(Hash[k]))  BY TableOfIs DEF MakeInv
<1>10. PICK c \in 0 .. n - 1 : SlotAt(k, c, n) = Entry(records[r])
  <2>1. PICK c \in 0 .. n - 1 : Sits(TableOf(k), n, Entry(records[r]), c)
    BY <1>6, <1>8, <1>9 DEF TableHolds
  <2> QED  BY <1>7, <1>8, <2>1 DEF Sits, SlotAt
<1>11. c < l
  <2> SUFFICES ASSUME c >= l PROVE FALSE  BY <1>3
  <2>1. d \in 0 .. n - 1 /\ d < c  BY <1>3
  <2>2. SlotAt(k, d, n).p = q /\ SlotAt(k, d, n).h = h /\ SlotAt(k, d, n).p > 0  BY <1>1, <1>5, <1>7
  <2>3. SlotAt(k, c, n).p = p /\ SlotAt(k, c, n).h = h /\ SlotAt(k, c, n).p > 0  BY <1>1, <1>7, <1>8, <1>10
  <2>4. InOrder(TableOf(k), n)  BY <1>6, <1>9 DEF TableHolds
  <2>5. q < p  BY <1>1, <2>1, <2>2, <2>3, <2>4 DEF InOrder, SlotAt
  <2> QED  BY <1>2, <2>5
<1>12. Seen(k, n, l, p)
  <2>1. c \in 0 .. l - 1  BY <1>3, <1>11
  <2> QED  BY <1>8, <1>10, <2>1 DEF Seen
<1> QED  BY <1>1, <1>3, <1>12 DEF ReadInv, AnswersAreSeen

LEMMA AnswersAre ==
  ASSUME MakeInv, ReadInv, key # None
  PROVE  /\ \A i \in DOMAIN answers : answers[i] \in Range(Under(key))
         /\ ~faults => answers = SubSeq(Under(key), 1, Len(answers))
         /\ ~faults /\ (\A p \in Nat : Has(key, p) => Answered(p)) => answers = Under(key)
<1>1. answers \in Seq(Nat) /\ Increasing(answers) /\ \A p : Answered(p) <=> Occurs(answers, p)
  BY DEF ReadInv, ReadTypes, Answered, Occurs
<1>2. PICK u \in Seq(Nat) : /\ u = Under(key) /\ Increasing(u)
                            /\ \A p \in Nat : Occurs(u, p) <=> Has(key, p)
  BY UnderIs DEF MakeInv, MakeTypes
<1>3. \A p \in Nat : Answered(p) => Has(key, p)  BY DEF ReadInv, AnswersAreSeen, Seen, Has
<1>4. \A p \in Nat : Occurs(answers, p) => Occurs(u, p)  BY <1>1, <1>2, <1>3
<1>5. \A i \in DOMAIN answers : answers[i] \in Range(Under(key))
  <2> SUFFICES ASSUME NEW i \in DOMAIN answers PROVE answers[i] \in Range(u)  BY <1>2
  <2>1. i \in 1 .. Len(answers) /\ answers[i] \in Nat  BY <1>1, LenProperties, ElementOfSeq
  <2>2. Occurs(u, answers[i])  BY <1>4, <2>1 DEF Occurs
  <2>3. DOMAIN u = 1 .. Len(u)  BY LenProperties
  <2> QED  BY <2>2, <2>3 DEF Occurs, Range
<1>6. ASSUME ~faults
      PROVE  /\ answers = SubSeq(u, 1, Len(answers))
             /\ (\A p \in Nat : Occurs(u, p) => Occurs(answers, p)) => answers = u
  <2>1. \A p \in Nat : \A j \in 1 .. Len(answers) : Occurs(u, p) /\ p < answers[j] => Occurs(answers, p)
    BY <1>1, <1>2, <1>6, FoundAllBefore
  <2> QED  BY <1>1, <1>2, <1>4, <2>1, BeginningOf
<1> QED  BY <1>1, <1>2, <1>5, <1>6

\* The inductive invariant
CdbInv == PosInv /\ MakeInv /\ ReadInv

LEMMA CdbInvHolds == CdbSpec => []CdbInv
<1>1. CdbInit => CdbInv
  <2> SUFFICES ASSUME CdbInit PROVE CdbInv  OBVIOUS
  <2> QED  BY InitPos, InitMake, InitRead DEF CdbInv
<1>2. CdbInv /\ [CdbNext]_vars => CdbInv'
  <2> SUFFICES ASSUME CdbInv, [CdbNext]_vars PROVE CdbInv'  OBVIOUS
  <2>1. PosInv'  BY NextPos DEF CdbInv
  <2>2. MakeInv'  BY <2>1, NextMake DEF CdbInv
  <2>3. ReadInv'  BY <2>2, NextRead DEF CdbInv
  <2> QED  BY <2>1, <2>2, <2>3 DEF CdbInv
<1> QED  BY <1>1, <1>2, PTL DEF CdbSpec

\* In a finished database, while no read fails, the n-th call of cdb_findnext returns the
\* n-th record added under the key, and then 0 (man/cdbread.3:87-106): for any keys,
\* lengths, hashes and number of tables, however the entries collide and wherever a table
\* wraps around.
THEOREM NthRecordIsFound == CdbSpec => []NthRecord
<1>1. CdbInv => NthRecord
  <2> SUFFICES ASSUME CdbInv, stage = "done", key # None, ~faults, ~busy
               PROVE  /\ answers = SubSeq(Under(key), 1, Len(answers))
                      /\ res = 0 => answers = Under(key)
    BY DEF NthRecord
  <2>1. MakeInv /\ ReadInv  BY DEF CdbInv
  <2>2. res = 0 => \A p \in Nat : Has(key, p) => Answered(p)  BY <2>1 DEF ReadInv, AnswersAreSeen
  <2> QED  BY <2>1, <2>2, AnswersAre
<1> QED  BY <1>1, CdbInvHolds, PTL

\* A search reads only what was written for it and yields only records of its key, in
\* their order, wherever the writer was cut short and whichever reads fail; of a writer
\* that failed it yields all records of the key or none: the header is written last, and
\* points at nothing that was not written before it (cdbmake.c:147-157,
\* cdbread.c:87-142).
THEOREM SearchesStaySound == CdbSpec => []SearchesAreSound
<1>1. CdbInv => SearchesAreSound
  <2> SUFFICES ASSUME CdbInv PROVE SearchesAreSound  OBVIOUS
  <2>1. MakeInv /\ ReadInv  BY DEF CdbInv
  <2>2. TypeOK
    BY <2>1 DEF MakeInv, MakeTypes, ReadInv, ReadTypes, TypeOK
  <2>3. ReadsSlots
    <3> SUFFICES ASSUME busy, loop < hslots
                 PROVE  /\ kpos \in hpos .. hpos + 8 * hslots - 1
                        /\ kpos \in DOMAIN file /\ Inside(kpos, 8)
                        /\ Slot.p > 0 => Slot.p \in {records[i].p : i \in DOMAIN records}
      BY DEF ReadsSlots
    <3>1. /\ kpos \in hpos .. hpos + 8 * hslots - 1 /\ kpos \in DOMAIN file /\ Inside(kpos, 8)
          /\ Slot.p > 0 => \E i \in 1 .. Len(records) : Slot = Entry(records[i])
      BY <2>1, SlotIsRead
    <3>2. ASSUME NEW i \in 1 .. Len(records), Slot = Entry(records[i])
          PROVE  Slot.p = records[i].p /\ i \in DOMAIN records
      <4>1. records[i] \in RecordSet /\ DOMAIN records = 1 .. Len(records)
        BY <2>1, ElementOfSeq, LenProperties DEF MakeInv, MakeTypes
      <4> QED  BY <3>2, <4>1, EntryIs
    <3> QED  BY <3>1, <3>2
  <2>4. OnlyItsRecords
    <3>1. answers \in Seq(Nat) /\ Increasing(answers)  BY <2>1 DEF ReadInv, ReadTypes
    <3>2. \A i, j \in DOMAIN answers : i < j => answers[i] < answers[j]
      BY <3>1, LenProperties DEF Increasing
    <3>3. key # None => \A i \in DOMAIN answers : answers[i] \in Range(Under(key))  BY <2>1, AnswersAre
    <3> QED  BY <3>2, <3>3 DEF OnlyItsRecords
  <2>5. AllOrNothing
    <3> SUFFICES ASSUME key # None, ~faults, res = 0, ~busy PROVE answers = <<>> \/ answers = Under(key)
      BY DEF AllOrNothing
    <3>1. (\A p \in Nat : Has(key, p) => Answered(p)) \/ answers = <<>>
      BY <2>1 DEF ReadInv, AnswersAreSeen
    <3> QED  BY <2>1, <3>1, AnswersAre
  <2> QED  BY <2>2, <2>3, <2>4, <2>5 DEF SearchesAreSound
<1> QED  BY <1>1, CdbInvHolds, PTL
=============================================================================
