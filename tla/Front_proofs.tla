--------------------------- MODULE Front_proofs ---------------------------
(***************************************************************************)
(* Proofs about DnsFront: after any sequence of calls of the front ends,   *)
(* with any packets and any failures, no block is lost and none is held    *)
(* behind an answer, and an address is its own answer.  They rest on what  *)
(* the scans make of an IPv4 literal and what the readers of packets give. *)
(* Then about DnsSort, the order in which the servers are asked: the       *)
(* draws of a sort, and the words they are made of.                        *)
(* At last about DnsNames: how names in packets are read.                  *)
(***************************************************************************)
EXTENDS DnsFront, DnsSort, Loops

-----------------------------------------------------------------------------
(***************************************************************************)
(* Numbers in a text                                                       *)
(***************************************************************************)
IsRun(s, p, D, n) ==
  /\ n \in 0 .. Len(s) /\ IP!At(s, p + n) \notin D
  /\ \A d \in 0 .. n - 1 : p + d \in 1 .. Len(s) /\ s[p + d] \in D

\* Run counts the characters of D, which lie in the text.
LEMMA RunIs ==
  ASSUME NEW s \in Seq(Nat), NEW p \in Nat \ {0}, NEW D, 0 \notin D
  PROVE  IsRun(s, p, D, IP!Run(s, p, D))
<1> DEFINE Is(n) == IP!At(s, p + n) \notin D /\ \A d \in 0 .. n - 1 : IP!At(s, p + d) \in D
<1>1. PICK l \in Nat : l = Len(s)  BY LenProperties
<1>2. DOMAIN s = 1 .. l  BY <1>1, LenProperties
<1>3. \A j \in Nat \ {0} : IP!At(s, j) \in D => j \in 1 .. l /\ s[j] \in D
  BY <1>2 DEF IP!At
<1>4. \E n \in 0 .. l : Is(n)
  <2> DEFINE T == {n \in Nat : IP!At(s, p + n) \notin D}
  <2>1. l \in T
    <3>1. p + l \in Nat \ {0} /\ p + l \notin 1 .. l  BY <1>1
    <3> QED  BY <1>1, <1>3, <3>1
  <2>2. T \in SUBSET Nat /\ T # {}  BY <2>1
  <2>3. PICK m \in T : \A n \in T : m <= n
    <3> HIDE DEF T
    <3> QED  BY <2>2, LeastNat
  <2>4. m \in 0 .. l  BY <1>1, <2>1, <2>3
  <2>5. \A d \in 0 .. m - 1 : IP!At(s, p + d) \in D
    <3> SUFFICES ASSUME NEW d \in 0 .. m - 1, IP!At(s, p + d) \notin D PROVE FALSE  OBVIOUS
    <3>1. d \in T /\ d < m  BY <2>4
    <3>2. m <= d
      <4> HIDE DEF T
      <4> QED  BY <2>3, <3>1
    <3> HIDE DEF T
    <3> QED  BY <2>4, <3>1, <3>2
  <2> QED  BY <2>3, <2>4, <2>5
<1>5. PICK n \in 0 .. l : n = IP!Run(s, p, D) /\ Is(n)
  <2>1. IP!Run(s, p, D) = CHOOSE n \in 0 .. l : Is(n)  BY <1>1 DEF IP!Run
  <2> HIDE DEF Is
  <2> QED  BY <1>4, <2>1
<1>6. \A d \in 0 .. n - 1 : p + d \in 1 .. l /\ s[p + d] \in D
  <2> SUFFICES ASSUME NEW d \in 0 .. n - 1 PROVE p + d \in 1 .. l /\ s[p + d] \in D  OBVIOUS
  <2>1. p + d \in Nat \ {0} /\ IP!At(s, p + d) \in D  BY <1>5
  <2> QED  BY <1>3, <2>1
<1> QED  BY <1>1, <1>5, <1>6 DEF IsRun

\* w is the number that n digits at p make, digit by digit
Digitwise(w, s, p, n) ==
  /\ w \in [0 .. n -> Nat] /\ w[0] = 0
  /\ \A d \in 1 .. n : w[d] = (w[d - 1] * 10 + (s[p + d - 1] - 48)) % ULong

\* A number that is read is what its digits make, one after the other.
LEMMA ValueIs ==
  ASSUME NEW s \in Seq(Nat), NEW p \in Nat \ {0}, NEW n \in Nat,
         \A d \in 0 .. n - 1 : s[p + d] \in IP!DecDigits
  PROVE  \E w : Digitwise(w, s, p, n) /\ IP!Value(s, p, n, 10, ULong) = w[n]
<1> DEFINE digit(d) == s[p + d - 1] - 48
           turn == [x \in Nat \X (1 .. n) |-> (x[1] * 10 + digit(x[2])) % ULong]
           Is(f) == f = [d \in 0 .. n |-> IF d = 0 THEN 0
                          ELSE (f[d - 1] * 10 + IP!FromHex(s[p + d - 1])) % ULong]
           v == CHOOSE v : Is(v)
<1>1. \A d \in 1 .. n : /\ s[p + d - 1] \in 48 .. 57 /\ digit(d) \in 0 .. 9
                        /\ IP!FromHex(s[p + d - 1]) = digit(d)
  <2> SUFFICES ASSUME NEW d \in 1 .. n
               PROVE  /\ s[p + d - 1] \in 48 .. 57 /\ digit(d) \in 0 .. 9
                      /\ IP!FromHex(s[p + d - 1]) = digit(d)
    OBVIOUS
  <2>1. d - 1 \in 0 .. n - 1 /\ p + (d - 1) = p + d - 1  OBVIOUS
  <2>2. s[p + d - 1] \in 48 .. 57  BY <2>1 DEF IP!DecDigits
  <2>3. \A c \in 48 .. 57 : IP!FromHex(c) = c - 48 /\ c - 48 \in 0 .. 9
    <3> TAKE c \in 48 .. 57
    <3>1. c \notin 65 .. 70 /\ c \notin 97 .. 102 /\ c - 48 \in 0 .. 9  OBVIOUS
    <3>2. IP!FromHex(c) = c - 48  BY <3>1, Zenon DEF IP!FromHex
    <3> QED  BY <3>1, <3>2
  <2>4. PICK c \in 48 .. 57 : c = s[p + d - 1]  BY <2>2
  <2> QED  BY <2>3, <2>4
<1>2. ULong \in Nat \ {0}  BY FrontAssumption
<1>3. \A x \in Nat, d \in 1 .. n : (x * 10 + digit(d)) % ULong \in Nat
  <2> SUFFICES ASSUME NEW x \in Nat, NEW d \in 1 .. n PROVE (x * 10 + digit(d)) % ULong \in Nat  OBVIOUS
  <2>0. digit(d) \in 0 .. 9  BY <1>1
  <2> HIDE DEF digit
  <2>1. PICK y \in Nat : y = x * 10 + digit(d)  BY <2>0
  <2>2. y % ULong \in Nat  BY <1>2
  <2> QED  BY <2>1, <2>2
<1>4. turn \in [Nat \X (1 .. n) -> Nat]
  <2> HIDE DEF digit
  <2> QED  BY <1>3
<1>5. PICK w : Turns(w, n, 0, turn, Nat)
  <2> HIDE DEF turn
  <2> QED  BY <1>4, TurnsExist
<1>6. /\ w \in [0 .. n -> Nat] /\ w[0] = 0
      /\ \A d \in 1 .. n : w[d] = (w[d - 1] * 10 + digit(d)) % ULong
  <2>1. w \in [0 .. n -> Nat] /\ w[0] = 0 /\ \A d \in 1 .. n : w[d] = turn[w[d - 1], d]
    <3> HIDE DEF turn
    <3> QED  BY <1>5 DEF Turns
  <2>2. \A d \in 1 .. n : w[d - 1] \in Nat
    <3>1. \A d \in 1 .. n : d - 1 \in 0 .. n  OBVIOUS
    <3> QED  BY <2>1, <3>1
  <2> HIDE DEF digit
  <2> QED  BY <2>1, <2>2
<1>7. Is(w)
  <2>1. \A d \in 0 .. n : d = 0 \/ d \in 1 .. n  OBVIOUS
  <2>2. \A d \in 1 .. n : w[d] = (w[d - 1] * 10 + IP!FromHex(s[p + d - 1])) % ULong  BY <1>1, <1>6
  <2> HIDE DEF digit
  <2> QED  BY <1>6, <2>1, <2>2
<1>8. PICK f : f = v /\ Is(f)
  <2> HIDE DEF Is
  <2> QED  BY <1>7
<1>9. \A d \in 0 .. n : f[d] = w[d]
  <2>1. f[0] = w[0]
    <3>1. 0 \in 0 .. n  OBVIOUS
    <3>2. f[0] = 0  BY <1>8, <3>1
    <3> QED  BY <1>6, <3>2
  <2>2. ASSUME NEW d \in 1 .. n, f[d - 1] = w[d - 1] PROVE f[d] = w[d]
    <3>0. d \in 0 .. n /\ d # 0  OBVIOUS
    <3>1. f[d] = (f[d - 1] * 10 + IP!FromHex(s[p + d - 1])) % ULong  BY <1>8, <3>0
    <3>2. w[d] = (w[d - 1] * 10 + IP!FromHex(s[p + d - 1])) % ULong
      <4>1. w[d] = (w[d - 1] * 10 + digit(d)) % ULong  BY <1>6
      <4>2. IP!FromHex(s[p + d - 1]) = digit(d)  BY <1>1
      <4> HIDE DEF digit
      <4> QED  BY <4>1, <4>2
    <3> QED  BY <2>2, <3>1, <3>2
  <2> HIDE DEF Is, digit
  <2>3. Alike(f, w, n)  BY <2>1, <2>2 DEF Alike
  <2> QED  BY <2>3, SameTurns
<1>10. IP!Value(s, p, n, 10, ULong) = v[n]  BY DEF IP!Value
<1>11. IP!Value(s, p, n, 10, ULong) = w[n]
  <2>1. n \in 0 .. n  OBVIOUS
  <2> HIDE DEF Is, v
  <2> QED  BY <1>8, <1>9, <1>10, <2>1
<1> QED  BY <1>6, <1>11 DEF Digitwise

\* A byte is what is left of a number in a word, at every digit.
InByte(x, c) == ((x * 10 + c) % ULong) % 256 = (10 * (x % 256) + c) % 256

LEMMA DigitInByte ==
  ASSUME NEW x \in Nat, NEW c \in 0 .. 9
  PROVE  InByte(x, c)
<1>1. ULong \in Nat \ {0} /\ ULong % 256 = 0  BY FrontAssumption
<1>2. PICK t \in Nat : ULong = 256 * t  BY <1>1
<1>3. PICK y \in Nat : y = x * 10 + c  OBVIOUS
<1>4. PICK m \in Int, z \in Nat : y = ULong * m + z /\ z = y % ULong
  <2>1. PICK u \in Nat \ {0} : u = ULong  BY <1>1
  <2>2. PICK m \in Int, z \in 0 .. u - 1 : m = y \div u /\ z = y % u /\ y = u * m + z  OBVIOUS
  <2>3. z \in Nat  BY <2>2
  <2> QED  BY <2>1, <2>2, <2>3, Zenon
<1>5. PICK k \in Int : k = t * m  OBVIOUS
<1>6. ULong * m = 256 * k
  <2>1. (256 * t) * m = 256 * (t * m)  OBVIOUS
  <2> QED  BY <1>2, <1>5, <2>1
<1>7. z = y - 256 * k  BY <1>4, <1>6
<1>8. z % 256 = y % 256  BY <1>7
<1>9. y % 256 = (10 * (x % 256) + c) % 256  BY <1>3
<1>10. ((x * 10 + c) % ULong) % 256 = (10 * (x % 256) + c) % 256  BY <1>3, <1>4, <1>8, <1>9, Zenon
<1> QED  BY <1>10 DEF InByte

-----------------------------------------------------------------------------
(***************************************************************************)
(* Addresses of IPv4 in dns_ip4                                            *)
(***************************************************************************)
Scans == [bytes : Seq(Nat), code : Nat, named : BOOLEAN]
CharOf(text, k) == IF k <= Len(text) THEN text[k] ELSE Dot
Nothing == [bytes |-> <<>>, code |-> 0, named |-> FALSE]

LEMMA ScanCharType ==
  ASSUME NEW st \in Scans, NEW c \in Nat
  PROVE  ScanChar(st, c) \in Scans
<1>1. st.bytes \in Seq(Nat) /\ st.code \in Nat /\ st.named \in BOOLEAN
      /\ st = [bytes |-> st.bytes, code |-> st.code, named |-> st.named]  BY DEF Scans
<1>2. CASE st.named \/ c \in {IP!Open, IP!Close}  BY <1>2 DEF ScanChar
<1>3. CASE ~(st.named \/ c \in {IP!Open, IP!Close}) /\ c = Dot
  <2>1. Append(st.bytes, st.code) \in Seq(Nat)  BY <1>1
  <2>2. [bytes |-> Append(st.bytes, st.code), code |-> 0, named |-> st.named] \in Scans  BY <1>1, <2>1 DEF Scans
  <2>3. ScanChar(st, c) = [bytes |-> Append(st.bytes, st.code), code |-> 0, named |-> st.named]
    BY <1>1, <1>3 DEF ScanChar
  <2> QED  BY <2>2, <2>3
<1>4. CASE ~(st.named \/ c \in {IP!Open, IP!Close}) /\ c # Dot /\ c \in IP!DecDigits
  <2>1. (10 * st.code + c - 48) % 256 \in Nat  BY <1>1, <1>4 DEF IP!DecDigits
  <2>2. [st EXCEPT !.code = (10 * @ + c - 48) % 256] \in Scans  BY <1>1, <2>1 DEF Scans
  <2> QED  BY <1>4, <2>2 DEF ScanChar
<1>5. CASE ~(st.named \/ c \in {IP!Open, IP!Close}) /\ c # Dot /\ c \notin IP!DecDigits
  <2>1. [st EXCEPT !.named = TRUE] \in Scans  BY <1>1 DEF Scans
  <2> QED  BY <1>5, <2>1 DEF ScanChar
<1> QED  BY <1>2, <1>3, <1>4, <1>5

\* st are the states of Scan behind every character
Scanned(st, text) ==
  /\ st \in [0 .. Len(text) + 1 -> Scans] /\ st[0] = Nothing
  /\ \A k \in 1 .. Len(text) + 1 : st[k] = ScanChar(st[k - 1], CharOf(text, k))

LEMMA ScanIs ==
  ASSUME NEW text \in Seq(Nat)
  PROVE  \E st : Scanned(st, text) /\ Scan(text) = st[Len(text) + 1]
<1>1. PICK n \in Nat : n = Len(text) + 1  BY LenProperties
<1>2. \A k \in 1 .. n : CharOf(text, k) \in Nat
  <2> SUFFICES ASSUME NEW k \in 1 .. n PROVE CharOf(text, k) \in Nat  OBVIOUS
  <2>1. k <= Len(text) => text[k] \in Nat  BY <1>1, ElementOfSeq
  <2> QED  BY <2>1 DEF CharOf, Dot
<1> DEFINE turn == [x \in Scans \X (1 .. n) |-> ScanChar(x[1], CharOf(text, x[2]))]
           Is(f) == f = [k \in 0 .. n |-> IF k = 0 THEN Nothing ELSE ScanChar(f[k - 1], CharOf(text, k))]
           v == CHOOSE v : Is(v)
<1>3. turn \in [Scans \X (1 .. n) -> Scans]  BY <1>2, ScanCharType
<1>4. Nothing \in Scans
  <2>1. <<>> \in Seq(Nat)  OBVIOUS
  <2> QED  BY <2>1 DEF Nothing, Scans
<1>5. PICK g : Turns(g, n, Nothing, turn, Scans)
  <2> HIDE DEF turn
  <2> QED  BY <1>3, <1>4, TurnsExist
<1>6. /\ g \in [0 .. n -> Scans] /\ g[0] = Nothing
      /\ \A k \in 1 .. n : g[k] = ScanChar(g[k - 1], CharOf(text, k))
  <2>1. g \in [0 .. n -> Scans] /\ g[0] = Nothing /\ \A k \in 1 .. n : g[k] = turn[g[k - 1], k]
    <3> HIDE DEF turn
    <3> QED  BY <1>5 DEF Turns
  <2>2. \A k \in 1 .. n : g[k - 1] \in Scans
    <3>1. \A k \in 1 .. n : k - 1 \in 0 .. n  OBVIOUS
    <3> QED  BY <2>1, <3>1
  <2> QED  BY <2>1, <2>2
<1>7. Is(g)
  <2>1. \A k \in 0 .. n : k = 0 \/ k \in 1 .. n  OBVIOUS
  <2> QED  BY <1>6, <2>1
<1>8. PICK f : f = v /\ Is(f)
  <2> HIDE DEF Is
  <2> QED  BY <1>7
<1>9. \A k \in 0 .. n : f[k] = g[k]
  <2>1. f[0] = g[0]
    <3>1. 0 \in 0 .. n  OBVIOUS
    <3> QED  BY <1>6, <1>8, <3>1
  <2>2. ASSUME NEW k \in 1 .. n, f[k - 1] = g[k - 1] PROVE f[k] = g[k]
    <3>1. k \in 0 .. n /\ k # 0  OBVIOUS
    <3>2. f[k] = ScanChar(f[k - 1], CharOf(text, k))  BY <1>8, <3>1
    <3> QED  BY <1>6, <2>2, <3>2
  <2>3. Alike(f, g, n)
    <3> HIDE DEF Is
    <3> QED  BY <2>1, <2>2 DEF Alike
  <2> QED  BY <2>3, SameTurns
<1>10. Scan(text) = v[n]  BY <1>1 DEF Scan, Nothing, CharOf
<1>11. n \in 0 .. n  OBVIOUS
<1> HIDE DEF Is, v
<1> QED  BY <1>1, <1>6, <1>8, <1>9, <1>10, <1>11 DEF Scanned

\* n digits at a, and a dot or the end behind them
Numeral(text, a, n) ==
  /\ \A d \in 0 .. n - 1 : a + d \in 1 .. Len(text) /\ text[a + d] \in IP!DecDigits
  /\ CharOf(text, a + n) = Dot /\ a + n <= Len(text) + 1

\* behind k characters the numbers b are complete
Between(st, k, b) == st[k] = [bytes |-> b, code |-> 0, named |-> FALSE]

\* Digits up to a dot, or the end, add the byte of their number.
LEMMA Segment ==
  ASSUME NEW text \in Seq(Nat), NEW st, Scanned(st, text),
         NEW a \in Nat \ {0}, NEW n \in Nat \ {0}, NEW b \in Seq(Nat), NEW w,
         Numeral(text, a, n),
         Between(st, a - 1, b),
         Digitwise(w, text, a, n)
  PROVE  Between(st, a + n, Append(b, w[n] % 256))
<1>1. PICK l \in Nat : l = Len(text)  BY LenProperties
<1> DEFINE At(d) == [bytes |-> b, code |-> w[d] % 256, named |-> FALSE]
           T == {d \in 0 .. n : st[a - 1 + d] = At(d)}
<1>2. 0 \in T
  <2>1. w[0] % 256 = 0 /\ a - 1 + 0 = a - 1  BY DEF Digitwise
  <2>2. st[a - 1 + 0] = At(0)  BY <2>1 DEF Between
  <2> HIDE DEF At
  <2> QED  BY <2>2
<1>3. ASSUME NEW d \in 1 .. n, d - 1 \in T PROVE d \in T
  <2>1. PICK k \in 1 .. l : k = a - 1 + d /\ k - 1 = a - 1 + (d - 1) /\ text[k] \in IP!DecDigits /\ k = a + d - 1
    <3>1. d - 1 \in 0 .. n - 1 /\ a + (d - 1) = a - 1 + d /\ (a - 1 + d) - 1 = a - 1 + (d - 1)
          /\ a - 1 + d = a + d - 1  OBVIOUS
    <3>2. a + (d - 1) \in 1 .. l /\ text[a + (d - 1)] \in IP!DecDigits  BY <1>1, <3>1 DEF Numeral
    <3> QED  BY <3>1, <3>2
  <2>2. PICK c \in 48 .. 57 : c = text[k]  BY <2>1 DEF IP!DecDigits
  <2>3. CharOf(text, k) = c /\ k \in 1 .. l + 1  BY <1>1, <2>1, <2>2 DEF CharOf
  <2>4. st[k] = ScanChar(st[k - 1], c)  BY <1>1, <2>3 DEF Scanned
  <2>5. st[k - 1] = At(d - 1)  BY <1>3, <2>1
  <2>6. PICK x \in Nat : x = w[d - 1]
    <3>1. d - 1 \in 0 .. n  OBVIOUS
    <3> QED  BY <3>1 DEF Digitwise
  <2>7. w[d] % 256 = (10 * (x % 256) + (c - 48)) % 256
    <3>1. w[d] = (x * 10 + (c - 48)) % ULong  BY <2>1, <2>2, <2>6 DEF Digitwise
    <3>2. c - 48 \in 0 .. 9  OBVIOUS
    <3>3. w[d] % 256 = ((x * 10 + (c - 48)) % ULong) % 256  BY <3>1
    <3>4. ((x * 10 + (c - 48)) % ULong) % 256 = (10 * (x % 256) + (c - 48)) % 256
      <4>1. PICK e \in 0 .. 9 : e = c - 48  BY <3>2
      <4>2. InByte(x, e)  BY DigitInByte
      <4> QED  BY <4>1, <4>2, Zenon DEF InByte
    <3> QED  BY <3>3, <3>4
  <2>8. ScanChar(At(d - 1), c) = [bytes |-> b, code |-> (10 * (x % 256) + c - 48) % 256, named |-> FALSE]
    <3>1. c \notin {IP!Open, IP!Close} /\ c # Dot /\ c \in IP!DecDigits
      BY DEF IP!Open, IP!Close, Dot, IP!DecDigits
    <3> QED  BY <2>6, <3>1 DEF ScanChar
  <2>9. 10 * (x % 256) + (c - 48) = 10 * (x % 256) + c - 48  OBVIOUS
  <2>10. st[k] = At(d)  BY <2>4, <2>5, <2>7, <2>8, <2>9
  <2> QED  BY <2>1, <2>10
<1>4. n \in T
  <2>1. \A d \in 0 .. n : d \in T
    <3>1. \A d \in 1 .. n : d - 1 \in T => d \in T
      <4> HIDE DEF T
      <4> QED  BY <1>3
    <3> HIDE DEF T
    <3> QED  BY <1>2, <3>1, Induct
  <2> HIDE DEF T
  <2> QED  BY <2>1
<1>5. PICK k \in 1 .. l + 1 : k = a + n /\ k - 1 = a - 1 + n  BY <1>1 DEF Numeral
<1>6. st[k] = ScanChar(st[k - 1], Dot)  BY <1>1, <1>5 DEF Scanned, Numeral
<1>7. st[k - 1] = At(n)  BY <1>4, <1>5
<1>8. ScanChar(At(n), Dot) = [bytes |-> Append(b, w[n] % 256), code |-> 0, named |-> FALSE]
  <2>1. Dot \notin {IP!Open, IP!Close}  BY DEF IP!Open, IP!Close, Dot
  <2> QED  BY <2>1 DEF ScanChar
<1> QED  BY <1>5, <1>6, <1>7, <1>8 DEF Between

\* how many digits are at p
Digits(s, p) == IP!Run(s, p, IP!DecDigits)

LEMMA DigitsAre ==
  ASSUME NEW s \in Seq(Nat), NEW p \in Nat \ {0}
  PROVE  IsRun(s, p, IP!DecDigits, Digits(s, p))
BY RunIs DEF Digits, IP!DecDigits

\* a are the places of four numbers and dots, and of the end of a text
Places(a, s) ==
  /\ a \in [1 .. 5 -> Nat \ {0}] /\ a[1] = 1 /\ a[5] = Len(s) + 2
  /\ \A k \in 1 .. 4 : /\ Digits(s, a[k]) \in Nat \ {0} /\ a[k + 1] = a[k] + Digits(s, a[k]) + 1
                       /\ Numeral(s, a[k], Digits(s, a[k]))

\* What ip4_scan reads to the end are four numbers.
LEMMA Ip4Places ==
  ASSUME NEW s \in Seq(Nat), s # <<>>, IP!Ip4Scan(s, 1).n = Len(s)
  PROVE  \E a : Places(a, s) /\ IP!Ip4Scan(s, 1).ip = [k \in 1 .. 4 |-> IP!ScanULong(s, a[k]).u % 256]
<1>1. PICK l \in Nat \ {0} : l = Len(s)  BY LenProperties, EmptySeq
<1> DEFINE After(p) == LET n == Digits(s, p)
                       IN  IF p # 0 /\ n > 0 /\ IP!At(s, p + n) = IP!Dot THEN p + n + 1 ELSE 0
           Is(f) == f = [k \in 1 .. 4 |->
                      IF k = 1 THEN 1
                      ELSE LET n == Digits(s, f[k - 1])
                           IN  IF f[k - 1] # 0 /\ n > 0 /\ IP!At(s, f[k - 1] + n) = IP!Dot
                               THEN f[k - 1] + n + 1 ELSE 0]
           at == CHOOSE f : Is(f)
           b2 == After(1)
           b3 == After(b2)
           b4 == After(b3)
           g == [k \in 1 .. 4 |-> IF k = 1 THEN 1 ELSE IF k = 2 THEN b2 ELSE IF k = 3 THEN b3 ELSE b4]
<1>2. g[1] = 1 /\ g[2] = b2 /\ g[3] = b3 /\ g[4] = b4
  <2> HIDE DEF b2, b3, b4
  <2> QED  OBVIOUS
<1>3. Is(g)
  <2>1. \A k \in 1 .. 4 : g[k] = IF k = 1 THEN 1 ELSE After(g[k - 1])
    <3> SUFFICES ASSUME NEW k \in 1 .. 4 PROVE g[k] = IF k = 1 THEN 1 ELSE After(g[k - 1])  OBVIOUS
    <3>1. k = 1 \/ (k = 2 /\ k - 1 = 1) \/ (k = 3 /\ k - 1 = 2) \/ (k = 4 /\ k - 1 = 3)  OBVIOUS
    <3> HIDE DEF g, After
    <3> QED  BY <1>2, <3>1 DEF b2, b3, b4
  <2> DEFINE h == [k \in 1 .. 4 |-> IF k = 1 THEN 1 ELSE After(g[k - 1])]
  <2>2. g = h
    <3>1. DOMAIN g = 1 .. 4 /\ g = [k \in 1 .. 4 |-> g[k]]
      <4> HIDE DEF b2, b3, b4
      <4> QED  OBVIOUS
    <3> HIDE DEF g, After
    <3> QED  BY <2>1, <3>1
  <2> HIDE DEF g
  <2> QED  BY <2>2
<1>4. PICK f : f = at /\ Is(f)
  <2> HIDE DEF Is, g
  <2> QED  BY <1>3
<1>5. f[1] = 1 /\ f[2] = After(f[1]) /\ f[3] = After(f[2]) /\ f[4] = After(f[3])
  <2>1. \A k \in 1 .. 4 : f[k] = IF k = 1 THEN 1 ELSE After(f[k - 1])
    <3> HIDE DEF at, g, b2, b3, b4
    <3> QED  BY <1>4
  <2>2. f[1] = 1 /\ f[2] = After(f[2 - 1]) /\ f[3] = After(f[3 - 1]) /\ f[4] = After(f[4 - 1])
    <3> HIDE DEF After
    <3> QED  BY <2>1
  <2>3. 2 - 1 = 1 /\ 3 - 1 = 2 /\ 4 - 1 = 3  OBVIOUS
  <2> HIDE DEF After
  <2> QED  BY <2>2, <2>3
<1> DEFINE last == Digits(s, f[4])
<1>6. IP!Ip4Scan(s, 1) = IF f[4] = 0 \/ last = 0 THEN IP!No
                         ELSE [n |-> f[4] + last - 1, ip |-> [k \in 1 .. 4 |-> IP!ScanULong(s, f[k]).u % 256]]
  <2>1. IP!Ip4Scan(s, 1) = IF at[4] = 0 \/ Digits(s, at[4]) = 0 THEN IP!No
             ELSE [n |-> at[4] + Digits(s, at[4]) - 1, ip |-> [k \in 1 .. 4 |-> IP!ScanULong(s, at[k]).u % 256]]
    BY DEF IP!Ip4Scan, Digits
  <2> HIDE DEF at, Is
  <2> QED  BY <1>4, <2>1
<1> HIDE DEF at, Is, g, b2, b3, b4
<1>7. f[4] # 0 /\ last # 0
  <2> SUFFICES ASSUME f[4] = 0 \/ last = 0 PROVE FALSE  OBVIOUS
  <2>1. IP!Ip4Scan(s, 1).n = 0  BY <1>6 DEF IP!No
  <2> QED  BY <1>1, <2>1
<1>8. /\ l = f[4] + last - 1
      /\ IP!Ip4Scan(s, 1).ip = [k \in 1 .. 4 |-> IP!ScanULong(s, f[k]).u % 256]
  <2>1. IP!Ip4Scan(s, 1) = [n |-> f[4] + last - 1, ip |-> [k \in 1 .. 4 |-> IP!ScanULong(s, f[k]).u % 256]]
    <3> HIDE DEF last
    <3> QED  BY <1>6, <1>7, Zenon
  <2>2. \A n, ip : [n |-> n, ip |-> ip].n = n /\ [n |-> n, ip |-> ip].ip = ip  OBVIOUS
  <2> HIDE DEF last
  <2> QED  BY <1>1, <2>1, <2>2
\* one number and the dot behind it
<1>9. ASSUME NEW p \in Nat, After(p) # 0
      PROVE  /\ p # 0 /\ Digits(s, p) \in Nat \ {0} /\ After(p) = p + Digits(s, p) + 1
             /\ After(p) \in Nat \ {0} /\ Numeral(s, p, Digits(s, p))
  <2>1. p \in Nat \ {0} /\ Digits(s, p) > 0 /\ IP!At(s, p + Digits(s, p)) = IP!Dot /\ After(p) = p + Digits(s, p) + 1
    BY <1>9
  <2>2. IsRun(s, p, IP!DecDigits, Digits(s, p))  BY <2>1, DigitsAre
  <2>3. PICK n \in Nat \ {0} : n = Digits(s, p)
    <3>1. Digits(s, p) \in 0 .. l  BY <1>1, <2>2 DEF IsRun
    <3> QED  BY <2>1, <3>1
  <2>4. p + n \in 1 .. l /\ s[p + n] = Dot
    <3>1. DOMAIN s = 1 .. l  BY <1>1, LenProperties
    <3>2. IP!At(s, p + n) # 0  BY <2>1, <2>3 DEF IP!Dot
    <3> QED  BY <2>1, <2>3, <3>1, <3>2 DEF IP!At, IP!Dot, Dot
  <2>5. CharOf(s, p + n) = Dot /\ p + n <= l + 1  BY <1>1, <2>4 DEF CharOf
  <2>6. Numeral(s, p, n)  BY <1>1, <2>2, <2>3, <2>5 DEF Numeral, IsRun
  <2>7. p + n + 1 \in Nat \ {0}  BY <2>1
  <2> QED  BY <2>1, <2>3, <2>6, <2>7
<1> DEFINE good(p) == p \in Nat \ {0} /\ Digits(s, p) \in Nat \ {0} /\ Numeral(s, p, Digits(s, p))
<1>10. /\ good(f[1]) /\ f[2] = f[1] + Digits(s, f[1]) + 1
       /\ good(f[2]) /\ f[3] = f[2] + Digits(s, f[2]) + 1
       /\ good(f[3]) /\ f[4] = f[3] + Digits(s, f[3]) + 1 /\ f[4] \in Nat \ {0}
  <2>0. 1 \in Nat /\ 0 \in Nat  OBVIOUS
  <2>1. After(0) = 0  OBVIOUS
  <2> HIDE DEF After
  <2>2. f[1] \in Nat /\ f[2] # 0 => f[2] \in Nat  BY <1>5, <1>9, <2>0
  <2>3. f[2] # 0 /\ f[3] # 0
    <3>1. f[3] # 0  BY <1>5, <1>7, <2>1
    <3> QED  BY <1>5, <2>1, <3>1
  <2>4. f[2] \in Nat /\ f[2] = f[1] + Digits(s, f[1]) + 1 /\ good(f[1])
    <3>1. f[1] \in Nat /\ After(f[1]) # 0  BY <1>5, <2>0, <2>3
    <3> QED  BY <1>5, <1>9, <3>1
  <2>5. f[3] \in Nat /\ f[3] = f[2] + Digits(s, f[2]) + 1 /\ good(f[2])
    <3>1. After(f[2]) # 0  BY <1>5, <2>3
    <3> QED  BY <1>5, <1>9, <2>4, <3>1
  <2>6. f[4] \in Nat \ {0} /\ f[4] = f[3] + Digits(s, f[3]) + 1 /\ good(f[3])
    <3>1. After(f[3]) # 0  BY <1>5, <1>7
    <3> QED  BY <1>5, <1>9, <2>5, <3>1
  <2> QED  BY <2>4, <2>5, <2>6
<1>11. good(f[4]) /\ f[4] + Digits(s, f[4]) + 1 = l + 2
  <2>1. IsRun(s, f[4], IP!DecDigits, last)  BY <1>10, DigitsAre
  <2>2. PICK n \in Nat \ {0}, p \in Nat \ {0} : n = last /\ p = f[4]
    <3>1. last \in 0 .. l
      <4> HIDE DEF last
      <4> QED  BY <1>1, <2>1 DEF IsRun
    <3>2. f[4] \in Nat \ {0}
      <4> HIDE DEF good
      <4> QED  BY <1>10
    <3>3. last \in Nat \ {0}
      <4> HIDE DEF last
      <4> QED  BY <1>7, <3>1
    <3> HIDE DEF last
    <3> QED  BY <3>2, <3>3
  <2>3. p + n = l + 1
    <3> HIDE DEF last
    <3> QED  BY <1>8, <2>2
  <2>4. CharOf(s, p + n) = Dot  BY <1>1, <2>3 DEF CharOf
  <2>5. Numeral(s, p, n)  BY <1>1, <2>1, <2>2, <2>3, <2>4 DEF Numeral, IsRun
  <2> QED  BY <2>2, <2>3, <2>5
<1> DEFINE a == [k \in 1 .. 5 |-> IF k = 5 THEN l + 2 ELSE f[k]]
<1>12. a[1] = f[1] /\ a[2] = f[2] /\ a[3] = f[3] /\ a[4] = f[4] /\ a[5] = l + 2  OBVIOUS
<1> HIDE DEF After
<1>13. a \in [1 .. 5 -> Nat \ {0}]
  <2> SUFFICES ASSUME NEW k \in 1 .. 5 PROVE a[k] \in Nat \ {0}  BY DEF a
  <2>1. k = 1 \/ k = 2 \/ k = 3 \/ k = 4 \/ k = 5  OBVIOUS
  <2>2. l + 2 \in Nat \ {0}  OBVIOUS
  <2> HIDE DEF a
  <2> QED  BY <1>10, <1>11, <1>12, <2>1, <2>2
<1>14. \A k \in 1 .. 4 : good(a[k]) /\ a[k + 1] = a[k] + Digits(s, a[k]) + 1
  <2> SUFFICES ASSUME NEW k \in 1 .. 4 PROVE good(a[k]) /\ a[k + 1] = a[k] + Digits(s, a[k]) + 1  OBVIOUS
  <2>1. (k = 1 /\ k + 1 = 2) \/ (k = 2 /\ k + 1 = 3) \/ (k = 3 /\ k + 1 = 4) \/ (k = 4 /\ k + 1 = 5)  OBVIOUS
  <2> HIDE DEF a, good
  <2> QED  BY <1>10, <1>11, <1>12, <2>1
<1>15. [k \in 1 .. 4 |-> IP!ScanULong(s, a[k]).u % 256] = [k \in 1 .. 4 |-> IP!ScanULong(s, f[k]).u % 256]
  <2>1. \A k \in 1 .. 4 : a[k] = f[k]  OBVIOUS
  <2> HIDE DEF a
  <2> QED  BY <2>1
<1>16. Places(a, s)
  <2>1. a[1] = 1 /\ a[5] = Len(s) + 2
    <3> HIDE DEF a
    <3> QED  BY <1>1, <1>5, <1>12
  <2>2. \A k \in 1 .. 4 : /\ Digits(s, a[k]) \in Nat \ {0} /\ a[k + 1] = a[k] + Digits(s, a[k]) + 1
                          /\ Numeral(s, a[k], Digits(s, a[k]))
    <3> HIDE DEF a
    <3> QED  BY <1>14
  <2> HIDE DEF a
  <2> QED  BY <1>13, <2>1, <2>2 DEF Places
<1> HIDE DEF a
<1>17. IP!Ip4Scan(s, 1).ip = [k \in 1 .. 4 |-> IP!ScanULong(s, a[k]).u % 256]  BY <1>8, <1>15, Zenon
<1> QED  BY <1>16, <1>17, Zenon

FourBytes(t, x) == t \in Seq(Nat) /\ Len(t) = 4 /\ t = x /\ SubSeq(t, 1, 4) = t

\* dns_ip4 finds the bytes that ip4_scan reads, and no name.
LEMMA LiteralScan ==
  ASSUME NEW s \in Seq(Nat), s # <<>>, IP!Ip4Scan(s, 1).n = Len(s)
  PROVE  ~Scan(s).named /\ FourBytes(Scan(s).bytes, IP!Ip4Scan(s, 1).ip)
<1>1. PICK a : Places(a, s) /\ IP!Ip4Scan(s, 1).ip = [k \in 1 .. 4 |-> IP!ScanULong(s, a[k]).u % 256]
  BY Ip4Places
<1>2. PICK st : Scanned(st, s) /\ Scan(s) = st[Len(s) + 1]  BY ScanIs
<1>3. PICK l \in Nat : l = Len(s)  BY LenProperties
<1> DEFINE byte(k) == IP!ScanULong(s, a[k]).u % 256
           state(b) == [bytes |-> b, code |-> 0, named |-> FALSE]
<1>4. ASSUME NEW k \in 1 .. 4
      PROVE  byte(k) \in Nat /\ \A b \in Seq(Nat) : st[a[k] - 1] = state(b) => st[a[k + 1] - 1] = state(Append(b, byte(k)))
  <2>1. PICK p \in Nat \ {0}, n \in Nat \ {0} :
          p = a[k] /\ n = Digits(s, p) /\ Numeral(s, p, n) /\ a[k + 1] - 1 = p + n
    <3>1. /\ a[k] \in Nat \ {0} /\ Digits(s, a[k]) \in Nat \ {0} /\ a[k + 1] = a[k] + Digits(s, a[k]) + 1
          /\ Numeral(s, a[k], Digits(s, a[k]))
      <4>1. k \in 1 .. 5  OBVIOUS
      <4> QED  BY <1>1, <4>1 DEF Places
    <3>2. (a[k] + Digits(s, a[k]) + 1) - 1 = a[k] + Digits(s, a[k])  BY <3>1
    <3> QED  BY <3>1, <3>2
  <2>2. PICK w : Digitwise(w, s, p, n) /\ IP!Value(s, p, n, 10, ULong) = w[n]
    <3>1. \A d \in 0 .. n - 1 : s[p + d] \in IP!DecDigits  BY <2>1 DEF Numeral
    <3> QED  BY <3>1, ValueIs
  <2>3. byte(k) = w[n] % 256  BY <2>1, <2>2 DEF IP!ScanULong, Digits
  <2>4. w[n] % 256 \in Nat
    <3>1. n \in 0 .. n  OBVIOUS
    <3>2. w[n] \in Nat  BY <2>2, <3>1 DEF Digitwise
    <3> QED  BY <3>2
  <2>5. ASSUME NEW b \in Seq(Nat), st[p - 1] = state(b) PROVE st[p + n] = state(Append(b, w[n] % 256))
    <3>1. Scanned(st, s) /\ Numeral(s, p, n) /\ Digitwise(w, s, p, n)  BY <1>2, <2>1, <2>2
    <3>2. Between(st, p - 1, b)  BY <2>5 DEF Between
    <3>3. Between(st, p + n, Append(b, w[n] % 256))
      <4> HIDE DEF byte, state
      <4> QED  BY <3>1, <3>2, Segment
    <3> QED  BY <3>3 DEF Between
  <2>6. byte(k) \in Nat  BY <2>3, <2>4
  <2> HIDE DEF byte, state
  <2>7. ASSUME NEW b \in Seq(Nat), st[a[k] - 1] = state(b) PROVE st[a[k + 1] - 1] = state(Append(b, byte(k)))
    <3>1. st[p - 1] = state(b)  BY <2>1, <2>7
    <3>2. st[p + n] = state(Append(b, w[n] % 256))  BY <2>5, <3>1
    <3> QED  BY <2>1, <2>3, <3>2
  <2> QED  BY <2>6, <2>7
<1> HIDE DEF byte
<1> DEFINE b1 == Append(<<>>, byte(1))
           b2 == Append(b1, byte(2))
           b3 == Append(b2, byte(3))
           b4 == Append(b3, byte(4))
<1>5. <<>> \in Seq(Nat) /\ b1 \in Seq(Nat) /\ b2 \in Seq(Nat) /\ b3 \in Seq(Nat) /\ b4 \in Seq(Nat)
  <2>1. <<>> \in Seq(Nat)  OBVIOUS
  <2>2. byte(1) \in Nat /\ byte(2) \in Nat /\ byte(3) \in Nat /\ byte(4) \in Nat
    <3>1. 1 \in 1 .. 4 /\ 2 \in 1 .. 4 /\ 3 \in 1 .. 4 /\ 4 \in 1 .. 4  OBVIOUS
    <3> QED  BY <1>4, <3>1
  <2>3. b1 \in Seq(Nat)  BY <2>1, <2>2, AppendProperties
  <2>4. b2 \in Seq(Nat)
    <3> HIDE DEF b1
    <3> QED  BY <2>2, <2>3, AppendProperties
  <2>5. b3 \in Seq(Nat)
    <3> HIDE DEF b2
    <3> QED  BY <2>2, <2>4, AppendProperties
  <2>6. b4 \in Seq(Nat)
    <3> HIDE DEF b3
    <3> QED  BY <2>2, <2>5, AppendProperties
  <2> QED  BY <2>1, <2>3, <2>4, <2>5, <2>6
<1>6. st[l + 1] = state(b4)
  <2>1. a[1] - 1 = 0 /\ a[5] - 1 = l + 1  BY <1>1, <1>3 DEF Places
  <2>2. st[a[1] - 1] = state(<<>>)  BY <1>2, <2>1 DEF Scanned, Nothing
  <2>3. 1 + 1 = 2 /\ 2 + 1 = 3 /\ 3 + 1 = 4 /\ 4 + 1 = 5
        /\ 1 \in 1 .. 4 /\ 2 \in 1 .. 4 /\ 3 \in 1 .. 4 /\ 4 \in 1 .. 4  OBVIOUS
  <2> HIDE DEF state
  <2>4. st[a[1 + 1] - 1] = state(b1)  BY <1>4, <1>5, <2>2, <2>3
  <2> HIDE DEF b1
  <2>5. st[a[2 + 1] - 1] = state(b2)  BY <1>4, <1>5, <2>3, <2>4
  <2> HIDE DEF b2
  <2>6. st[a[3 + 1] - 1] = state(b3)  BY <1>4, <1>5, <2>3, <2>5
  <2> HIDE DEF b3
  <2>7. st[a[4 + 1] - 1] = state(b4)  BY <1>4, <1>5, <2>3, <2>6
  <2> QED  BY <2>1, <2>3, <2>7
<1>7. Scan(s).bytes = b4 /\ ~Scan(s).named  BY <1>2, <1>3, <1>6
<1>8. PICK t \in Seq(Nat) : t = b4 /\ Len(t) = 4 /\ \A k \in 1 .. 4 : t[k] = byte(k)
  <2>0. <<>> \in Seq(Nat) /\ Len(<<>>) = 0 /\ byte(1) \in Nat /\ byte(2) \in Nat /\ byte(3) \in Nat /\ byte(4) \in Nat
    <3>1. 1 \in 1 .. 4 /\ 2 \in 1 .. 4 /\ 3 \in 1 .. 4 /\ 4 \in 1 .. 4  OBVIOUS
    <3> QED  BY <1>4, <3>1
  <2>1. PICK t1 \in Seq(Nat) : IsAppend(t1, <<>>, 0, byte(1))  BY <2>0, Appended
  <2>2. t1 = b1 /\ Len(t1) = 1 /\ t1[1] = byte(1)  BY <2>1 DEF IsAppend
  <2>3. PICK t2 \in Seq(Nat) : IsAppend(t2, t1, 1, byte(2))  BY <2>0, <2>2, Appended
  <2>4. t2 = b2 /\ Len(t2) = 2 /\ t2[1] = byte(1) /\ t2[2] = byte(2)
    <3> HIDE DEF b1
    <3> QED  BY <2>2, <2>3 DEF IsAppend
  <2>5. PICK t3 \in Seq(Nat) : IsAppend(t3, t2, 2, byte(3))  BY <2>0, <2>4, Appended
  <2>6. t3 = b3 /\ Len(t3) = 3 /\ t3[1] = byte(1) /\ t3[2] = byte(2) /\ t3[3] = byte(3)
    <3> HIDE DEF b2
    <3> QED  BY <2>4, <2>5 DEF IsAppend
  <2>7. PICK t4 \in Seq(Nat) : IsAppend(t4, t3, 3, byte(4))  BY <2>0, <2>6, Appended
  <2>8. t4 = b4 /\ Len(t4) = 4 /\ t4[1] = byte(1) /\ t4[2] = byte(2) /\ t4[3] = byte(3) /\ t4[4] = byte(4)
    <3> HIDE DEF b3
    <3> QED  BY <2>6, <2>7 DEF IsAppend
  <2>9. \A k \in 1 .. 4 : k = 1 \/ k = 2 \/ k = 3 \/ k = 4  OBVIOUS
  <2> HIDE DEF b4
  <2> QED  BY <2>8, <2>9
<1>9. [k \in 1 .. 4 |-> byte(k)] = b4
  <2>1. DOMAIN t = 1 .. 4 /\ t = [k \in DOMAIN t |-> t[k]]  BY <1>8
  <2> HIDE DEF b4
  <2> QED  BY <1>8, <2>1
<1>10. Len(b4) = 4 /\ SubSeq(b4, 1, 4) = b4
  <2>1. SubSeq(t, 1, Len(t)) = t  BY SubSeqFull
  <2> HIDE DEF b4
  <2> QED  BY <1>8, <2>1
<1>11. IP!Ip4Scan(s, 1).ip = b4  BY <1>1, <1>9 DEF byte
<1> HIDE DEF b4
<1> QED  BY <1>5, <1>7, <1>10, <1>11 DEF FourBytes

-----------------------------------------------------------------------------
(***************************************************************************)
(* Readers of packets                                                      *)
(***************************************************************************)
\* The place behind a name, from the name's first byte on.
SkipFrom(buf, p) ==
  IF p >= Len(buf) THEN 0
  ELSE IF buf[p + 1] >= Ptr THEN p + 2
  ELSE IF buf[p + 1] >= Bad THEN 0
  ELSE IF buf[p + 1] = 0 THEN p + 1 ELSE SkipName(buf, p + 1 + buf[p + 1])

LEMMA SkipNameIs ==
  ASSUME NEW buf \in Seq(Nat)
  PROVE  \A p \in Nat : SkipName(buf, p) \in Nat /\ SkipName(buf, p) = SkipFrom(buf, p)
<1>1. PICK l \in Nat : l = Len(buf)  BY LenProperties
<1>2. \A p \in Nat : p < l => buf[p + 1] \in Nat
  <2> SUFFICES ASSUME NEW p \in Nat, p < l PROVE buf[p + 1] \in Nat  OBVIOUS
  <2>1. p + 1 \in 1 .. l  OBVIOUS
  <2> QED  BY <1>1, <2>1, ElementOfSeq
<1> DEFINE byte(p) == buf[p + 1]
           step(h, p) == IF p >= l THEN 0
                         ELSE IF byte(p) >= Ptr THEN p + 2
                         ELSE IF byte(p) >= Bad THEN 0
                         ELSE IF byte(p) = 0 THEN p + 1 ELSE h[p + 1 + byte(p)]
           Is(f) == f = [p \in Nat |-> step(f, p)]
           v == CHOOSE f : Is(f)
<1>3. \A p \in Nat : SkipName(buf, p) = v[p]  BY <1>1 DEF SkipName
<1>4. \A p \in Nat : p < l => byte(p) \in Nat /\ p + 1 + byte(p) \in Nat /\ p + 1 + byte(p) > p
  <2> SUFFICES ASSUME NEW p \in Nat, p < l
               PROVE  byte(p) \in Nat /\ p + 1 + byte(p) \in Nat /\ p + 1 + byte(p) > p  OBVIOUS
  <2>1. PICK c \in Nat : c = byte(p)  BY <1>2
  <2> HIDE DEF byte
  <2> QED  BY <2>1
<1>5. ASSUME NEW h, NEW p \in Nat, \A o \in Nat : o > p => h[o] \in Nat PROVE step(h, p) \in Nat
  <2> HIDE DEF byte
  <2> QED  BY <1>4, <1>5
<1>6. ASSUME NEW g, NEW h, NEW p \in Nat, \A o \in Nat : o > p => g[o] = h[o] PROVE step(g, p) = step(h, p)
  <2> HIDE DEF byte
  <2> QED  BY <1>4, <1>6
\* positions are looked at from the end
<1>7. \E h \in [Nat -> Nat] : \A p \in Nat : h[p] = step(h, p)
  <2> DEFINE From(k) == \E h \in [Nat -> Nat] : \A p \in Nat : p >= l - k => h[p] = step(h, p)
             T == {k \in 0 .. l : From(k)}
  <2>1. From(0)
    <3> DEFINE h == [p \in Nat |-> 0]
    <3>1. h \in [Nat -> Nat] /\ \A p \in Nat : p >= l - 0 => h[p] = step(h, p)  OBVIOUS
    <3> QED  BY <3>1
  <2>2. ASSUME NEW k \in 1 .. l, From(k - 1) PROVE From(k)
    <3>1. PICK h \in [Nat -> Nat] : \A p \in Nat : p >= l - (k - 1) => h[p] = step(h, p)  BY <2>2
    <3>2. PICK o \in Nat : o = l - k  OBVIOUS
    <3>3. step(h, o) \in Nat  BY <1>5
    <3> DEFINE g == [p \in Nat |-> IF p = o THEN step(h, o) ELSE h[p]]
    <3>4. g \in [Nat -> Nat] /\ g[o] = step(h, o) /\ \A p \in Nat : p # o => g[p] = h[p]
      <4> HIDE DEF step
      <4> QED  BY <3>3
    <3> HIDE DEF g, step
    <3>5. ASSUME NEW p \in Nat, p >= l - k PROVE g[p] = step(g, p)
      <4>1. p >= o /\ (p # o => p >= l - (k - 1))  BY <3>2, <3>5
      <4>2. \A i \in Nat : i > p => g[i] = h[i]  BY <3>4, <4>1
      <4>3. step(g, p) = step(h, p)  BY <1>6, <4>2
      <4> QED  BY <3>1, <3>4, <4>1, <4>3
    <3> QED  BY <3>4, <3>5
  <2> HIDE DEF From
  <2>3. 0 \in T /\ \A k \in 1 .. l : k - 1 \in T => k \in T  BY <2>1, <2>2
  <2>4. l \in T
    <3> HIDE DEF T
    <3>1. \A k \in 0 .. l : k \in T  BY <2>3, Induct
    <3> QED  BY <3>1
  <2>5. From(l)  BY <2>4
  <2>6. \A p \in Nat : p >= l - l  OBVIOUS
  <2> HIDE DEF step
  <2> QED  BY <2>5, <2>6 DEF From
<1>8. PICK f : f = v /\ Is(f)
  <2>1. \E f : Is(f)
    <3>1. PICK h \in [Nat -> Nat] : \A p \in Nat : h[p] = step(h, p)  BY <1>7
    <3> HIDE DEF step
    <3>2. h = [p \in Nat |-> step(h, p)]  BY <3>1
    <3> QED  BY <3>2
  <2> HIDE DEF Is
  <2> QED  BY <2>1
<1>9. \A p \in Nat : f[p] = step(f, p)
  <2> HIDE DEF v, step
  <2> QED  BY <1>8
<1> DEFINE T == {k \in 0 .. l : \A p \in Nat : p >= l - k => f[p] \in Nat}
<1>10. 0 \in T
  <2>1. \A p \in Nat : p >= l - 0 => step(f, p) = 0  OBVIOUS
  <2> HIDE DEF step
  <2> QED  BY <1>9, <2>1
<1>11. ASSUME NEW k \in 1 .. l, k - 1 \in T PROVE k \in T
  <2>1. \A p \in Nat : p >= l - (k - 1) => f[p] \in Nat  BY <1>11
  <2>2. ASSUME NEW p \in Nat, p >= l - k PROVE f[p] \in Nat
    <3>1. \A o \in Nat : o > p => f[o] \in Nat
      <4>1. \A o \in Nat : o > p => o >= l - (k - 1)  BY <2>2
      <4> QED  BY <2>1, <4>1
    <3> HIDE DEF step
    <3> QED  BY <1>5, <1>9, <3>1
  <2> QED  BY <2>2
<1>12. l \in T
  <2> HIDE DEF T
  <2>1. \A k \in 1 .. l : k - 1 \in T => k \in T  BY <1>11
  <2>2. \A k \in 0 .. l : k \in T  BY <1>10, <2>1, Induct
  <2> QED  BY <2>2
<1>13. \A p \in Nat : f[p] \in Nat
  <2>1. \A p \in Nat : p >= l - l  OBVIOUS
  <2> QED  BY <1>12, <2>1
<1> HIDE DEF v
<1>14. \A p \in Nat : SkipName(buf, p) = f[p]  BY <1>3, <1>8
<1>15. ASSUME NEW p \in Nat PROVE step(f, p) = SkipFrom(buf, p)
  <2>1. ASSUME p < l PROVE f[p + 1 + byte(p)] = SkipName(buf, p + 1 + byte(p))  BY <1>4, <1>14, <2>1
  <2> QED  BY <1>1, <2>1 DEF SkipFrom
<1> HIDE DEF step
<1> QED  BY <1>9, <1>13, <1>14, <1>15

\* r is a reader in the midst of its work
Reading(r) == r.rc \in Int /\ r = [rc |-> r.rc, out |-> r.out]

LEMMA ReadingKept ==
  ASSUME NEW r, Reading(r)
  PROVE  /\ \A rc \in Int : Reading([r EXCEPT !.rc = rc])
         /\ \A out1 : Reading([r EXCEPT !.out = out1])
<1>1. \A rc \in Int : [r EXCEPT !.rc = rc] = [rc |-> rc, out |-> r.out]  BY DEF Reading
<1>2. \A out1 : [r EXCEPT !.out = out1] = [rc |-> r.rc, out |-> out1]  BY DEF Reading
<1> QED  BY <1>1, <1>2 DEF Reading

LEMMA FailedReads ==
  ASSUME NEW r, Reading(r)
  PROVE  Reading(Failed(r, DNS_MEM)) /\ Reading(Failed(r, DNS_ERR))
<1>1. DNS_MEM \in Int /\ DNS_ERR \in Int  BY DEF DNS_MEM, DNS_ERR
<1> QED  BY <1>1, ReadingKept DEF Failed

LEMMA CatReads ==
  ASSUME NEW r, Reading(r), NEW bytes, NEW room
  PROVE  Reading(Cat(r, bytes, room))
<1>1. Reading(Failed(r, DNS_MEM))  BY FailedReads
<1>2. Reading([r EXCEPT !.out = @ \o bytes])
  <2>1. \A out1 : Reading([r EXCEPT !.out = out1])  BY ReadingKept
  <2> QED  BY <2>1
<1> QED  BY <1>1, <1>2 DEF Cat

LEMMA CatNameReads ==
  ASSUME NEW r, Reading(r), NEW dn, NEW room
  PROVE  Reading(CatName(r, dn, room))
<1>1. Reading(Failed(r, DNS_ERR))  BY FailedReads
<1>2. \A out1 : Reading([r EXCEPT !.out = out1])  BY ReadingKept
<1>3. Reading([r EXCEPT !.out = Append(@, Dot)])  BY <1>2
<1> DEFINE ps == DotPieces(dn)
           fits(k) == Len(r.out) + Len(FlattenSeq(SubSeq(ps, 1, k))) <= room
           k1 == CHOOSE k \in 0 .. Len(ps) : fits(k) /\ (k = Len(ps) \/ ~fits(k + 1))
<1>4. Reading([r EXCEPT !.out = @ \o FlattenSeq(SubSeq(ps, 1, k1))])
  <2> HIDE DEF ps, k1
  <2> QED  BY <1>2
<1>5. CatName(r, dn, room) = IF r.rc < 0 THEN r
                             ELSE IF dn = <<0>>
                             THEN IF Len(r.out) + 1 > room THEN Failed(r, DNS_ERR) ELSE [r EXCEPT !.out = Append(@, Dot)]
                             ELSE [r EXCEPT !.out = @ \o FlattenSeq(SubSeq(ps, 1, k1))]
  BY Zenon DEF CatName
<1> HIDE DEF ps, k1
<1> QED  BY <1>1, <1>3, <1>4, <1>5

LEMMA CatCopyReads ==
  ASSUME NEW r, Reading(r), NEW before, NEW buf, NEW pos, NEW n, NEW room
  PROVE  Reading(CatCopy(r, before, buf, pos, n, room))
<1>1. Reading(Cat(r, before \o SubSeq(buf, pos + 1, pos + n), room))  BY CatReads
<1>2. Reading(Failed(r, DNS_ERR))  BY FailedReads
<1> QED  BY <1>1, <1>2, Zenon DEF CatCopy

LEMMA CatGetNameReads ==
  ASSUME NEW r, Reading(r), NEW buf, NEW pos, NEW room
  PROVE  Reading(CatGetName(r, buf, pos, room))
<1>1. Reading(CatName(r, GetName(buf, pos).name, room))  BY CatNameReads
<1>2. Reading(Failed(r, DNS_ERR))  BY FailedReads
<1> QED  BY <1>1, <1>2, Zenon DEF CatGetName

LEMMA CatMxReads ==
  ASSUME NEW r, Reading(r), NEW buf, NEW pos, NEW room
  PROVE  Reading(CatMx(r, buf, pos, room))
<1>1. Reading(Failed(r, DNS_ERR))  BY FailedReads
<1>2. Reading(CatCopy(r, <<>>, buf, pos, 2, room))  BY CatCopyReads
<1>3. Reading(CatGetName(CatCopy(r, <<>>, buf, pos, 2, room), buf, pos + 2, room))  BY <1>2, CatGetNameReads
<1>4. Reading(Cat(CatGetName(CatCopy(r, <<>>, buf, pos, 2, room), buf, pos + 2, room), <<0>>, room))
  BY <1>3, CatReads
<1> QED  BY <1>1, <1>4, Zenon DEF CatMx

\* The loop over the bytes of a text has a result, and it is a reader.
LEMMA CatTxtReads ==
  ASSUME NEW r, Reading(r), NEW buf, NEW pos, NEW n \in Nat, NEW room
  PROVE  Reading(CatTxt(r, buf, pos, n, room))
<1> DEFINE base == [left |-> 0, r |-> r]
           step(b, i) == TxtByte(b, buf[pos + i], room)
           Loop(f, k) == f = [i \in 0 .. k |-> IF i = 0 THEN base ELSE step(f[i - 1], i)]
           v == CHOOSE f : Loop(f, n)
<1>1. \E f : Loop(f, n)
  <2> HIDE DEF base, step
  <2> DEFINE T == {k \in 0 .. n : \E f : Loop(f, k)}
  <2>1. Loop([i \in 0 .. 0 |-> base], 0)  OBVIOUS
  <2>2. ASSUME NEW k \in 1 .. n, NEW f, Loop(f, k - 1) PROVE \E g : Loop(g, k)
    <3> DEFINE g == [i \in 0 .. k |-> IF i = k THEN step(f[k - 1], k) ELSE f[i]]
    <3>1. \A i \in 0 .. k : g[i] = IF i = 0 THEN base ELSE step(g[i - 1], i)
      <4> SUFFICES ASSUME NEW i \in 0 .. k PROVE g[i] = IF i = 0 THEN base ELSE step(g[i - 1], i)  OBVIOUS
      <4>1. CASE i = 0
        <5>1. 0 \in 0 .. k - 1 /\ g[0] = f[0]  OBVIOUS
        <5>2. f[0] = base  BY <2>2, <5>1
        <5> QED  BY <4>1, <5>1, <5>2
      <4>2. CASE i = k
        <5>1. g[k] = step(f[k - 1], k) /\ g[k - 1] = f[k - 1] /\ k # 0
          <6>1. k \in 0 .. k /\ k - 1 \in 0 .. k /\ k - 1 # k /\ k # 0  OBVIOUS
          <6> QED  BY <6>1
        <5> HIDE DEF g
        <5> QED  BY <4>2, <5>1
      <4>3. CASE i # 0 /\ i # k
        <5>1. i \in 0 .. k - 1 /\ g[i] = f[i] /\ g[i - 1] = f[i - 1]  BY <4>3
        <5>2. f[i] = step(f[i - 1], i)  BY <2>2, <4>3, <5>1
        <5> QED  BY <4>3, <5>1, <5>2
      <4> QED  BY <4>1, <4>2, <4>3
    <3>2. g = [i \in 0 .. k |-> g[i]]  OBVIOUS
    <3>3. Loop(g, k)
      <4> HIDE DEF g
      <4> QED  BY <3>1, <3>2
    <3> QED  BY <3>3
  <2> HIDE DEF Loop
  <2>3. 0 \in T /\ \A k \in 1 .. n : k - 1 \in T => k \in T  BY <2>1, <2>2
  <2>4. n \in 0 .. n  OBVIOUS
  <2>5. n \in T
    <3> HIDE DEF T
    <3> QED  BY <2>3, <2>4, Induct
  <2> QED  BY <2>5
<1>2. PICK f : f = v /\ Loop(f, n)
  <2> HIDE DEF Loop
  <2> QED  BY <1>1
<1>3. f[0] = base /\ \A i \in 1 .. n : f[i] = step(f[i - 1], i)
  <2> HIDE DEF v, base, step
  <2>1. 0 \in 0 .. n /\ \A i \in 1 .. n : i \in 0 .. n /\ i # 0  OBVIOUS
  <2>2. \A i \in 0 .. n : f[i] = IF i = 0 THEN base ELSE step(f[i - 1], i)  BY <1>2
  <2> QED  BY <2>1, <2>2
<1> DEFINE Good(st) == st = [left |-> st.left, r |-> st.r] /\ Reading(st.r)
           T == {i \in 0 .. n : Good(f[i])}
<1>4. ASSUME NEW st, Good(st), NEW c PROVE Good(TxtByte(st, c, room))
  <2>1. Reading(Cat(st.r, <<Printable(c)>>, room))  BY <1>4, CatReads
  <2>2. [st EXCEPT !.left = c] = [left |-> c, r |-> st.r]
    <3> HIDE DEF v
    <3> QED  BY <1>4
  <2> DEFINE a == [left |-> c, r |-> st.r]
             b == [left |-> st.left - 1, r |-> Cat(st.r, <<Printable(c)>>, room)]
  <2>3. Good(a)  BY <1>4
  <2>4. Good(b)  BY <2>1
  <2>5. TxtByte(st, c, room) = IF st.left = 0 THEN a ELSE b  BY <2>2, Zenon DEF TxtByte
  <2> HIDE DEF a, b, Good
  <2> QED  BY <2>3, <2>4, <2>5
<1>5. 0 \in T
  <2>1. Good(base)  OBVIOUS
  <2> HIDE DEF Good, base
  <2> QED  BY <1>3, <2>1
<1>6. ASSUME NEW i \in 1 .. n, i - 1 \in T PROVE i \in T
  <2>1. Good(f[i - 1])  BY <1>6
  <2>2. Good(step(f[i - 1], i))
    <3> HIDE DEF Good
    <3> QED  BY <1>4, <2>1
  <2> HIDE DEF Good, step
  <2> QED  BY <1>3, <2>2
<1>7. Good(f[n])
  <2>1. n \in 0 .. n /\ \A i \in 1 .. n : i - 1 \in T => i \in T
    <3> HIDE DEF T
    <3> QED  BY <1>6
  <2>2. n \in T
    <3> HIDE DEF T
    <3> QED  BY <1>5, <2>1, Induct
  <2> QED  BY <2>2
<1>8. CatTxt(r, buf, pos, n, room) = IF pos + n > Len(buf) THEN Failed(r, DNS_ERR) ELSE v[n].r
  BY DEF CatTxt
<1>9. Reading(Failed(r, DNS_ERR))  BY FailedReads
<1>10. Reading(f[n].r)  BY <1>7
<1> HIDE DEF v
<1> QED  BY <1>2, <1>8, <1>9, <1>10

LEMMA RecordReads ==
  ASSUME NEW kind, NEW r, Reading(r), NEW type, NEW buf, NEW pos, NEW n \in Nat, NEW room
  PROVE  Reading(Record(kind, r, type, buf, pos, n, room))
<1>1. /\ Reading(CatCopy(r, <<>>, buf, pos, 4, room)) /\ Reading(CatCopy(r, <<>>, buf, pos, 16, room))
      /\ Reading(CatCopy(r, IP!Mapped(<<>>), buf, pos, 4, room))
  BY CatCopyReads
<1>2. Reading(CatMx(r, buf, pos, room))  BY CatMxReads
<1>3. Reading(CatTxt(r, buf, pos, n, room))  BY CatTxtReads
<1>4. Reading(CatGetName(r, buf, pos, room))  BY CatGetNameReads
<1> DEFINE rec == Record(kind, r, type, buf, pos, n, room)
<1>5. CASE kind = "ip4"
  <2>1. CASE type = TypeA /\ n = 4
    <3>1. rec = CatCopy(r, <<>>, buf, pos, 4, room)  BY <1>5, <2>1 DEF Record
    <3> QED  BY <1>1, <3>1
  <2>2. CASE ~(type = TypeA /\ n = 4)
    <3>1. rec = r  BY <1>5, <2>2 DEF Record
    <3> QED  BY <3>1
  <2> QED  BY <2>1, <2>2
<1>6. CASE kind = "ip6"
  <2>1. CASE type = TypeAaaa /\ n = 16
    <3>1. rec = CatCopy(r, <<>>, buf, pos, 16, room)  BY <1>6, <2>1 DEF Record
    <3> QED  BY <1>1, <3>1
  <2>2. CASE type = TypeA /\ n = 4
    <3>1. rec = CatCopy(r, IP!Mapped(<<>>), buf, pos, 4, room)  BY <1>6, <2>2 DEF Record
    <3> QED  BY <1>1, <3>1
  <2>3. CASE ~(type = TypeAaaa /\ n = 16) /\ ~(type = TypeA /\ n = 4)
    <3>1. rec = r  BY <1>6, <2>3 DEF Record
    <3> QED  BY <3>1
  <2> QED  BY <2>1, <2>2, <2>3
<1>7. CASE kind = "mx"
  <2>1. rec \in {CatMx(r, buf, pos, room), r}  BY <1>7 DEF Record
  <2> QED  BY <1>2, <2>1
<1>8. CASE kind = "txt"
  <2>1. rec \in {CatTxt(r, buf, pos, n, room), r}  BY <1>8 DEF Record
  <2> QED  BY <1>3, <2>1
<1>9. CASE kind \in {"cname", "name"}
  <2>1. rec \in {CatGetName(r, buf, pos, room), r}  BY <1>9 DEF Record
  <2> QED  BY <1>4, <2>1
<1>10. CASE kind \notin Kinds
  <2>1. rec = r  BY <1>10 DEF Record, Kinds
  <2> QED  BY <2>1
<1> QED  BY <1>5, <1>6, <1>7, <1>8, <1>9, <1>10 DEF Kinds

\* A reader is at a position.
At(st) == Reading(st.r) /\ st.pos \in Nat

LEMMA GoesOnReads ==
  ASSUME NEW kind, NEW r, Reading(r), NEW named, NEW pos \in Nat
  PROVE  At(GoesOn(kind, r, named, pos))
<1>1. r.rc \in Int /\ r.rc + 1 \in Int /\ 1 \in Int  BY DEF Reading
<1>2. Reading([r EXCEPT !.rc = r.rc + 1]) /\ Reading([r EXCEPT !.rc = 1])
  <2>1. \A rc \in Int : Reading([r EXCEPT !.rc = rc])  BY ReadingKept
  <2> QED  BY <1>1, <2>1
<1>3. [r EXCEPT !.rc = @ + 1] = [r EXCEPT !.rc = r.rc + 1]  OBVIOUS
<1>4. \A g : Reading(g) => At([r |-> g, pos |-> pos]) /\ At([r |-> g, pos |-> 0])  BY DEF At
<1>5. \E g : Reading(g) /\ GoesOn(kind, r, named, pos) \in {[r |-> g, pos |-> pos], [r |-> g, pos |-> 0]}
  BY <1>2, <1>3 DEF GoesOn
<1> QED  BY <1>4, <1>5

LEMMA ReadRecordReads ==
  ASSUME NEW kind, NEW r, Reading(r), NEW buf \in Seq(Nat), NEW pos \in Nat, NEW left, NEW room
  PROVE  At(ReadRecord(kind, r, buf, DataAt(buf, pos), left, room))
<1>1. PICK l \in Nat : l = Len(buf)  BY LenProperties
<1>2. PICK data \in Nat : data = DataAt(buf, pos) /\ (data # 0 => data \in 10 .. l)
  <2>1. PICK head \in Nat : head = SkipName(buf, pos)  BY SkipNameIs
  <2>2. DataAt(buf, pos) = IF head = 0 THEN 0 ELSE IF head + 10 > l THEN 0 ELSE head + 10
    BY <1>1, <2>1 DEF DataAt, PacketCopy
  <2> QED  BY <2>2
<1>3. CASE data = 0
  <2>1. Reading(Failed(r, DNS_ERR))  BY FailedReads
  <2>2. At([r |-> Failed(r, DNS_ERR), pos |-> 0])  BY <2>1 DEF At
  <2>3. ReadRecord(kind, r, buf, data, left, room) = [r |-> Failed(r, DNS_ERR), pos |-> 0]
    BY <1>3, Zenon DEF ReadRecord
  <2> QED  BY <1>2, <2>2, <2>3
<1>4. CASE data # 0
  <2>1. data - 1 \in 1 .. l /\ data \in 1 .. l /\ (data - 2) + 1 = data - 1 /\ (data - 2) + 2 = data
    BY <1>2, <1>4
  <2>2. buf[data - 1] \in Nat /\ buf[data] \in Nat  BY <1>1, <2>1, ElementOfSeq
  <2>3. PICK n \in Nat : n = Number(buf, data - 2)
    <3>1. Number(buf, data - 2) = buf[data - 1] * Byte + buf[data]  BY <2>1 DEF Number
    <3>2. \A x, y \in Nat : x * Byte + y \in Nat  BY NamesAssumption
    <3> QED  BY <2>2, <3>1, <3>2
  <2> DEFINE type == SubSeq(buf, data - 9, data - 8)
             ours == SubSeq(buf, data - 7, data - 6) = ClassIn
             r1 == IF ours THEN Record(kind, r, type, buf, data, n, room) ELSE r
             r2 == Separated(kind, r1, left, room)
  <2>4. Reading(r1)
    <3>1. Reading(Record(kind, r, type, buf, data, n, room))
      <4> HIDE DEF type
      <4> QED  BY RecordReads
    <3> QED  BY <3>1, Zenon
  <2> HIDE DEF r1
  <2>5. Reading(r2)
    <3>1. Reading(Cat(r1, <<10>>, room))  BY <2>4, CatReads
    <3> QED  BY <2>4, <3>1, Zenon DEF Separated
  <2> HIDE DEF r2
  <2>6. At(GoesOn(kind, r2, ours /\ type = TypePtr, data + n))
    <3>1. data + n \in Nat  OBVIOUS
    <3> HIDE DEF ours, type
    <3> QED  BY <2>5, <3>1, GoesOnReads
  <2>7. ReadRecord(kind, r, buf, data, left, room) = GoesOn(kind, r2, ours /\ type = TypePtr, data + n)
    BY <1>4, <2>3, Zenon DEF ReadRecord, r1, r2
  <2> HIDE DEF ours, type
  <2> QED  BY <1>2, <2>6, <2>7
<1> QED  BY <1>3, <1>4

\* What a reader of packets says is a number.
LEMMA PacketIsRead ==
  ASSUME NEW kind, NEW buf \in Seq(Nat), NEW room
  PROVE  ReadPacket(kind, buf, room).rc \in Int
<1>1. PICK l \in Nat : l = Len(buf)  BY LenProperties
<1>2. PICK begin \in Nat : begin = Answers(buf) /\ (begin # 0 => l >= 12)
  <2>1. PacketCopy(buf, 0, 12) = IF 12 > l THEN 0 ELSE 12  BY <1>1 DEF PacketCopy
  <2>2. SkipName(buf, 12) \in Nat  BY SkipNameIs
  <2>3. Answers(buf) = IF 12 > l \/ SkipName(buf, 12) = 0 THEN 0 ELSE SkipName(buf, 12) + 4
    BY <2>1 DEF Answers
  <2> QED  BY <2>2, <2>3
<1>3. PICK count \in Nat : count = IF begin = 0 THEN 0 ELSE Number(buf, 6)
  <2>1. CASE begin # 0
    <3>1. 7 \in 1 .. l /\ 8 \in 1 .. l  BY <1>2, <2>1
    <3>2. buf[7] \in Nat /\ buf[8] \in Nat  BY <1>1, <3>1, ElementOfSeq
    <3>3. Number(buf, 6) = buf[7] * Byte + buf[8]  BY DEF Number
    <3>4. \A x, y \in Nat : x * Byte + y \in Nat  BY NamesAssumption
    <3> QED  BY <2>1, <3>2, <3>3, <3>4
  <2> QED  BY <2>1
<1> DEFINE base == [r |-> [rc |-> IF begin = 0 THEN DNS_ERR ELSE 0, out |-> <<>>], pos |-> begin]
           step(b, k) == IF b.pos = 0 THEN b
                         ELSE ReadRecord(kind, b.r, buf, DataAt(buf, b.pos), count + 1 - k, room)
           Loop(f, k) == f = [i \in 0 .. k |-> IF i = 0 THEN base ELSE step(f[i - 1], i)]
           v == CHOOSE f : Loop(f, count)
<1>4. \E f : Loop(f, count)
  <2> HIDE DEF base, step
  <2> DEFINE T == {k \in 0 .. count : \E f : Loop(f, k)}
  <2>1. Loop([i \in 0 .. 0 |-> base], 0)  OBVIOUS
  <2>2. ASSUME NEW k \in 1 .. count, NEW f, Loop(f, k - 1) PROVE \E g : Loop(g, k)
    <3> DEFINE g == [i \in 0 .. k |-> IF i = k THEN step(f[k - 1], k) ELSE f[i]]
    <3>1. \A i \in 0 .. k : g[i] = IF i = 0 THEN base ELSE step(g[i - 1], i)
      <4> SUFFICES ASSUME NEW i \in 0 .. k PROVE g[i] = IF i = 0 THEN base ELSE step(g[i - 1], i)  OBVIOUS
      <4>1. CASE i = 0
        <5>1. 0 \in 0 .. k - 1 /\ g[0] = f[0]  OBVIOUS
        <5>2. f[0] = base  BY <2>2, <5>1
        <5> QED  BY <4>1, <5>1, <5>2
      <4>2. CASE i = k
        <5>1. g[k] = step(f[k - 1], k) /\ g[k - 1] = f[k - 1] /\ k # 0
          <6>1. k \in 0 .. k /\ k - 1 \in 0 .. k /\ k - 1 # k /\ k # 0  OBVIOUS
          <6> QED  BY <6>1
        <5> HIDE DEF g
        <5> QED  BY <4>2, <5>1
      <4>3. CASE i # 0 /\ i # k
        <5>1. i \in 0 .. k - 1 /\ g[i] = f[i] /\ g[i - 1] = f[i - 1]  BY <4>3
        <5>2. f[i] = step(f[i - 1], i)  BY <2>2, <4>3, <5>1
        <5> QED  BY <4>3, <5>1, <5>2
      <4> QED  BY <4>1, <4>2, <4>3
    <3>2. g = [i \in 0 .. k |-> g[i]]  OBVIOUS
    <3>3. Loop(g, k)
      <4> HIDE DEF g
      <4> QED  BY <3>1, <3>2
    <3> QED  BY <3>3
  <2> HIDE DEF Loop
  <2>3. 0 \in T /\ \A k \in 1 .. count : k - 1 \in T => k \in T  BY <2>1, <2>2
  <2>4. count \in 0 .. count  OBVIOUS
  <2>5. count \in T
    <3> HIDE DEF T
    <3> QED  BY <2>3, <2>4, Induct
  <2> QED  BY <2>5
<1>5. PICK f : f = v /\ Loop(f, count)
  <2> HIDE DEF Loop
  <2> QED  BY <1>4
<1>6. f[0] = base /\ \A i \in 1 .. count : f[i] = step(f[i - 1], i)
  <2> HIDE DEF v, base, step
  <2>1. 0 \in 0 .. count /\ \A i \in 1 .. count : i \in 0 .. count /\ i # 0  OBVIOUS
  <2>2. \A i \in 0 .. count : f[i] = IF i = 0 THEN base ELSE step(f[i - 1], i)  BY <1>5
  <2> QED  BY <2>1, <2>2
<1> DEFINE T == {i \in 0 .. count : At(f[i])}
<1>7. 0 \in T
  <2>1. DNS_ERR \in Int /\ 0 \in Int  BY DEF DNS_ERR
  <2>2. At(base)  BY <2>1 DEF At, Reading
  <2> HIDE DEF base
  <2> QED  BY <1>6, <2>2
<1>8. ASSUME NEW i \in 1 .. count, i - 1 \in T PROVE i \in T
  <2>1. At(f[i - 1])  BY <1>8
  <2>2. At(step(f[i - 1], i))
    <3>1. At(ReadRecord(kind, f[i - 1].r, buf, DataAt(buf, f[i - 1].pos), count + 1 - i, room))
      BY <2>1, ReadRecordReads DEF At
    <3> QED  BY <2>1, <3>1, Zenon
  <2> HIDE DEF step, v
  <2> QED  BY <1>6, <2>2
<1>9. At(f[count])
  <2>1. count \in 0 .. count /\ \A i \in 1 .. count : i - 1 \in T => i \in T
    <3> HIDE DEF T
    <3> QED  BY <1>8
  <2>2. count \in T
    <3> HIDE DEF T
    <3> QED  BY <1>7, <2>1, Induct
  <2> QED  BY <2>2
<1>10. ReadPacket(kind, buf, room) = v[count].r  BY <1>2, <1>3 DEF ReadPacket
<1> HIDE DEF v
<1> QED  BY <1>5, <1>9, <1>10 DEF At, Reading

LEMMA ReadIs ==
  ASSUME NEW kind \in Kinds, NEW packet \in Packets, NEW room
  PROVE  Read(kind, packet, room).rc \in Int
<1>1. packet \in Seq(Nat)
  <2>1. packet \in Seq(0 .. Byte - 1)  BY FrontAssumption
  <2>2. 0 .. Byte - 1 \subseteq Nat  BY NamesAssumption
  <2> QED  BY <2>1, <2>2, WiderSeq
<1>2. Read(kind, packet, room) = ReadPacket(kind, packet, room)
  BY Zenon DEF Kinds, Read, Ip4Packet, Ip6Packet, MxPacket, TxtPacket, CnamePacket, NamePacket
<1> QED  BY <1>1, <1>2, PacketIsRead

-----------------------------------------------------------------------------
(***************************************************************************)
(* Calls                                                                   *)
(***************************************************************************)
Codes == {DNS_INT, DNS_ERR, DNS_MEM} \cup Nat
Calls == [at : {"idle", "asking", "done"}, kind : Kinds, rc : Codes]

\* a call that asks has no result yet; what it asks for is text
CallInv == call \in Calls /\ asked \in Seq(Nat) /\ (call.at = "asking" => call.rc = 0)
BlocksInv == q \subseteq Files /\ tx \in Holding /\ BlocksOwned
FrontInv == CallInv /\ BlocksInv /\ NothingHeldBehind /\ LiteralsAreAddresses

LEMMA CodesAre == 0 \in Codes /\ 1 \in Codes /\ DNS_ERR \in Codes /\ DNS_MEM \in Codes /\ DNS_INT \in Codes
                  /\ DNS_ERR = -2 /\ DNS_MEM = -1 /\ DNS_INT = -4
BY DEF Codes, DNS_ERR, DNS_MEM, DNS_INT

LEMMA TextsAre ==
  ASSUME NEW text \in Texts
  PROVE  text \in Seq(Nat)
<1>1. text \in Seq(1 .. 255)  BY FrontAssumption
<1>2. 1 .. 255 \subseteq Nat  OBVIOUS
<1> QED  BY <1>1, <1>2, WiderSeq

LEMMA FilesAreFinite ==
  ASSUME NEW S, S \subseteq Files
  PROVE  IsFiniteSet(S) /\ Cardinality(S) \in Nat
<1>1. IsFiniteSet({}) /\ \A T, x : IsFiniteSet(T) => IsFiniteSet(T \cup {x})  BY FS_EmptySet, FS_AddElement
<1>2. IsFiniteSet({"ip4"} \cup {"mx"} \cup {"txt"} \cup {"cname"} \cup {"name"})
  <2>1. IsFiniteSet({"ip4"})
    <3>1. {} \cup {"ip4"} = {"ip4"}  OBVIOUS
    <3> QED  BY <1>1, <3>1
  <2> QED  BY <1>1, <2>1
<1>3. S \subseteq {"ip4"} \cup {"mx"} \cup {"txt"} \cup {"cname"} \cup {"name"}  BY DEF Files, FileOf, Kinds
<1>4. IsFiniteSet(S)  BY <1>2, <1>3, FS_Subset
<1> QED  BY <1>4, FS_CardinalityType

LEMMA FileIs ==
  ASSUME NEW kind \in Kinds
  PROVE  FileOf(kind) \in Files
BY DEF Files

LEMMA HoldingIs ==
  ASSUME NEW t \in Holding
  PROVE  TxBlocks(t) \in Nat
BY DEF Holding, TxBlocks

\* A name that is made is one block more, or in place of another.
LEMMA MakesOwned ==
  ASSUME BlocksInv, NEW file \in Files, MakesName(file), tx' = tx
  PROVE  BlocksInv'
<1>1. IsFiniteSet(q) /\ Cardinality(q) \in Nat  BY FilesAreFinite DEF BlocksInv
<1>2. q' = q \cup {file} /\ q' \subseteq Files  BY DEF MakesName, BlocksInv
<1>3. Cardinality(q \cup {file}) = IF file \in q THEN Cardinality(q) ELSE Cardinality(q) + 1
  BY <1>1, FS_AddElement
<1>4. Cardinality(q') = Cardinality(q) + 1 - QBlocks(file)  BY <1>1, <1>2, <1>3 DEF QBlocks
<1>5. TxBlocks(tx) \in Nat  BY HoldingIs DEF BlocksInv
<1>6. QBlocks(file) \in Nat  BY DEF QBlocks
<1>7. heap = Cardinality(q) + TxBlocks(tx) /\ heap' = heap + 1 - QBlocks(file)
  BY DEF BlocksInv, BlocksOwned, MakesName
<1>8. heap' = Cardinality(q') + TxBlocks(tx)
  <2> PICK c \in Nat, u \in Nat, b \in Nat : c = Cardinality(q) /\ u = TxBlocks(tx) /\ b = QBlocks(file)
    BY <1>1, <1>5, <1>6
  <2> QED  BY <1>4, <1>7
<1> QED  BY <1>2, <1>8 DEF BlocksInv, BlocksOwned

LEMMA SameBlocks ==
  ASSUME BlocksInv, q' = q, tx' = tx, heap' = heap
  PROVE  BlocksInv'
BY DEF BlocksInv, BlocksOwned

LEMMA DoneIs ==
  ASSUME NEW kind \in Kinds, NEW rc \in Codes, Done(kind, rc), asked' \in Seq(Nat)
  PROVE  CallInv' /\ call'.at = "done" /\ call'.kind = kind /\ call'.rc = rc
BY DEF CallInv, Calls, Done

LEMMA AskingIs ==
  ASSUME NEW kind \in Kinds, Asking(kind), asked' \in Seq(Nat)
  PROVE  CallInv' /\ call'.at = "asking" /\ call'.kind = kind /\ call'.rc = 0
BY CodesAre DEF CallInv, Calls, Asking

\* A call that is about to ask for a name, or gives up.
LEMMA AsksOrGivesUp ==
  ASSUME FrontInv, NEW kind \in Kinds, asked' \in Seq(Nat),
         \/ NoName(kind)
         \/ MakesName(FileOf(kind)) /\ Asking(kind) /\ UNCHANGED tx
  PROVE  /\ CallInv' /\ BlocksInv' /\ NothingHeldBehind' /\ call'.kind = kind
         /\ call'.at \in {"asking", "done"} /\ (call'.at = "done" => call'.rc < 0)
<1>1. CASE NoName(kind)
  <2>1. Done(kind, DNS_ERR) /\ q' = q /\ tx' = tx /\ heap' = heap  BY <1>1 DEF NoName
  <2>2. CallInv' /\ call'.at = "done" /\ call'.kind = kind /\ call'.rc = DNS_ERR  BY <2>1, CodesAre, DoneIs
  <2>3. BlocksInv'  BY <2>1, SameBlocks DEF FrontInv
  <2> QED  BY <2>2, <2>3, CodesAre DEF NothingHeldBehind
<1>2. CASE MakesName(FileOf(kind)) /\ Asking(kind) /\ UNCHANGED tx
  <2>1. CallInv' /\ call'.at = "asking" /\ call'.kind = kind  BY <1>2, AskingIs
  <2>2. BlocksInv'  BY <1>2, FileIs, MakesOwned DEF FrontInv
  <2> QED  BY <2>1, <2>2 DEF NothingHeldBehind
<1> QED  BY <1>1, <1>2

\* A text of numbers is its own answer, which no number of bytes is counted for.
LEMMA NumbersKeep ==
  ASSUME FrontInv, NEW kind \in {"ip4", "ip6"}, NEW text \in Seq(Nat), asked' = text,
         NEW room, NEW memory, AskNumbers(kind, text, room, memory)
  PROVE  /\ CallInv' /\ BlocksInv' /\ NothingHeldBehind' /\ call'.kind = kind
         /\ call'.rc >= 0 => /\ call'.at = "asking" => Scan(text).named
                             /\ call'.at = "done" => ~Scan(text).named /\ call'.rc = 0
                             /\ ~Scan(text).named =>
                                  out' = SubSeq(Scan(text).bytes, 1, 4 * (Len(Scan(text).bytes) \div 4))
<1>0. kind \in Kinds /\ asked' \in Seq(Nat)  BY DEF Kinds
<1>1. CASE Len(Scan(text).bytes) > room
  <2>1. Done(kind, DNS_MEM) /\ q' = q /\ tx' = tx /\ heap' = heap  BY <1>1 DEF AskNumbers
  <2>2. CallInv' /\ call'.at = "done" /\ call'.kind = kind /\ call'.rc = DNS_MEM
    BY <1>0, <2>1, CodesAre, DoneIs
  <2>3. BlocksInv'  BY <2>1, SameBlocks DEF FrontInv
  <2> QED  BY <2>2, <2>3, CodesAre DEF NothingHeldBehind
<1>2. CASE ~(Len(Scan(text).bytes) > room) /\ ~Scan(text).named
  <2>1. /\ Done(kind, 0) /\ q' = q /\ tx' = tx /\ heap' = heap
        /\ out' = SubSeq(Scan(text).bytes, 1, 4 * (Len(Scan(text).bytes) \div 4))
    BY <1>2 DEF AskNumbers
  <2>2. CallInv' /\ call'.at = "done" /\ call'.kind = kind /\ call'.rc = 0  BY <1>0, <2>1, CodesAre, DoneIs
  <2>3. BlocksInv'  BY <2>1, SameBlocks DEF FrontInv
  <2> QED  BY <1>2, <2>1, <2>2, <2>3 DEF NothingHeldBehind
<1>3. CASE ~(Len(Scan(text).bytes) > room) /\ Scan(text).named
  <2>1. \/ NoName(kind)
        \/ MakesName(FileOf(kind)) /\ Asking(kind) /\ UNCHANGED tx
    BY <1>3 DEF AskNumbers
  <2>2. /\ CallInv' /\ BlocksInv' /\ NothingHeldBehind' /\ call'.kind = kind
        /\ call'.at \in {"asking", "done"} /\ (call'.at = "done" => call'.rc < 0)
    BY <1>0, <2>1, AsksOrGivesUp
  <2>3. call'.rc \in Int  BY <2>2, CodesAre DEF CallInv, Calls, Codes
  <2> QED  BY <1>3, <2>2, <2>3
<1> QED  BY <1>1, <1>2, <1>3

LEMMA AskIp4Keeps ==
  ASSUME FrontInv, NEW text \in Texts, NEW room, NEW memory, AskIp4(text, room, memory)
  PROVE  FrontInv'
<1>1. text \in Seq(Nat) /\ asked' = text /\ AskNumbers("ip4", text, room, memory)  BY TextsAre DEF AskIp4
<1>2. /\ CallInv' /\ BlocksInv' /\ NothingHeldBehind' /\ call'.kind = "ip4"
      /\ call'.rc >= 0 => /\ call'.at = "asking" => Scan(text).named
                          /\ call'.at = "done" => ~Scan(text).named /\ call'.rc = 0
                          /\ ~Scan(text).named =>
                               out' = SubSeq(Scan(text).bytes, 1, 4 * (Len(Scan(text).bytes) \div 4))
  BY <1>1, NumbersKeep
<1>3. ASSUME text # <<>>, IP!Ip4Scan(text, 1).n = Len(text), call'.rc >= 0, call'.at # "idle"
      PROVE  call'.at = "done" /\ out' = IP!Ip4Scan(text, 1).ip
  <2>1. ~Scan(text).named /\ FourBytes(Scan(text).bytes, IP!Ip4Scan(text, 1).ip)  BY <1>1, <1>3, LiteralScan
  <2>2. call'.at = "done"  BY <1>2, <1>3, <2>1 DEF CallInv, Calls
  <2>3. out' = SubSeq(Scan(text).bytes, 1, 4 * (Len(Scan(text).bytes) \div 4))  BY <1>2, <1>3, <2>1
  <2>4. 4 * (4 \div 4) = 4  OBVIOUS
  <2> QED  BY <2>1, <2>2, <2>3, <2>4 DEF FourBytes
<1>4. LiteralsAreAddresses'  BY <1>1, <1>2, <1>3 DEF LiteralsAreAddresses
<1> QED  BY <1>2, <1>4 DEF FrontInv

LEMMA AskIp6Keeps ==
  ASSUME FrontInv, NEW text \in Texts, NEW room, NEW memory, AskIp6(text, room, memory)
  PROVE  FrontInv'
<1>1. text \in Seq(Nat) /\ asked' = text  BY TextsAre DEF AskIp6
<1> DEFINE lit == IP!Ip6Scan(text, 1)
<1>2. CASE lit.n = 0
  <2>1. AskNumbers("ip6", text, room, memory)  BY <1>2 DEF AskIp6
  <2>2. CallInv' /\ BlocksInv' /\ NothingHeldBehind' /\ call'.kind = "ip6"  BY <1>1, <2>1, NumbersKeep
  <2>3. text # <<>> => Len(text) # 0  BY <1>1, EmptySeq
  <2>4. LiteralsAreAddresses'  BY <1>1, <1>2, <2>2, <2>3 DEF LiteralsAreAddresses
  <2> QED  BY <2>2, <2>4 DEF FrontInv
<1>3. CASE lit.n # 0
  <2>1. /\ q' = q /\ tx' = tx /\ heap' = heap
        /\ \/ IP!At(text, lit.n + 1) # 0 /\ Done("ip6", DNS_INT)
           \/ Done("ip6", DNS_MEM)
           \/ IP!At(text, lit.n + 1) = 0 /\ out' = lit.ip /\ Done("ip6", 1)
    BY <1>3 DEF AskIp6
  <2>2. BlocksInv'  BY <2>1, SameBlocks DEF FrontInv
  <2>3. "ip6" \in Kinds  BY DEF Kinds
  <2>4. CASE \E rc \in {DNS_INT, DNS_MEM} : Done("ip6", rc)
    <3>1. CallInv' /\ call'.at = "done" /\ call'.kind = "ip6" /\ call'.rc \in {DNS_INT, DNS_MEM}
      BY <1>1, <2>3, <2>4, CodesAre, DoneIs
    <3>2. NothingHeldBehind' /\ LiteralsAreAddresses'
      BY <3>1, CodesAre DEF NothingHeldBehind, LiteralsAreAddresses
    <3> QED  BY <2>2, <3>1, <3>2 DEF FrontInv
  <2>5. CASE IP!At(text, lit.n + 1) = 0 /\ out' = lit.ip /\ Done("ip6", 1)
    <3>1. CallInv' /\ call'.at = "done" /\ call'.kind = "ip6" /\ call'.rc = 1
      BY <1>1, <2>3, <2>5, CodesAre, DoneIs
    <3>2. NothingHeldBehind'  BY <1>1, <1>3, <2>5, <3>1 DEF NothingHeldBehind, IsLiteral
    <3>3. LiteralsAreAddresses'  BY <1>1, <2>5, <3>1 DEF LiteralsAreAddresses
    <3> QED  BY <2>2, <3>1, <3>2, <3>3 DEF FrontInv
  <2> QED  BY <2>1, <2>4, <2>5
<1> QED  BY <1>2, <1>3

LEMMA AskNameKeeps ==
  ASSUME FrontInv, NEW kind \in {"mx", "txt", "cname"}, NEW text \in Texts, NEW memory, AskName(kind, text, memory)
  PROVE  FrontInv'
<1>1. text \in Seq(Nat) /\ asked' \in Seq(Nat) /\ kind \in Kinds  BY TextsAre DEF AskName, Kinds
<1>2. \/ NoName(kind)
      \/ MakesName(FileOf(kind)) /\ Asking(kind) /\ UNCHANGED tx
  BY DEF AskName
<1>3. CallInv' /\ BlocksInv' /\ NothingHeldBehind' /\ call'.kind = kind  BY <1>1, <1>2, AsksOrGivesUp
<1>4. LiteralsAreAddresses'  BY <1>3 DEF LiteralsAreAddresses
<1> QED  BY <1>3, <1>4 DEF FrontInv

LEMMA AskAddressKeeps ==
  ASSUME FrontInv, AskAddress
  PROVE  FrontInv'
<1>1. asked' \in Seq(Nat) /\ "name" \in Kinds  BY DEF AskAddress, Kinds
<1>2. CallInv' /\ call'.at = "asking" /\ call'.kind = "name"  BY <1>1, AskingIs DEF AskAddress
<1>3. BlocksInv'  BY SameBlocks DEF AskAddress, FrontInv
<1> QED  BY <1>2, <1>3 DEF FrontInv, NothingHeldBehind, LiteralsAreAddresses

\* What is asked for was no address, and is still the same.
LEMMA StillNoAddress ==
  ASSUME FrontInv, call.at = "asking", asked' = asked, call'.kind = call.kind
  PROVE  LiteralsAreAddresses'
BY DEF FrontInv, CallInv, LiteralsAreAddresses

LEMMA UnresolvedKeeps ==
  ASSUME FrontInv, NEW left \in Holding, Unresolved(left)
  PROVE  FrontInv'
<1>1. /\ call.at = "asking" /\ call.kind \in Kinds /\ asked' = asked /\ asked' \in Seq(Nat)
      /\ q' = q /\ tx' = left /\ heap' = heap - TxBlocks(tx) + TxBlocks(left)
  BY DEF Unresolved, FrontInv, CallInv, Calls
<1>2. PICK rc \in {0, DNS_ERR} : Done(call.kind, rc)  BY DEF Unresolved
<1>3. CallInv' /\ call'.at = "done" /\ call'.kind = call.kind /\ call'.rc = rc  BY <1>1, <1>2, CodesAre, DoneIs
<1>4. NothingHeldBehind'  BY <1>2, <1>3, CodesAre DEF NothingHeldBehind
<1>5. BlocksInv'
  <2>1. TxBlocks(tx) \in Nat /\ TxBlocks(left) \in Nat  BY HoldingIs DEF FrontInv, BlocksInv
  <2>2. Cardinality(q) \in Nat  BY FilesAreFinite DEF FrontInv, BlocksInv
  <2>3. PICK c \in Nat, u \in Nat, w \in Nat : c = Cardinality(q) /\ u = TxBlocks(tx) /\ w = TxBlocks(left)
    BY <2>1, <2>2
  <2>4. heap = c + u  BY <2>3 DEF FrontInv, BlocksInv, BlocksOwned
  <2>5. heap' = c + w  BY <1>1, <2>3, <2>4
  <2> QED  BY <1>1, <2>3, <2>5 DEF FrontInv, BlocksInv, BlocksOwned
<1> QED  BY <1>1, <1>3, <1>4, <1>5, StillNoAddress DEF FrontInv

LEMMA ResolvedKeeps ==
  ASSUME FrontInv, NEW packet \in Packets, NEW room, Resolved(packet, room)
  PROVE  FrontInv'
<1>1. /\ call.at = "asking" /\ call.kind \in Kinds /\ asked' = asked /\ asked' \in Seq(Nat)
  BY DEF Resolved, FrontInv, CallInv, Calls
<1>2. PICK r : r = Read(call.kind, packet, room) /\ IF r.rc < 0 THEN Unreadable(call.kind, r) ELSE Answered(call.kind, r)
  BY DEF Resolved
<1>3. r.rc \in Int  BY <1>1, <1>2, ReadIs
<1>4. FileOf(call.kind) \in Files  BY <1>1, FileIs
<1>5. TxBlocks(tx) \in Nat /\ Cardinality(q) \in Nat /\ IsFiniteSet(q)
  BY HoldingIs, FilesAreFinite DEF FrontInv, BlocksInv
<1>6. PICK c \in Nat, u \in Nat : c = Cardinality(q) /\ u = TxBlocks(tx)  BY <1>5
<1>7. heap = c + u  BY <1>6 DEF FrontInv, BlocksInv, BlocksOwned
<1>8. CASE r.rc < 0
  <2>1. PICK named \in {q, q \cup {FileOf(call.kind)}} :
          /\ q' = named /\ tx' = "answer"
          /\ heap' = heap - TxBlocks(tx) + 2 + Cardinality(named) - Cardinality(q)
    BY <1>2, <1>8 DEF Unreadable
  <2>2. q' \subseteq Files  BY <1>4, <2>1 DEF FrontInv, BlocksInv
  <2>3. PICK d \in Nat : d = Cardinality(q')  BY <2>2, FilesAreFinite
  <2>4. heap' = d + 2  BY <1>6, <1>7, <2>1, <2>3
  <2>5. BlocksInv'  BY <2>1, <2>2, <2>3, <2>4 DEF BlocksInv, BlocksOwned, Holding, TxBlocks
  <2>6. CallInv' /\ call'.at = "done" /\ call'.kind = call.kind /\ call'.rc = DNS_ERR
    BY <1>1, <1>2, <1>8, CodesAre, DoneIs DEF Unreadable
  <2>7. NothingHeldBehind'  BY <2>6, CodesAre DEF NothingHeldBehind
  <2> QED  BY <1>1, <2>5, <2>6, <2>7, StillNoAddress DEF FrontInv
<1>9. CASE ~(r.rc < 0)
  <2>1. /\ Done(call.kind, r.rc) /\ q' = q \ {FileOf(call.kind)} /\ tx' = "nothing"
        /\ heap' = heap - TxBlocks(tx) - QBlocks(FileOf(call.kind))
    BY <1>2, <1>9 DEF Answered
  <2>2. Cardinality(q') = c - QBlocks(FileOf(call.kind))
    <3>1. CASE FileOf(call.kind) \in q
      <4>1. Cardinality(q \ {FileOf(call.kind)}) = c - 1  BY <1>5, <1>6, <3>1, FS_RemoveElement
      <4> QED  BY <2>1, <3>1, <4>1 DEF QBlocks
    <3>2. CASE FileOf(call.kind) \notin q
      <4>1. q' = q  BY <2>1, <3>2
      <4> QED  BY <1>6, <3>2, <4>1 DEF QBlocks
    <3> QED  BY <3>1, <3>2
  <2>3. PICK b \in Nat : b = QBlocks(FileOf(call.kind))  BY DEF QBlocks
  <2>4. heap' = c - b  BY <1>6, <1>7, <2>1, <2>3
  <2>5. BlocksInv'
    <3>1. q' \subseteq Files  BY <2>1 DEF FrontInv, BlocksInv
    <3>2. TxBlocks("nothing") = 0 /\ "nothing" \in Holding  BY DEF TxBlocks, Holding
    <3>3. heap' = Cardinality(q') + 0  BY <2>2, <2>3, <2>4
    <3> QED  BY <2>1, <3>1, <3>2, <3>3 DEF BlocksInv, BlocksOwned
  <2>6. CallInv' /\ call'.at = "done" /\ call'.kind = call.kind
    <3>1. r.rc \in Codes  BY <1>3, <1>9 DEF Codes
    <3> QED  BY <1>1, <2>1, <3>1, DoneIs
  <2>7. NothingHeldBehind'  BY <2>1, <2>6 DEF NothingHeldBehind
  <2> QED  BY <1>1, <2>5, <2>6, <2>7, StillNoAddress DEF FrontInv
<1> QED  BY <1>8, <1>9

LEMMA NextCallKeeps ==
  ASSUME FrontInv, NextCall
  PROVE  FrontInv'
<1>1. call' = NoCall /\ asked' = <<>> /\ q' = q /\ tx' = tx /\ heap' = heap  BY DEF NextCall
<1>2. CallInv'  BY <1>1, CodesAre DEF CallInv, Calls, NoCall, Kinds
<1>3. BlocksInv'  BY <1>1, SameBlocks DEF FrontInv
<1> QED  BY <1>1, <1>2, <1>3 DEF FrontInv, NothingHeldBehind, LiteralsAreAddresses, NoCall

LEMMA FrontInvStep ==
  ASSUME FrontInv, [FrontNext]_frontVars
  PROVE  FrontInv'
<1>1. CASE \E text \in Texts, room \in Rooms, memory \in BOOLEAN : AskIp4(text, room, memory)
  BY <1>1, AskIp4Keeps
<1>2. CASE \E text \in Texts, room \in Rooms, memory \in BOOLEAN : AskIp6(text, room, memory)
  BY <1>2, AskIp6Keeps
<1>3. CASE \E text \in Texts, memory \in BOOLEAN :
             AskMx(text, memory) \/ AskTxt(text, memory) \/ AskCname(text, memory)
  BY <1>3, AskNameKeeps DEF AskMx, AskTxt, AskCname
<1>4. CASE AskAddress  BY <1>4, AskAddressKeeps
<1>5. CASE \E left \in Holding : Unresolved(left)  BY <1>5, UnresolvedKeeps
<1>6. CASE \E packet \in Packets, room \in Rooms : Resolved(packet, room)  BY <1>6, ResolvedKeeps
<1>7. CASE NextCall  BY <1>7, NextCallKeeps
<1>8. CASE UNCHANGED frontVars
  <2>1. q' = q /\ tx' = tx /\ heap' = heap /\ out' = out /\ call' = call /\ asked' = asked
    BY <1>8 DEF frontVars
  <2> QED  BY <2>1 DEF FrontInv, CallInv, BlocksInv, BlocksOwned, NothingHeldBehind, LiteralsAreAddresses
<1> QED  BY <1>1, <1>2, <1>3, <1>4, <1>5, <1>6, <1>7, <1>8 DEF FrontNext

\* After any sequence of calls of the front ends, with any packets from the name
\* servers and any failure, every block in use can be reached, an answer leaves none
\* behind, and an address is its own answer (dns_ip.c:59-147, dns_mx.c:55-60,
\* dns_txt.c:65-69, dns_cname.c:50-54, dns_name.c:52-55).
THEOREM CallsKeepNothing == FrontSpec => []CallsLeaveNothing
<1>1. FrontInit => FrontInv
  <2> SUFFICES ASSUME FrontInit PROVE FrontInv  OBVIOUS
  <2>1. q = {} /\ tx = "nothing" /\ heap = 0 /\ call = NoCall /\ asked = <<>>  BY DEF FrontInit
  <2>2. CallInv  BY <2>1, CodesAre DEF CallInv, Calls, NoCall, Kinds
  <2>3. BlocksInv
    <3>1. Cardinality(q) = 0  BY <2>1, FS_EmptySet
    <3> QED  BY <2>1, <3>1 DEF BlocksInv, BlocksOwned, Holding, TxBlocks
  <2> QED  BY <2>1, <2>2, <2>3 DEF FrontInv, NothingHeldBehind, LiteralsAreAddresses, NoCall
<1>2. FrontInv /\ [FrontNext]_frontVars => FrontInv'  BY FrontInvStep
<1>3. FrontInv => CallsLeaveNothing
  <2> SUFFICES ASSUME FrontInv PROVE CallsLeaveNothing  OBVIOUS
  <2>1. Cardinality(q) \in Nat /\ TxBlocks(tx) \in Nat  BY HoldingIs, FilesAreFinite DEF FrontInv, BlocksInv
  <2>2. heap \in Nat  BY <2>1 DEF FrontInv, BlocksInv, BlocksOwned
  <2> QED  BY <2>2 DEF FrontInv, CallInv, BlocksInv, Calls, Codes, FrontTypeOK, CallsLeaveNothing
<1> QED  BY <1>1, <1>2, <1>3, PTL DEF FrontSpec

-----------------------------------------------------------------------------
(***************************************************************************)
(* The order of servers                                                    *)
(***************************************************************************)
\* d has the draws of the first m turns of the loop over n servers
AreDraws(d, n, m) == d \in [1 .. m -> Nat] /\ \A k \in 1 .. m : d[k] \in 0 .. n - k

\* g has the list s of n members of S after each of the m turns
Runs(g, s, d, n, m, S) ==
  /\ g \in [0 .. m -> [1 .. n -> S]] /\ g[0] = s
  /\ \A k \in 1 .. m : g[k] = Exchange(g[k - 1], n - k + 1, d[k])

\* z is s with its members at l and j exchanged
IsExchange(z, s, l, j, n, S) ==
  /\ z \in [1 .. n -> S]
  /\ \A a \in 1 .. n : z[a] = IF a = l THEN s[j] ELSE IF a = j THEN s[l] ELSE s[a]

LEMMA ExchangeIs ==
  ASSUME NEW n \in Nat, NEW S, NEW s \in [1 .. n -> S], NEW l \in 1 .. n, NEW i, NEW j \in 1 .. n, j = i + 1
  PROVE  IsExchange(Exchange(s, l, i), s, l, j, n, S)
<1>1. IsExchange(Swap(s, j, l), s, l, j, n, S)  BY DEF IsExchange, Swap
<1>2. Exchange(s, l, i) = Swap(s, j, l)  BY DEF Exchange
<1> QED  BY <1>1, <1>2

\* the loop makes what Shuffled says
Made(s, d, n, m, S) == \E g : Runs(g, s, d, n, m, S) /\ Shuffled(s, d) = g[m]

\* s has n members of S
IsList(s, n, S) == s \in [1 .. n -> S]

\* The loop is run.
LEMMA ShuffledRuns ==
  ASSUME NEW n \in Nat, NEW m \in 0 .. n, NEW d, AreDraws(d, n, m), NEW S, NEW s, IsList(s, n, S)
  PROVE  Made(s, d, n, m, S)
<1> DEFINE L == [1 .. n -> S]
           turn == [x \in L \X (1 .. m) |-> Exchange(x[1], n - x[2] + 1, d[x[2]])]
           loop(f) == f = [k \in 0 .. m |-> IF k = 0 THEN s ELSE Exchange(f[k - 1], n - k + 1, d[k])]
           v == CHOOSE f : loop(f)
<1>0. s \in [1 .. n -> S]  BY DEF IsList
<1>1. m \in Nat /\ Len(s) = n /\ Len(d) = m
  <2>1. m \in Nat  OBVIOUS
  <2>2. Len(s) = n  BY <1>0, MadeSeq
  <2>3. d \in [1 .. m -> Nat]  BY DEF AreDraws
  <2> QED  BY <2>1, <2>2, <2>3, MadeSeq
<1>2. Shuffled(s, d) = v[m]  BY <1>1 DEF Shuffled
<1>3. \A x \in L, k \in 1 .. m : Exchange(x, n - k + 1, d[k]) \in L
  <2> SUFFICES ASSUME NEW x \in L, NEW k \in 1 .. m PROVE Exchange(x, n - k + 1, d[k]) \in L  OBVIOUS
  <2>1. PICK l \in 1 .. n : l = n - k + 1  OBVIOUS
  <2>2. PICK j \in 1 .. n : j = d[k] + 1  BY DEF AreDraws
  <2>3. IsExchange(Exchange(x, l, d[k]), x, l, j, n, S)  BY <2>2, ExchangeIs, Zenon
  <2>4. Exchange(x, l, d[k]) \in L  BY <2>3 DEF IsExchange
  <2> HIDE DEF L
  <2> QED  BY <2>1, <2>4
<1>4. turn \in [L \X (1 .. m) -> L]
  <2>1. \A x \in L \X (1 .. m) : x[1] \in L /\ x[2] \in 1 .. m  OBVIOUS
  <2> HIDE DEF L
  <2> QED  BY <1>3, <2>1
<1>5. PICK g : Turns(g, m, s, turn, L)
  <2>1. s \in L  BY <1>0
  <2> HIDE DEF L, turn
  <2> QED  BY <1>1, <1>4, <2>1, TurnsExist
<1>6. g \in [0 .. m -> L] /\ g[0] = s /\ \A k \in 1 .. m : g[k] = turn[<<g[k - 1], k>>]
  BY <1>5 DEF Turns
<1>7. \A k \in 1 .. m : g[k] = Exchange(g[k - 1], n - k + 1, d[k])
  <2> SUFFICES ASSUME NEW k \in 1 .. m PROVE g[k] = Exchange(g[k - 1], n - k + 1, d[k])  OBVIOUS
  <2>1. g[k - 1] \in L
    <3>1. k - 1 \in 0 .. m  OBVIOUS
    <3> HIDE DEF L
    <3> QED  BY <1>6, <3>1
  <2>2. <<g[k - 1], k>> \in L \X (1 .. m)  BY <2>1
  <2>3. turn[<<g[k - 1], k>>] = Exchange(g[k - 1], n - k + 1, d[k])  BY <2>2
  <2> QED  BY <1>6, <2>3
<1> HIDE DEF turn
<1>8. loop(g)
  <2>1. g = [k \in 0 .. m |-> g[k]]  BY <1>6
  <2>2. \A k \in 0 .. m : g[k] = IF k = 0 THEN s ELSE Exchange(g[k - 1], n - k + 1, d[k])  BY <1>6, <1>7
  <2> QED  BY <2>1, <2>2
<1>9. PICK f : f = v /\ loop(f)
  <2> HIDE DEF loop
  <2> QED  BY <1>8
<1>10. f[0] = s /\ \A k \in 1 .. m : f[k] = Exchange(f[k - 1], n - k + 1, d[k])
  <2>1. 0 \in 0 .. m /\ \A k \in 1 .. m : k \in 0 .. m /\ k # 0  BY <1>1
  <2> HIDE DEF v
  <2>2. \A k \in 0 .. m : f[k] = IF k = 0 THEN s ELSE Exchange(f[k - 1], n - k + 1, d[k])  BY <1>9
  <2> QED  BY <2>1, <2>2
<1> HIDE DEF v, loop
<1>11. Alike(f, g, m)  BY <1>6, <1>7, <1>10 DEF Alike
<1>12. f[m] = g[m]
  <2>1. m \in 0 .. m  BY <1>1
  <2> QED  BY <1>1, <1>11, <2>1, SameTurns
<1>13. Runs(g, s, d, n, m, S)  BY <1>6, <1>7 DEF Runs
<1> QED  BY <1>2, <1>9, <1>12, <1>13 DEF Made

-----------------------------------------------------------------------------
\* p puts n places in another order
IsOrder(p, n) ==
  /\ p \in [1 .. n -> 1 .. n]
  /\ \A a, b \in 1 .. n : p[a] = p[b] => a = b
  /\ \A k \in 1 .. n : \E a \in 1 .. n : p[a] = k

InPlace(n) == [k \in 1 .. n |-> k]

LEMMA ExchangeOrders ==
  ASSUME NEW n \in Nat, NEW p, IsOrder(p, n), NEW l \in 1 .. n, NEW i, NEW j \in 1 .. n, j = i + 1
  PROVE  IsOrder(Exchange(p, l, i), n)
<1> DEFINE z == Exchange(p, l, i)
<1>2. p \in [1 .. n -> 1 .. n] /\ (\A a, b \in 1 .. n : p[a] = p[b] => a = b)
      /\ \A k \in 1 .. n : \E a \in 1 .. n : p[a] = k
  BY DEF IsOrder
<1>3. z \in [1 .. n -> 1 .. n]
      /\ \A a \in 1 .. n : z[a] = IF a = l THEN p[j] ELSE IF a = j THEN p[l] ELSE p[a]
  <2>1. IsExchange(z, p, l, j, n, 1 .. n)  BY <1>2, ExchangeIs, Zenon
  <2> QED  BY <2>1 DEF IsExchange
<1> HIDE DEF z
<1>4. \A a, b \in 1 .. n : z[a] = z[b] => a = b  BY <1>2, <1>3
<1>5. \A k \in 1 .. n : \E a \in 1 .. n : z[a] = k
  <2> SUFFICES ASSUME NEW k \in 1 .. n PROVE \E a \in 1 .. n : z[a] = k  OBVIOUS
  <2>1. PICK b \in 1 .. n : p[b] = k  BY <1>2
  <2>2. CASE b = l  BY <1>3, <2>1, <2>2
  <2>3. CASE b = j  BY <1>3, <2>1, <2>3
  <2>4. CASE b # l /\ b # j  BY <1>3, <2>1, <2>4
  <2> QED  BY <2>2, <2>3, <2>4
<1>6. IsOrder(z, n)  BY <1>3, <1>4, <1>5 DEF IsOrder
<1> QED  BY <1>6 DEF z

\* turn k exchanges the places l and j
Exchanges(l, j, d, n, k) == l = n - k + 1 /\ j = d[k] + 1 /\ j <= l

LEMMA TurnIs ==
  ASSUME NEW n \in Nat, NEW m \in 0 .. n, NEW d, AreDraws(d, n, m), NEW k \in 1 .. m
  PROVE  /\ \E l, j \in 1 .. n : Exchanges(l, j, d, n, k)
         /\ k - 1 \in 0 .. m /\ k \in 0 .. m
<1>1. d[k] \in 0 .. n - k /\ n - k + 1 \in 1 .. n  BY DEF AreDraws
<1>2. d[k] + 1 \in 1 .. n /\ d[k] + 1 <= n - k + 1  BY <1>1
<1>3. k - 1 \in 0 .. m /\ k \in 0 .. m  OBVIOUS
<1>4. Exchanges(n - k + 1, d[k] + 1, d, n, k)  BY <1>2 DEF Exchanges
<1> QED  BY <1>1, <1>2, <1>3, <1>4

\* Every turn leaves an order of the places.
LEMMA RunsOrder ==
  ASSUME NEW n \in Nat, NEW m \in 0 .. n, NEW d, AreDraws(d, n, m), NEW g, Runs(g, InPlace(n), d, n, m, 1 .. n)
  PROVE  \A k \in 0 .. m : IsOrder(g[k], n)
<1> DEFINE T == {k \in 0 .. m : IsOrder(g[k], n)}
<1>1. 0 \in T
  <2>1. IsOrder(InPlace(n), n)  BY DEF IsOrder, InPlace
  <2> QED  BY <2>1 DEF Runs
<1>2. ASSUME NEW k \in 1 .. m, k - 1 \in T PROVE k \in T
  <2>0. PICK l, j \in 1 .. n : Exchanges(l, j, d, n, k)  BY TurnIs, Zenon
  <2>1. IsOrder(Exchange(g[k - 1], n - k + 1, d[k]), n)  BY <1>2, <2>0, ExchangeOrders DEF Exchanges
  <2>2. g[k] = Exchange(g[k - 1], n - k + 1, d[k])  BY DEF Runs
  <2> QED  BY <2>1, <2>2
<1>3. \A k \in 0 .. m : k \in T
  <2>1. m \in Nat  OBVIOUS
  <2> HIDE DEF T
  <2> QED  BY <1>1, <1>2, <2>1, Induct
<1> QED  BY <1>3

\* t has the members of s in the order p
Follows(t, s, p, n) == \A a \in 1 .. n : t[a] = s[p[a]]

\* A list follows its places.
LEMMA RunsFollow ==
  ASSUME NEW n \in Nat, NEW m \in 0 .. n, NEW d, AreDraws(d, n, m), NEW g, Runs(g, InPlace(n), d, n, m, 1 .. n),
         NEW S, NEW s, IsList(s, n, S), NEW h, Runs(h, s, d, n, m, S)
  PROVE  \A k \in 0 .. m : Follows(h[k], s, g[k], n)
<1> DEFINE T == {k \in 0 .. m : Follows(h[k], s, g[k], n)}
<1>1. 0 \in T
  <2>1. \A a \in 1 .. n : InPlace(n)[a] = a  BY DEF InPlace
  <2>2. g[0] = InPlace(n) /\ h[0] = s  BY DEF Runs
  <2> QED  BY <2>1, <2>2 DEF Follows
<1>2. ASSUME NEW k \in 1 .. m, k - 1 \in T PROVE k \in T
  <2>1. PICK l, j \in 1 .. n : Exchanges(l, j, d, n, k)  BY TurnIs, Zenon
  <2>2. g[k] = Exchange(g[k - 1], l, d[k]) /\ h[k] = Exchange(h[k - 1], l, d[k])  BY <2>1 DEF Exchanges, Runs
  <2>3. g[k - 1] \in [1 .. n -> 1 .. n] /\ h[k - 1] \in [1 .. n -> S]  BY TurnIs DEF Runs
  <2>4. j = d[k] + 1  BY <2>1 DEF Exchanges
  <2>5. IsExchange(g[k], g[k - 1], l, j, n, 1 .. n) /\ IsExchange(h[k], h[k - 1], l, j, n, S)
    BY <2>2, <2>3, <2>4, ExchangeIs, Zenon
  <2>6. Follows(h[k - 1], s, g[k - 1], n)  BY <1>2
  <2>7. Follows(h[k], s, g[k], n)
    <3> SUFFICES ASSUME NEW a \in 1 .. n PROVE h[k][a] = s[g[k][a]]  BY DEF Follows
    <3>1. CASE a = l  BY <2>5, <2>6, <3>1 DEF IsExchange, Follows
    <3>2. CASE a # l /\ a = j  BY <2>5, <2>6, <3>2 DEF IsExchange, Follows
    <3>3. CASE a # l /\ a # j  BY <2>3, <2>5, <2>6, <3>3 DEF IsExchange, Follows
    <3> QED  BY <3>1, <3>2, <3>3
  <2> QED  BY <2>7
<1>3. \A k \in 0 .. m : k \in T
  <2>1. m \in Nat  OBVIOUS
  <2> HIDE DEF T
  <2> QED  BY <1>1, <1>2, <2>1, Induct
<1> QED  BY <1>3

\* A place that the loop has passed keeps what it has.
LEMMA Settled ==
  ASSUME NEW n \in Nat, NEW m \in 0 .. n, NEW d, AreDraws(d, n, m), NEW S, NEW s, NEW g, Runs(g, s, d, n, m, S),
         NEW k \in 1 .. m
  PROVE  g[m][n - k + 1] = g[k][n - k + 1]
<1>1. PICK p \in 1 .. n : p = n - k + 1  OBVIOUS
<1> DEFINE T == {j \in 0 .. m : j < k \/ g[j][p] = g[k][p]}
<1>2. 0 \in T  OBVIOUS
<1>3. ASSUME NEW i \in 1 .. m, i - 1 \in T PROVE i \in T
  <2>1. CASE i <= k  BY <2>1
  <2>2. CASE i > k
    <3>1. PICK l, j \in 1 .. n : Exchanges(l, j, d, n, i)  BY TurnIs, Zenon
    <3>2. g[i] = Exchange(g[i - 1], l, d[i]) /\ g[i - 1] \in [1 .. n -> S]  BY <3>1, TurnIs DEF Exchanges, Runs
    <3>3. p # l /\ p # j  BY <1>1, <2>2, <3>1 DEF Exchanges
    <3>4. g[i][p] = g[i - 1][p]
      <4>1. j = d[i] + 1  BY <3>1 DEF Exchanges
      <4>2. IsExchange(g[i], g[i - 1], l, j, n, S)  BY <3>2, <4>1, ExchangeIs, Zenon
      <4> QED  BY <3>3, <4>2 DEF IsExchange
    <3>5. g[i - 1][p] = g[k][p]  BY <1>3, <2>2
    <3> QED  BY <3>4, <3>5
  <2> QED  BY <2>1, <2>2
<1>4. \A i \in 0 .. m : i \in T
  <2>1. m \in Nat  OBVIOUS
  <2> HIDE DEF T
  <2> QED  BY <1>2, <1>3, <2>1, Induct
<1>5. m \in T  BY <1>4
<1> QED  BY <1>1, <1>5

\* Draws that differ leave orders that differ.
LEMMA DrawsTold ==
  ASSUME NEW n \in Nat, NEW m \in 0 .. n, NEW d, AreDraws(d, n, m), NEW e, AreDraws(e, n, m),
         NEW g, Runs(g, InPlace(n), d, n, m, 1 .. n), NEW h, Runs(h, InPlace(n), e, n, m, 1 .. n), g[m] = h[m]
  PROVE  d = e
<1> DEFINE T == {k \in 1 .. m : d[k] # e[k]}
<1>1. d \in [1 .. m -> Nat] /\ e \in [1 .. m -> Nat]  BY DEF AreDraws
<1>2. SUFFICES ASSUME T # {} PROVE FALSE  BY <1>1
<1>3. PICK k \in T : \A j \in T : k <= j
  <2>1. T \in SUBSET Nat  OBVIOUS
  <2> HIDE DEF T
  <2> QED  BY <1>2, <2>1, LeastNat
<1>4. k \in 1 .. m /\ d[k] # e[k] /\ \A j \in 1 .. m : j < k => d[j] = e[j]  BY <1>3
<1>5. g[k - 1] = h[k - 1]
  <2> DEFINE U == {j \in 0 .. m : j < k => g[j] = h[j]}
  <2>1. 0 \in U  BY DEF Runs
  <2>2. ASSUME NEW j \in 1 .. m, j - 1 \in U PROVE j \in U
    <3>1. CASE j < k
      <4>1. g[j - 1] = h[j - 1]  BY <2>2, <3>1, <1>4
      <4>2. g[j] = h[j]  BY <1>4, <3>1, <4>1 DEF Runs
      <4> QED  BY <4>2
    <3> QED  BY <3>1
  <2>3. \A j \in 0 .. m : j \in U
    <3>1. m \in Nat  OBVIOUS
    <3> HIDE DEF U
    <3> QED  BY <2>1, <2>2, <3>1, Induct
  <2>4. k - 1 \in U /\ k - 1 < k  BY <1>4, <2>3
  <2> QED  BY <2>4
<1>6. PICK l, i \in 1 .. n : Exchanges(l, i, d, n, k)  BY <1>4, TurnIs, Zenon
<1>7. PICK o, j \in 1 .. n : Exchanges(o, j, e, n, k)  BY <1>4, TurnIs, Zenon
<1>8. g[k - 1] \in [1 .. n -> 1 .. n] /\ \A a, b \in 1 .. n : g[k - 1][a] = g[k - 1][b] => a = b
  <2>1. IsOrder(g[k - 1], n)
    <3>1. k - 1 \in 0 .. m  BY <1>4
    <3> QED  BY <3>1, RunsOrder
  <2> QED  BY <2>1 DEF IsOrder
<1>9. g[k][l] = g[k - 1][i]
  <2>1. g[k] = Exchange(g[k - 1], l, d[k])  BY <1>4, <1>6 DEF Exchanges, Runs
  <2>2. i = d[k] + 1  BY <1>6 DEF Exchanges
  <2>3. g[k - 1] \in [1 .. n -> 1 .. n]  BY <1>8
  <2>4. IsExchange(g[k], g[k - 1], l, i, n, 1 .. n)  BY <2>1, <2>2, <2>3, ExchangeIs, Zenon
  <2> QED  BY <2>4 DEF IsExchange
<1>10. h[k][l] = g[k - 1][j]
  <2>1. h[k] = Exchange(g[k - 1], l, e[k])  BY <1>4, <1>5, <1>6 DEF Exchanges, Runs
  <2>2. j = e[k] + 1  BY <1>7 DEF Exchanges
  <2>3. g[k - 1] \in [1 .. n -> 1 .. n]  BY <1>8
  <2>4. IsExchange(h[k], g[k - 1], l, j, n, 1 .. n)  BY <2>1, <2>2, <2>3, ExchangeIs, Zenon
  <2> QED  BY <2>4 DEF IsExchange
<1>11. g[m][l] = g[k][l] /\ h[m][l] = h[k][l]  BY <1>4, <1>6, Settled DEF Exchanges
<1>12. i # j
  <2>1. d[k] \in Nat /\ e[k] \in Nat  BY <1>1, <1>4
  <2> QED  BY <1>4, <1>6, <1>7, <2>1 DEF Exchanges
<1> QED  BY <1>8, <1>9, <1>10, <1>11, <1>12

-----------------------------------------------------------------------------
LEMMA DrawsAre ==
  ASSUME NEW n \in Nat
  PROVE  \E m \in 0 .. n : \A d \in Draws(n) : AreDraws(d, n, m)
<1>1. CASE n = 0
  <2>1. \A d \in Draws(n) : AreDraws(d, n, 0)
    <3> SUFFICES ASSUME NEW d \in Draws(n) PROVE AreDraws(d, n, 0)  OBVIOUS
    <3>1. d \in [1 .. n - 1 -> 0 .. n - 1] /\ 1 .. n - 1 = {} /\ 1 .. 0 = {}  BY <1>1 DEF Draws
    <3>2. d \in [1 .. 0 -> Nat]  BY <3>1
    <3> QED  BY <3>2 DEF AreDraws
  <2>2. 0 \in 0 .. n  OBVIOUS
  <2> QED  BY <2>1, <2>2
<1>2. CASE n # 0
  <2>1. n - 1 \in 0 .. n  BY <1>2
  <2>2. \A d \in Draws(n) : AreDraws(d, n, n - 1)
    <3> SUFFICES ASSUME NEW d \in Draws(n) PROVE AreDraws(d, n, n - 1)  OBVIOUS
    <3>1. d \in [1 .. n - 1 -> 0 .. n - 1] /\ \A k \in 1 .. n - 1 : d[k] <= n - k  BY DEF Draws
    <3>2. d \in [1 .. n - 1 -> Nat]  BY <3>1
    <3>3. \A k \in 1 .. n - 1 : d[k] \in 0 .. n - k  BY <3>1, <3>2
    <3> QED  BY <3>2, <3>3 DEF AreDraws
  <2> QED  BY <2>1, <2>2
<1> QED  BY <1>1, <1>2

\* Every sequence of draws makes an order of the places, which any list follows.
LEMMA ShuffledIs ==
  ASSUME NEW n \in Nat, NEW S, NEW s \in [1 .. n -> S], NEW d \in Draws(n)
  PROVE  /\ IsOrder(Shuffled(InPlace(n), d), n)
         /\ Shuffled(s, d) \in [1 .. n -> S]
         /\ Follows(Shuffled(s, d), s, Shuffled(InPlace(n), d), n)
<1>1. PICK m \in 0 .. n : AreDraws(d, n, m)  BY DrawsAre
<1>0. IsList(s, n, S)  BY DEF IsList
<1>2. IsList(InPlace(n), n, 1 .. n)  BY DEF IsList, InPlace
<1>3. PICK g : Runs(g, InPlace(n), d, n, m, 1 .. n) /\ Shuffled(InPlace(n), d) = g[m]
  <2>1. Made(InPlace(n), d, n, m, 1 .. n)  BY <1>1, <1>2, ShuffledRuns, Zenon
  <2> QED  BY <2>1, Zenon DEF Made
<1>4. PICK h : Runs(h, s, d, n, m, S) /\ Shuffled(s, d) = h[m]
  <2>1. Made(s, d, n, m, S)  BY <1>0, <1>1, ShuffledRuns, Zenon
  <2> QED  BY <2>1, Zenon DEF Made
<1>5. m \in 0 .. m  OBVIOUS
<1>6. IsOrder(g[m], n)  BY <1>1, <1>3, <1>5, RunsOrder, Zenon
<1>7. Follows(h[m], s, g[m], n)  BY <1>0, <1>1, <1>3, <1>4, <1>5, RunsFollow, Zenon
<1>8. h[m] \in [1 .. n -> S]  BY <1>4, <1>5 DEF Runs
<1> QED  BY <1>3, <1>4, <1>6, <1>7, <1>8

LEMMA OrdersDiffer ==
  ASSUME NEW n \in Nat, NEW d \in Draws(n), NEW e \in Draws(n), Shuffled(InPlace(n), d) = Shuffled(InPlace(n), e)
  PROVE  d = e
<1>1. PICK m \in 0 .. n : AreDraws(d, n, m) /\ AreDraws(e, n, m)  BY DrawsAre
<1>2. IsList(InPlace(n), n, 1 .. n)  BY DEF IsList, InPlace
<1>3. PICK g : Runs(g, InPlace(n), d, n, m, 1 .. n) /\ Shuffled(InPlace(n), d) = g[m]
  <2>1. Made(InPlace(n), d, n, m, 1 .. n)  BY <1>1, <1>2, ShuffledRuns, Zenon
  <2> QED  BY <2>1, Zenon DEF Made
<1>4. PICK h : Runs(h, InPlace(n), e, n, m, 1 .. n) /\ Shuffled(InPlace(n), e) = h[m]
  <2>1. Made(InPlace(n), e, n, m, 1 .. n)  BY <1>1, <1>2, ShuffledRuns, Zenon
  <2> QED  BY <2>1, Zenon DEF Made
<1>5. g[m] = h[m]  BY <1>3, <1>4
<1> QED  BY <1>1, <1>3, <1>4, <1>5, DrawsTold, Zenon

\* A list in another order has as many of everything.
LEMMA AsMany ==
  ASSUME NEW n \in Nat, NEW S, NEW s, IsList(s, n, S), NEW t, IsList(t, n, S), NEW p, IsOrder(p, n),
         Follows(t, s, p, n), NEW x
  PROVE  CountOf(t, x) = CountOf(s, x)
<1>0. s \in [1 .. n -> S] /\ t \in [1 .. n -> S]  BY DEF IsList
<1> DEFINE A == {a \in 1 .. n : t[a] = x}
           B == {a \in 1 .. n : s[a] = x}
           f == [a \in A |-> p[a]]
<1>1. p \in [1 .. n -> 1 .. n] /\ (\A a, b \in 1 .. n : p[a] = p[b] => a = b)
      /\ \A k \in 1 .. n : \E a \in 1 .. n : p[a] = k
  BY DEF IsOrder
<1>9. \A a \in 1 .. n : t[a] = s[p[a]]  BY DEF Follows
<1>2. f \in [A -> B]  BY <1>1, <1>9
<1>3. \A a, b \in A : f[a] = f[b] => a = b  BY <1>1
<1>4. \A b \in B : \E a \in A : f[a] = b
  <2> SUFFICES ASSUME NEW b \in B PROVE \E a \in A : f[a] = b  OBVIOUS
  <2>1. PICK a \in 1 .. n : p[a] = b  BY <1>1
  <2>2. a \in A  BY <1>9, <2>1
  <2> QED  BY <2>1, <2>2
<1>5. IsFiniteSet(A)
  <2>1. IsFiniteSet(1 .. n) /\ A \in SUBSET (1 .. n)  BY FS_Interval
  <2> QED  BY <2>1, FS_Subset
<1>6. CountOf(t, x) = Cardinality(A) /\ CountOf(s, x) = Cardinality(B)  BY <1>0 DEF CountOf
<1> HIDE DEF A, B, f
<1>7. f \in Bijection(A, B)
  <2>1. IsInjective(f)  BY <1>2, <1>3 DEF IsInjective
  <2>2. f \in Injection(A, B)  BY <1>2, <2>1 DEF Injection
  <2>3. f \in Surjection(A, B)  BY <1>2, <1>4 DEF Surjection
  <2> QED  BY <2>2, <2>3 DEF Bijection
<1>8. ExistsBijection(A, B)  BY <1>7 DEF ExistsBijection
<1> QED  BY <1>5, <1>6, <1>8, FS_Bijection

LEMMA OrdersAreFair ==
  ASSUME list \in Seq(Servers)
  PROVE  EveryOrder
<1>1. PICK n \in Nat : n = Len(list)  BY LenProperties
<1>2. list \in [1 .. n -> Servers]  BY <1>1, LenProperties
<1>3. ASSUME NEW d \in Draws(n)
      PROVE  /\ IsOrder(Shuffled(InPlace(n), d), n)
             /\ \A s \in Servers : CountOf(Shuffled(list, d), s) = CountOf(list, s)
  <2>1. /\ IsOrder(Shuffled(InPlace(n), d), n)
        /\ Shuffled(list, d) \in [1 .. n -> Servers]
        /\ Follows(Shuffled(list, d), list, Shuffled(InPlace(n), d), n)
    BY <1>2, ShuffledIs
  <2>2. ASSUME NEW s \in Servers PROVE CountOf(Shuffled(list, d), s) = CountOf(list, s)
    <3> DEFINE z == Shuffled(list, d)
               o == Shuffled(InPlace(n), d)
    <3>1. n \in Nat /\ IsOrder(o, n) /\ IsList(z, n, Servers) /\ IsList(list, n, Servers) /\ Follows(z, list, o, n)
      BY <1>2, <2>1 DEF IsList
    <3> HIDE DEF z, o
    <3>2. CountOf(z, s) = CountOf(list, s)  BY <3>1, AsMany
    <3> QED  BY <3>2 DEF z
  <2> QED  BY <2>1, <2>2
<1>5. \A d \in Draws(n) : \A k \in 1 .. n : \E j \in 1 .. n : Shuffled(InPlace(n), d)[j] = k  BY <1>3 DEF IsOrder
<1>6. \A d, e \in Draws(n) : Shuffled(InPlace(n), d) = Shuffled(InPlace(n), e) => d = e  BY OrdersDiffer
<1>7. EveryOrder <=>
        /\ \A d \in Draws(n) : \A k \in 1 .. n : \E j \in 1 .. n : Shuffled(InPlace(n), d)[j] = k
        /\ \A d, e \in Draws(n) : Shuffled(InPlace(n), d) = Shuffled(InPlace(n), e) => d = e
        /\ \A d \in Draws(n), s \in Servers : CountOf(Shuffled(list, d), s) = CountOf(list, s)
  BY <1>1 DEF EveryOrder, InPlace
<1> QED  BY <1>3, <1>5, <1>6, <1>7

LEMMA UsableAreLeft ==
  ASSUME list \in Seq(Servers), Len(list) <= ListMax
  PROVE  OnlyUsable
<1>1. PICK n \in Nat : n = Len(list)  BY LenProperties
<1>2. list \in [1 .. n -> Servers] /\ n <= 16 /\ DOMAIN list = 1 .. n  BY <1>1, LenProperties, SortAssumption
<1> DEFINE S == Servers \cup {None}
           u == Usable4(list, TRUE, IsV4, None)
<1>3. u \in [1 .. n -> S] /\ \A k \in 1 .. n : u[k] = IF list[k] \in V4 THEN list[k] ELSE None
  <2>1. \A k \in 1 .. n : k <= 16 /\ list[k] \in Servers /\ (IsV4[list[k]] <=> list[k] \in V4)
    <3> SUFFICES ASSUME NEW k \in 1 .. n PROVE k <= 16 /\ list[k] \in Servers /\ (IsV4[list[k]] <=> list[k] \in V4)
      OBVIOUS
    <3>1. k <= 16 /\ list[k] \in Servers  BY <1>2
    <3>2. IsV4[list[k]] = (list[k] \in V4)  BY <3>1, Zenon DEF IsV4
    <3> QED  BY <3>1, <3>2
  <2>2. u = [k \in 1 .. n |-> IF TRUE /\ k <= 16 /\ ~IsV4[list[k]] THEN None ELSE list[k]]
    BY <1>2, Zenon DEF Usable4
  <2>3. u = [k \in 1 .. n |-> IF list[k] \in V4 THEN list[k] ELSE None]  BY <2>1, <2>2
  <2> HIDE DEF u
  <2> QED  BY <2>1, <2>3
<1> HIDE DEF u
<1>4. ASSUME NEW s \in Servers PROVE CountOf(u, s) = IF s \in V4 THEN CountOf(list, s) ELSE 0
  <2>1. CASE s \in V4
    <3>1. {k \in DOMAIN u : u[k] = s} = {k \in DOMAIN list : list[k] = s}
      BY <1>2, <1>3, <2>1, SortAssumption
    <3> QED  BY <2>1, <3>1 DEF CountOf
  <2>2. CASE s \notin V4
    <3>1. {k \in DOMAIN u : u[k] = s} = {}  BY <1>3, <2>2, SortAssumption
    <3> QED  BY <2>2, <3>1, FS_EmptySet DEF CountOf
  <2> QED  BY <2>1, <2>2
<1>5. ASSUME NEW d \in Draws(n), NEW s \in Servers
      PROVE  CountOf(SortIp(list, TRUE, IsV4, None, d), s) = CountOf(u, s)
  <2>1. /\ IsOrder(Shuffled(InPlace(n), d), n)
        /\ Shuffled(u, d) \in [1 .. n -> S]
        /\ Follows(Shuffled(u, d), u, Shuffled(InPlace(n), d), n)
    <3> HIDE DEF S
    <3> QED  BY <1>3, ShuffledIs
  <2>2. CountOf(Shuffled(u, d), s) = CountOf(u, s)
    <3> DEFINE z == Shuffled(u, d)
               o == Shuffled(InPlace(n), d)
    <3>1. n \in Nat /\ IsOrder(o, n) /\ IsList(z, n, S) /\ IsList(u, n, S) /\ Follows(z, u, o, n)
      <4> HIDE DEF S
      <4> QED  BY <1>3, <2>1 DEF IsList
    <3> HIDE DEF S, z, o
    <3>2. CountOf(z, s) = CountOf(u, s)  BY <3>1, AsMany
    <3> QED  BY <3>2 DEF z
  <2> QED  BY <2>2 DEF SortIp, u
<1> QED  BY <1>1, <1>4, <1>5 DEF OnlyUsable

-----------------------------------------------------------------------------
(***************************************************************************)
(* The stream of words                                                     *)
(***************************************************************************)
\* a digit in front of a number with more digits
Digit(c, r) == c + WordSize * r

LEMMA DigitIs ==
  ASSUME NEW c \in 0 .. WordSize - 1, NEW r \in Nat
  PROVE  /\ Digit(c, r) \in Nat
         /\ \A n \in Nat : r < n => Digit(c, r) < WordSize * n
         /\ c + 1 < WordSize => Digit(c + 1, r) = Digit(c, r) + 1
         /\ c + 1 = WordSize => Digit(0, r + 1) = Digit(c, r) + 1
         /\ Digit(0, 0) = 0
<1> DEFINE p == WordSize * r
<1>1. WordSize \in Nat /\ p \in Nat  BY SortAssumption
<1>2. WordSize * (r + 1) = p + WordSize /\ WordSize * 0 = 0  BY <1>1
<1>3. \A n \in Nat : r < n => p + WordSize <= WordSize * n
  <2> SUFFICES ASSUME NEW n \in Nat, r < n PROVE p + WordSize <= WordSize * n  OBVIOUS
  <2>1. PICK k \in Nat : n = r + 1 + k
    <3>1. n - r - 1 \in Nat /\ n = r + 1 + (n - r - 1)  OBVIOUS
    <3> QED  BY <3>1
  <2>2. WordSize * n = WordSize * (r + 1) + WordSize * k  BY <1>1, <2>1
  <2>3. WordSize * k \in Nat  BY <1>1
  <2> QED  BY <1>1, <1>2, <2>2, <2>3
<1>4. Digit(c, r) = c + p /\ Digit(c + 1, r) = c + 1 + p /\ Digit(0, r + 1) = 0 + (p + WordSize) /\ Digit(0, 0) = 0
  BY <1>2 DEF Digit
<1> HIDE DEF p
<1>5. \A n \in Nat : r < n => Digit(c, r) < WordSize * n
  <2> SUFFICES ASSUME NEW n \in Nat, r < n PROVE Digit(c, r) < WordSize * n  OBVIOUS
  <2>1. PICK x \in Int : x = WordSize * n /\ p + WordSize <= x  BY <1>1, <1>3
  <2> QED  BY <1>1, <1>4, <2>1
<1> QED  BY <1>1, <1>4, <1>5

\* the number of the digits c
ValueOf(c) == Digit(c[0], Digit(c[1], Digit(c[2], c[3])))
All == WordSize * (WordSize * (WordSize * WordSize))

\* the number after x, below m
After(x, m) == IF x + 1 = m THEN 0 ELSE x + 1

\* A number is counted on by its first digit, and by the others when that is full.
LEMMA DigitCounts ==
  ASSUME NEW c \in 0 .. WordSize - 1, NEW m \in Nat, NEW r \in Nat, r < m
  PROVE  /\ Digit(c, r) \in Nat /\ Digit(c, r) < WordSize * m
         /\ c + 1 = WordSize => Digit(0, After(r, m)) = After(Digit(c, r), WordSize * m)
         /\ c + 1 # WordSize => Digit(c + 1, r) = After(Digit(c, r), WordSize * m)
<1>1. WordSize \in Nat /\ 0 \in 0 .. WordSize - 1 /\ r + 1 \in Nat  BY SortAssumption
<1>2. PICK x \in Nat : x = WordSize * m  BY <1>1
<1>3. PICK n \in Nat : n = Digit(c, r)  BY DigitIs
<1>4. n < x  BY <1>2, <1>3, DigitIs
<1>5. ASSUME c + 1 = WordSize PROVE Digit(0, After(r, m)) = After(n, x)
  <2>1. Digit(0, r + 1) = n + 1  BY <1>3, <1>5, DigitIs
  <2>2. CASE r + 1 = m
    <3>1. Digit(0, m) = x  BY <1>1, <1>2 DEF Digit
    <3>2. Digit(0, 0) = 0  BY DigitIs
    <3> QED  BY <2>1, <2>2, <3>1, <3>2 DEF After
  <2>3. CASE r + 1 # m
    <3>1. r + 1 < m  BY <2>3
    <3>2. Digit(0, r + 1) < x
      <4> DEFINE z == 0
      <4>1. z \in 0 .. WordSize - 1  BY <1>1
      <4> HIDE DEF z
      <4>2. Digit(z, r + 1) < WordSize * m  BY <1>1, <3>1, <4>1, DigitIs
      <4> QED  BY <1>2, <4>2 DEF z
    <3> QED  BY <2>1, <2>3, <3>2 DEF After
  <2> QED  BY <2>2, <2>3
<1>6. ASSUME c + 1 # WordSize PROVE Digit(c + 1, r) = After(n, x)
  <2>1. c + 1 < WordSize /\ c + 1 \in 0 .. WordSize - 1  BY <1>1, <1>6
  <2>2. Digit(c + 1, r) = n + 1  BY <1>3, <2>1, DigitIs
  <2>3. PICK e \in 0 .. WordSize - 1 : e = c + 1  BY <2>1
  <2>4. Digit(e, r) < WordSize * m  BY <2>3, DigitIs
  <2>5. n + 1 < x  BY <1>2, <2>2, <2>3, <2>4
  <2> QED  BY <2>2, <2>5 DEF After
<1> QED  BY <1>2, <1>3, <1>4, <1>5, <1>6

\* The counter counts.
LEMMA IncrementCounts ==
  ASSUME NEW c \in [0 .. 3 -> 0 .. WordSize - 1]
  PROVE  /\ Increment(c) \in [0 .. 3 -> 0 .. WordSize - 1]
         /\ ValueOf(c) \in Nat /\ ValueOf(c) < All
         /\ ValueOf(Increment(c)) = After(ValueOf(c), All)
<1> DEFINE Full(k) == c[k] + 1 = WordSize
           d == Increment(c)
           W1 == WordSize
           W2 == WordSize * W1
           W3 == WordSize * W2
<1>1. WordSize \in Nat \ {0} /\ W2 \in Nat /\ W3 \in Nat  BY SortAssumption
<1>2. c[0] \in 0 .. WordSize - 1 /\ c[1] \in 0 .. WordSize - 1 /\ c[2] \in 0 .. WordSize - 1 /\ c[3] \in 0 .. WordSize - 1
  OBVIOUS
<1>3. \A k \in 0 .. 3 : c[k] \in 0 .. WordSize - 1  OBVIOUS
<1>4. PICK n3 \in Nat : n3 = c[3] /\ n3 < W1  BY <1>1, <1>2
<1>5. PICK n2 \in Nat : n2 = Digit(c[2], n3)  BY <1>2, DigitIs
<1>6. PICK n1 \in Nat : n1 = Digit(c[1], n2)  BY <1>2, DigitIs
<1>7. PICK n0 \in Nat : n0 = Digit(c[0], n1)  BY <1>2, DigitIs
<1>8. \A k \in 0 .. 3 : (c[k] + 1) % WordSize = IF Full(k) THEN 0 ELSE c[k] + 1
  <2> SUFFICES ASSUME NEW k \in 0 .. 3 PROVE (c[k] + 1) % WordSize = IF Full(k) THEN 0 ELSE c[k] + 1  OBVIOUS
  <2>1. c[k] \in 0 .. WordSize - 1  OBVIOUS
  <2>2. WordSize % WordSize = 0  BY <1>1
  <2>3. \A x \in 0 .. WordSize - 1 : x % WordSize = x  BY <1>1
  <2> QED  BY <1>1, <2>1, <2>2, <2>3
<1>9. /\ d \in [0 .. 3 -> 0 .. WordSize - 1]
      /\ \A k \in 0 .. 3 : d[k] = IF \A l \in 0 .. k - 1 : Full(l) THEN (IF Full(k) THEN 0 ELSE c[k] + 1) ELSE c[k]
  <2>1. \A k \in 0 .. 3 : (c[k] + 1) % WordSize = 0 <=> Full(k)
    <3> SUFFICES ASSUME NEW k \in 0 .. 3 PROVE (c[k] + 1) % WordSize = 0 <=> Full(k)  OBVIOUS
    <3>1. c[k] \in 0 .. WordSize - 1 /\ (c[k] + 1) % WordSize = IF Full(k) THEN 0 ELSE c[k] + 1  BY <1>8
    <3> QED  BY <1>1, <3>1
  <2>2. d = [k \in 0 .. 3 |-> IF \A l \in 0 .. k - 1 : (c[l] + 1) % WordSize = 0
                              THEN (c[k] + 1) % WordSize ELSE c[k]]
    BY DEF Increment
  <2>3. \A k \in 0 .. 3 : d[k] = IF \A l \in 0 .. k - 1 : Full(l) THEN (IF Full(k) THEN 0 ELSE c[k] + 1) ELSE c[k]
    <3> SUFFICES ASSUME NEW k \in 0 .. 3
        PROVE d[k] = IF \A l \in 0 .. k - 1 : Full(l) THEN (IF Full(k) THEN 0 ELSE c[k] + 1) ELSE c[k]
      OBVIOUS
    <3>1. \A l \in 0 .. k - 1 : l \in 0 .. 3  OBVIOUS
    <3> HIDE DEF Full, d
    <3> QED  BY <1>8, <2>1, <2>2, <3>1
  <2>4. \A k \in 0 .. 3 : d[k] \in 0 .. WordSize - 1
    <3> HIDE DEF d
    <3> QED  BY <1>1, <1>3, <2>3
  <2> QED  BY <2>2, <2>3, <2>4
<1> HIDE DEF d
<1>10. /\ d[0] = IF Full(0) THEN 0 ELSE c[0] + 1
       /\ d[1] = IF Full(0) THEN IF Full(1) THEN 0 ELSE c[1] + 1 ELSE c[1]
       /\ d[2] = IF Full(0) /\ Full(1) THEN IF Full(2) THEN 0 ELSE c[2] + 1 ELSE c[2]
       /\ d[3] = IF Full(0) /\ Full(1) /\ Full(2) THEN IF Full(3) THEN 0 ELSE c[3] + 1 ELSE c[3]
  <2>1. 0 .. 0 - 1 = {} /\ 0 .. 1 - 1 = {0} /\ 0 .. 2 - 1 = {0, 1} /\ 0 .. 3 - 1 = {0, 1, 2}  OBVIOUS
  <2>2. 0 \in 0 .. 3 /\ 1 \in 0 .. 3 /\ 2 \in 0 .. 3 /\ 3 \in 0 .. 3  OBVIOUS
  <2> HIDE DEF Full
  <2> QED  BY <1>9, <2>1, <2>2
<1>11. ValueOf(d) = Digit(d[0], Digit(d[1], Digit(d[2], d[3]))) /\ ValueOf(c) = n0 /\ All = WordSize * W3
  BY <1>4, <1>5, <1>6, <1>7 DEF ValueOf, All
<1> HIDE DEF W1, W2, W3
<1>12. /\ n2 < W2
       /\ Full(2) => Digit(0, After(n3, W1)) = After(n2, W2)
       /\ ~Full(2) => Digit(c[2] + 1, n3) = After(n2, W2)
  <2>1. W1 \in Nat  BY <1>1 DEF W1
  <2>2. PICK x : x = W2 /\ x = WordSize * W1  BY DEF W2
  <2>3. /\ n2 < WordSize * W1
        /\ Full(2) => Digit(0, After(n3, W1)) = After(n2, WordSize * W1)
        /\ ~Full(2) => Digit(c[2] + 1, n3) = After(n2, WordSize * W1)
    <3>1. c[2] \in 0 .. WordSize - 1 /\ n3 < W1 /\ n2 = Digit(c[2], n3)  BY <1>2, <1>4, <1>5
    <3>2. /\ Digit(c[2], n3) < WordSize * W1
          /\ Full(2) => Digit(0, After(n3, W1)) = After(Digit(c[2], n3), WordSize * W1)
          /\ ~Full(2) => Digit(c[2] + 1, n3) = After(Digit(c[2], n3), WordSize * W1)
      BY <2>1, <3>1, DigitCounts, Zenon
    <3> QED  BY <3>1, <3>2
  <2> QED  BY <2>2, <2>3
<1>13. /\ n1 < W3
       /\ Full(1) => Digit(0, After(n2, W2)) = After(n1, W3)
       /\ ~Full(1) => Digit(c[1] + 1, n2) = After(n1, W3)
  <2>1. PICK x : x = W3 /\ x = WordSize * W2  BY DEF W3
  <2>2. /\ n1 < WordSize * W2
        /\ Full(1) => Digit(0, After(n2, W2)) = After(n1, WordSize * W2)
        /\ ~Full(1) => Digit(c[1] + 1, n2) = After(n1, WordSize * W2)
    <3>1. c[1] \in 0 .. WordSize - 1 /\ W2 \in Nat /\ n2 < W2 /\ n1 = Digit(c[1], n2)  BY <1>1, <1>2, <1>6, <1>12
    <3>2. /\ Digit(c[1], n2) < WordSize * W2
          /\ Full(1) => Digit(0, After(n2, W2)) = After(Digit(c[1], n2), WordSize * W2)
          /\ ~Full(1) => Digit(c[1] + 1, n2) = After(Digit(c[1], n2), WordSize * W2)
      BY <3>1, DigitCounts, Zenon
    <3> QED  BY <3>1, <3>2
  <2> QED  BY <2>1, <2>2
<1>14. /\ n0 < All
       /\ Full(0) => Digit(0, After(n1, W3)) = After(n0, All)
       /\ ~Full(0) => Digit(c[0] + 1, n1) = After(n0, All)
  <2>1. PICK x : x = WordSize * W3 /\ x = All  BY <1>11
  <2>2. /\ n0 < WordSize * W3
        /\ Full(0) => Digit(0, After(n1, W3)) = After(n0, WordSize * W3)
        /\ ~Full(0) => Digit(c[0] + 1, n1) = After(n0, WordSize * W3)
    <3>1. c[0] \in 0 .. WordSize - 1 /\ W3 \in Nat /\ n1 < W3 /\ n0 = Digit(c[0], n1)  BY <1>1, <1>2, <1>7, <1>13
    <3>2. /\ Digit(c[0], n1) < WordSize * W3
          /\ Full(0) => Digit(0, After(n1, W3)) = After(Digit(c[0], n1), WordSize * W3)
          /\ ~Full(0) => Digit(c[0] + 1, n1) = After(Digit(c[0], n1), WordSize * W3)
      BY <3>1, DigitCounts, Zenon
    <3> QED  BY <3>1, <3>2
  <2> QED  BY <2>1, <2>2
<1>15. d[3] = IF Full(0) /\ Full(1) /\ Full(2) THEN After(n3, W1) ELSE n3  BY <1>4, <1>10 DEF After, W1
<1> HIDE DEF Full
<1>16. Digit(d[2], d[3]) = IF Full(0) /\ Full(1) THEN After(n2, W2) ELSE n2  BY <1>5, <1>10, <1>12, <1>15, <1>4
<1>17. Digit(d[1], Digit(d[2], d[3])) = IF Full(0) THEN After(n1, W3) ELSE n1  BY <1>6, <1>10, <1>13, <1>16
<1>18. Digit(d[0], Digit(d[1], Digit(d[2], d[3]))) = After(n0, All)  BY <1>7, <1>10, <1>14, <1>17
<1>19. d \in [0 .. 3 -> 0 .. WordSize - 1]  BY <1>9
<1> QED  BY <1>11, <1>14, <1>18, <1>19 DEF d

\* An invariant of the stream and the list that is sorted.
SortInv ==
  /\ list \in Seq(Servers) /\ Len(list) <= ListMax
  /\ in \in [0 .. 3 -> 0 .. WordSize - 1]
  /\ outleft \in 0 .. 7
  /\ StreamIsFresh

\* The words of the stream are counted in the order of the counter, modulo its cycle.
LEMMA WordIsNext ==
  ASSUME NEW m \in Nat \ {0}, NEW n \in Nat, n < m, NEW l \in 0 .. 7
  PROVE  /\ l # 0 => (((8 * n - l) % (8 * m)) + 1) % (8 * m) = (8 * n - (l - 1)) % (8 * m)
         /\ l = 0 => (((8 * n - l) % (8 * m)) + 1) % (8 * m) = (8 * After(n, m) - 7) % (8 * m)
<1> DEFINE M == 8 * m
           x == 8 * n - l
<1>1. M \in Nat /\ M >= 8 /\ x \in Int /\ x >= -7 /\ x <= M - 8  OBVIOUS
<1>2. \A y \in 0 .. M - 1 : y % M = y  BY <1>1
<1>3. \A y \in Int : y < 0 /\ y >= -M => y % M = y + M
  <2> SUFFICES ASSUME NEW y \in Int, y < 0, y >= -M PROVE y % M = y + M  OBVIOUS
  <2>1. y + M \in 0 .. M - 1  BY <1>1
  <2>2. y % M \in 0 .. M - 1 /\ y = M * (y \div M) + (y % M)  BY <1>1
  <2> HIDE DEF M
  <2> QED  BY <1>1, <2>1, <2>2
<1>4. M % M = 0  BY <1>1
<1>5. l # 0 => (8 * n - (l - 1)) = x + 1  OBVIOUS
<1>6. l = 0 => 8 * After(n, m) - 7 = IF n + 1 = m THEN -7 ELSE x + 1  BY DEF After
<1>7. l = 0 /\ n + 1 = m => x + 1 = M - 7  OBVIOUS
<1> HIDE DEF M, x
<1>8. ((x % M) + 1) % M = (x + 1) % M
  <2>1. CASE x >= 0  BY <1>1, <1>2, <2>1
  <2>2. CASE x < 0
    <3>1. x % M = x + M  BY <1>1, <1>3, <2>2
    <3>2. CASE x = -1  BY <1>1, <1>2, <1>4, <3>1, <3>2
    <3>3. CASE x # -1
      <4>1. (x + 1) % M = x + 1 + M  BY <1>1, <1>3, <2>2, <3>3
      <4>2. (x + M + 1) % M = x + M + 1  BY <1>1, <1>2, <2>2, <3>3
      <4> QED  BY <1>1, <3>1, <4>1, <4>2
    <3> QED  BY <3>2, <3>3
  <2> QED  BY <1>1, <2>1, <2>2
<1>9. n + 1 = m /\ l = 0 => (x + 1) % M = (-7) % M
  <2>1. (-7) % M = -7 + M  BY <1>1, <1>3
  <2>2. (M - 7) % M = M - 7  BY <1>1, <1>2
  <2> QED  BY <1>1, <1>7, <2>1, <2>2
<1> QED  BY <1>5, <1>6, <1>8, <1>9 DEF M, x

LEMMA SortStep == SortInv /\ [SortNext]_sortvars => SortInv'
<1> SUFFICES ASSUME SortInv, [SortNext]_sortvars PROVE SortInv'  OBVIOUS
<1> USE DEF SortInv
<1>1. WordSize \in Nat \ {0} /\ All \in Nat \ {0} /\ Cycle = 8 * All
  <2>1. WordSize \in Nat \ {0}  BY SortAssumption
  <2>2. \A a, b \in Nat \ {0} : a * b \in Nat \ {0}  OBVIOUS
  <2> QED  BY <2>1, <2>2 DEF All, Cycle
<1>2. Counted = ValueOf(in) /\ Counted' = ValueOf(in')
  BY DEF Counted, ValueOf, Digit
<1>3. CASE Draw
  <2>1. list' = list /\ drawn' = (drawn + 1) % Cycle /\ drawn = (8 * ValueOf(in) - outleft) % Cycle
    BY <1>2, <1>3 DEF Draw, StreamIsFresh
  <2>2. ValueOf(in) \in Nat /\ ValueOf(in) < All  BY IncrementCounts
  <2>3. CASE outleft = 0
    <3>1. in' = Increment(in) /\ outleft' = 7  BY <1>3, <2>3 DEF Draw, Random
    <3>2. in' \in [0 .. 3 -> 0 .. WordSize - 1] /\ ValueOf(in') = After(ValueOf(in), All)  BY <3>1, IncrementCounts
    <3>3. drawn' = (8 * After(ValueOf(in), All) - 7) % (8 * All)  BY <1>1, <2>1, <2>2, <2>3, WordIsNext
    <3>4. StreamIsFresh'  BY <1>1, <1>2, <3>1, <3>2, <3>3 DEF StreamIsFresh, Cycle
    <3> QED  BY <2>1, <3>1, <3>2, <3>4
  <2>4. CASE outleft # 0
    <3>1. in' = in /\ outleft' = outleft - 1 /\ outleft' \in 0 .. 7  BY <1>3, <2>4 DEF Draw, Random
    <3>2. drawn' = (8 * ValueOf(in) - (outleft - 1)) % (8 * All)  BY <1>1, <2>1, <2>2, <2>4, WordIsNext
    <3>3. StreamIsFresh'  BY <1>1, <1>2, <3>1, <3>2 DEF StreamIsFresh, Cycle
    <3> QED  BY <2>1, <3>1, <3>3
  <2> QED  BY <2>3, <2>4
<1>4. ASSUME NEW s \in Servers, Add(s) PROVE SortInv'
  <2>1. list' \in Seq(Servers) /\ Len(list') <= ListMax  BY <1>4, SortAssumption DEF Add
  <2> QED  BY <1>4, <2>1 DEF Add, randomVars, StreamIsFresh, Counted, Cycle
<1>5. CASE UNCHANGED sortvars
  BY <1>5 DEF sortvars, StreamIsFresh, Counted, Cycle
<1> QED  BY <1>3, <1>4, <1>5 DEF SortNext

LEMMA SortStarts == SortInit => SortInv
<1> SUFFICES ASSUME SortInit PROVE SortInv  OBVIOUS
<1> USE DEF SortInit, RandomInit
<1>1. list \in Seq(Servers) /\ outleft \in 0 .. 7 /\ Len(list) <= ListMax  BY SortAssumption
<1>2. in \in [0 .. 3 -> 0 .. WordSize - 1]  BY SortAssumption
<1>3. Counted = 0
  <2>1. WordSize * 0 = 0  BY SortAssumption
  <2> QED  BY <2>1 DEF Counted
<1>4. Cycle \in Nat /\ Cycle > 0
  <2>1. WordSize \in Nat \ {0}  BY SortAssumption
  <2>2. \A a, b \in Nat \ {0} : a * b \in Nat \ {0}  OBVIOUS
  <2> QED  BY <2>1, <2>2 DEF Cycle
<1>5. StreamIsFresh
  <2>1. 0 % Cycle = 0  BY <1>4
  <2> QED  BY <1>3, <2>1 DEF StreamIsFresh
<1> QED  BY <1>1, <1>2, <1>5 DEF SortInv

\* The order of the servers is the stream's alone: whatever is drawn no server of a list
\* is lost or doubled, different draws give different orders, of a socket for IPv4 only
\* its servers are left, and no word is used twice before the counter has gone through
\* all its values (dns_sortip.c, dns_random.c).
THEOREM ServersAreShuffledFairly == SortSpec => []SortIsFair
<1>1. SortInv => SortIsFair
  <2> SUFFICES ASSUME SortInv PROVE SortIsFair  OBVIOUS
  <2>1. list \in Seq(Servers) /\ Len(list) <= ListMax /\ StreamIsFresh  BY DEF SortInv
  <2>2. EveryOrder  BY <2>1, OrdersAreFair
  <2>3. OnlyUsable  BY <2>1, UsableAreLeft
  <2> QED  BY <2>1, <2>2, <2>3 DEF SortIsFair
<1> QED  BY <1>1, SortStarts, SortStep, PTL DEF SortSpec

-----------------------------------------------------------------------------
(***************************************************************************)
(* Names in packets: turns of dns_packet_getname                           *)
(***************************************************************************)
\* the states of a name that is read
ReadStates == [going : BOOLEAN, pos : Nat, state : Nat, first : Nat, name : Seq(Nat)]

Reads(p, state, f, name) == [going |-> TRUE, pos |-> p, state |-> state, first |-> f, name |-> name]

LEMMA PointersAre == Ptr \in Nat /\ Bad \in Nat /\ Bad <= Ptr
<1>1. Byte \div 4 \in Nat  BY NamesAssumption
<1> QED  BY <1>1 DEF Ptr, Bad

LEMMA BytesAre ==
  ASSUME NEW buf \in Seq(Nat)
  PROVE  /\ \A p \in Nat : p < Len(buf) => buf[p + 1] \in Nat
         /\ \A p \in Nat : p + 1 < Len(buf) /\ buf[p + 1] >= Ptr => Where(buf, p) \in Nat
<1>1. PICK l \in Nat : l = Len(buf)  BY LenProperties
<1>2. ASSUME NEW p \in Nat, p < l PROVE buf[p + 1] \in Nat
  <2>1. p + 1 \in 1 .. l  BY <1>2
  <2> QED  BY <1>1, <2>1, ElementOfSeq
<1>3. ASSUME NEW p \in Nat, p + 1 < l, buf[p + 1] >= Ptr PROVE Where(buf, p) \in Nat
  <2>1. p < l /\ p + 1 \in Nat /\ p + 1 + 1 = p + 2  BY <1>3
  <2>2. PICK c \in Nat, d \in Nat : c = buf[p + 1] /\ d = buf[p + 2]  BY <1>2, <1>3, <2>1
  <2>3. PICK e \in Nat : e = c - Ptr  BY <1>3, <2>2, PointersAre
  <2>4. e * Byte + d \in Nat  BY <2>2, <2>3, NamesAssumption
  <2> QED  BY <2>2, <2>3, <2>4 DEF Where
<1> QED  BY <1>1, <1>2, <1>3

LEMMA ProtoIs == Proto \in ReadStates /\ ~Proto.going
<1>1. <<>> \in Seq(Nat)  OBVIOUS
<1> QED  BY <1>1 DEF Proto, ReadStates

\* A turn of dns_packet_getname, for what it finds.
Turn(buf, p, c, m, state, f, name, next) ==
  /\ state = 0 /\ c >= Ptr /\ p + 1 >= Len(buf) => next = Proto
  /\ state = 0 /\ c >= Ptr /\ p + 1 < Len(buf) => next = Reads(Where(buf, p), 0, IF f = 0 THEN p + 2 ELSE f, name)
  /\ state = 0 /\ c < Ptr /\ c >= Bad => next = Proto
  /\ state = 0 /\ c < Bad /\ m >= NameMax => next = Proto
  /\ state = 0 /\ c < Bad /\ c = 0 /\ m < NameMax =>
       next = [going |-> FALSE, pos |-> IF f # 0 THEN f ELSE p + 1, state |-> 0, first |-> f, name |-> Append(name, 0)]
  /\ state = 0 /\ c < Bad /\ c # 0 /\ m < NameMax => next = Reads(p + 1, c, f, Append(name, c))
  /\ state # 0 /\ m >= NameMax => next = Proto
  /\ state # 0 /\ m < NameMax => next = Reads(p + 1, state - 1, f, Append(name, c))

LEMMA TurnGives ==
  ASSUME NEW buf \in Seq(Nat), NEW p \in Nat, p < Len(buf), NEW c, c = buf[p + 1],
         NEW state \in Nat, NEW f \in Nat, NEW name \in Seq(Nat), NEW r, r = Reads(p, state, f, name)
  PROVE  Turn(buf, p, c, Len(name), state, f, name, GetByte(buf, r))
<1>1. PICK l \in Nat, m \in Nat : l = Len(buf) /\ m = Len(name)  BY LenProperties
<1>2. PICK b \in Nat : b = c  BY BytesAre
<1>3. r.going = TRUE /\ r.pos = p /\ r.state = state /\ r.first = f /\ r.name = name  BY DEF Reads
<1> DEFINE pointer == state = 0 /\ b >= Ptr
           last == state = 0 /\ b = 0
           stops == \/ p >= l
                    \/ pointer /\ p + 1 >= l
                    \/ ~pointer /\ ((state = 0 /\ b >= Bad) \/ m >= NameMax)
           jump == [going |-> TRUE, pos |-> Where(buf, p), state |-> 0, first |-> IF f = 0 THEN p + 2 ELSE f, name |-> name]
           take == [going |-> ~last, pos |-> IF last /\ f # 0 THEN f ELSE p + 1,
                    state |-> IF state = 0 THEN b ELSE state - 1, first |-> f, name |-> Append(name, b)]
<1> PICK next : next = GetByte(buf, r)  OBVIOUS
<1>4. next = IF stops THEN Proto ELSE IF pointer THEN jump ELSE take
  <2>1. buf[r.pos + 1] = b  BY <1>2, <1>3
  <2> QED  BY <1>1, <1>3, <2>1 DEF GetByte
<1>5. jump = Reads(Where(buf, p), 0, IF f = 0 THEN p + 2 ELSE f, name)  BY DEF Reads
<1>6. last => take = [going |-> FALSE, pos |-> IF f # 0 THEN f ELSE p + 1, state |-> 0, first |-> f, name |-> Append(name, 0)]
  OBVIOUS
<1>7. ~last => take = Reads(p + 1, IF state = 0 THEN b ELSE state - 1, f, Append(name, b))  BY DEF Reads
<1>8. PICK y \in Nat, d \in Nat : y = Ptr /\ d = Bad /\ d <= y  BY PointersAre
<1>9. stops <=> \/ pointer /\ p + 1 >= l
                \/ ~pointer /\ ((state = 0 /\ b >= Bad) \/ m >= NameMax)  BY <1>1
<1>10. (pointer <=> state = 0 /\ b >= y) /\ (last <=> state = 0 /\ b = 0)  BY <1>8
<1> HIDE DEF jump, take, stops, pointer, last
<1>11. /\ state = 0 /\ b >= y /\ p + 1 >= l => stops
       /\ state = 0 /\ b >= y /\ p + 1 < l => ~stops /\ pointer
       /\ state = 0 /\ b < y /\ b >= d => stops
       /\ state = 0 /\ b < d /\ m >= NameMax => stops
       /\ state = 0 /\ b < d /\ b = 0 /\ m < NameMax => ~stops /\ ~pointer /\ last
       /\ state = 0 /\ b < d /\ b # 0 /\ m < NameMax => ~stops /\ ~pointer /\ ~last
       /\ state # 0 /\ m >= NameMax => stops
       /\ state # 0 /\ m < NameMax => ~stops /\ ~pointer /\ ~last
  BY <1>8, <1>9, <1>10, NamesAssumption
<1>12. Turn(buf, p, b, m, state, f, name, next)  BY <1>1, <1>4, <1>5, <1>6, <1>7, <1>8, <1>11 DEF Turn
<1> QED  BY <1>1, <1>2, <1>12

LEMMA GetByteKeeps ==
  ASSUME NEW buf \in Seq(Nat), NEW r \in ReadStates
  PROVE  GetByte(buf, r) \in ReadStates
<1>1. PICK l \in Nat : l = Len(buf)  BY LenProperties
<1>2. PICK p \in Nat, state \in Nat, f \in Nat, name \in Seq(Nat) :
        p = r.pos /\ state = r.state /\ f = r.first /\ name = r.name  BY DEF ReadStates
<1>3. r.going \in BOOLEAN  BY DEF ReadStates
<1>4. CASE ~r.going  BY <1>4 DEF GetByte
<1>5. CASE p >= l
  <2>1. r.pos >= Len(buf)  BY <1>1, <1>2, <1>5
  <2> QED  BY <2>1, ProtoIs DEF GetByte
<1>6. CASE r.going /\ p < l
  <2>1. PICK c \in Nat : c = buf[p + 1]  BY <1>1, <1>6, BytesAre
  <2> DEFINE pointer == state = 0 /\ c >= Ptr
             last == state = 0 /\ c = 0
             stops == \/ p >= l
                      \/ pointer /\ p + 1 >= l
                      \/ ~pointer /\ ((state = 0 /\ c >= Bad) \/ Len(name) >= NameMax)
             jump == [going |-> TRUE, pos |-> Where(buf, p), state |-> 0, first |-> IF f = 0 THEN p + 2 ELSE f, name |-> name]
             take == [going |-> ~last, pos |-> IF last /\ f # 0 THEN f ELSE p + 1,
                      state |-> IF state = 0 THEN c ELSE state - 1, first |-> f, name |-> Append(name, c)]
  <2>2. GetByte(buf, r) = IF stops THEN Proto ELSE IF pointer THEN jump ELSE take
    <3>1. buf[r.pos + 1] = c  BY <1>2, <2>1
    <3> QED  BY <1>1, <1>2, <1>6, <3>1 DEF GetByte
  <2>3. pointer /\ p + 1 < l => jump \in ReadStates
    <3>1. pointer /\ p + 1 < l => Where(buf, p) \in Nat  BY <1>1, <2>1, BytesAre
    <3> QED  BY <3>1 DEF ReadStates
  <2>4. take \in ReadStates
    <3>1. Append(name, c) \in Seq(Nat)  BY AppendProperties
    <3>2. PICK h \in Nat : h = IF state = 0 THEN c ELSE state - 1  OBVIOUS
    <3> QED  BY <3>1, <3>2 DEF ReadStates
  <2>5. stops \/ ~pointer \/ p + 1 < l  BY <1>1
  <2> HIDE DEF stops, pointer, jump, take
  <2> QED  BY <2>2, <2>3, <2>4, <2>5, ProtoIs
<1> QED  BY <1>1, <1>2, <1>3, <1>4, <1>5, <1>6

\* g is the states of dns_packet_getname, turn by turn
Run(g, buf, pos0) ==
  /\ g \in [0 .. LoopMax - 1 -> ReadStates] /\ g[0] = Start(pos0)
  /\ \A k \in 1 .. LoopMax - 1 : g[k] = GetByte(buf, g[k - 1])
  /\ GetName(buf, pos0) = IF g[LoopMax - 1].going THEN Proto ELSE g[LoopMax - 1]

LEMMA TurnsAreMade ==
  ASSUME NEW buf \in Seq(Nat), NEW pos0 \in Nat
  PROVE  \E g : Run(g, buf, pos0)
<1>1. PICK n \in Nat : n = LoopMax - 1  BY NamesAssumption
<1> DEFINE turn == [x \in ReadStates \X (1 .. n) |-> GetByte(buf, x[1])]
           loop(f) == f = [k \in 0 .. n |-> IF k = 0 THEN Start(pos0) ELSE GetByte(buf, f[k - 1])]
           v == CHOOSE f : loop(f)
<1>2. turn \in [ReadStates \X (1 .. n) -> ReadStates]
  <2>1. \A x \in ReadStates \X (1 .. n) : x[1] \in ReadStates  OBVIOUS
  <2> QED  BY <2>1, GetByteKeeps
<1>3. Start(pos0) \in ReadStates
  <2>1. <<>> \in Seq(Nat)  OBVIOUS
  <2> QED  BY <2>1 DEF Start, ReadStates
<1>4. PICK g : Turns(g, n, Start(pos0), turn, ReadStates)
  <2> HIDE DEF turn
  <2> QED  BY <1>2, <1>3, TurnsExist
<1>5. g \in [0 .. n -> ReadStates] /\ g[0] = Start(pos0) /\ \A k \in 1 .. n : g[k] = turn[<<g[k - 1], k>>]
  BY <1>4 DEF Turns
<1>6. \A k \in 1 .. n : g[k] = GetByte(buf, g[k - 1])
  <2> SUFFICES ASSUME NEW k \in 1 .. n PROVE g[k] = GetByte(buf, g[k - 1])  OBVIOUS
  <2>1. g[k - 1] \in ReadStates
    <3>1. k - 1 \in 0 .. n  OBVIOUS
    <3> QED  BY <1>5, <3>1
  <2>2. <<g[k - 1], k>> \in ReadStates \X (1 .. n)  BY <2>1
  <2> QED  BY <1>5, <2>2
<1> HIDE DEF turn
<1>7. GetName(buf, pos0) = IF v[n].going THEN Proto ELSE v[n]  BY <1>1 DEF GetName
<1>8. loop(g)
  <2>1. \A k \in 0 .. n : g[k] = IF k = 0 THEN Start(pos0) ELSE GetByte(buf, g[k - 1])
    <3>1. \A k \in 0 .. n : k # 0 => k \in 1 .. n  OBVIOUS
    <3> QED  BY <1>5, <1>6, <3>1
  <2>2. g = [k \in 0 .. n |-> g[k]]  BY <1>5
  <2> QED  BY <2>1, <2>2
<1>9. PICK f : f = v /\ loop(f)
  <2> HIDE DEF loop
  <2> QED  BY <1>8
<1> HIDE DEF v
<1>10. f[0] = Start(pos0) /\ \A k \in 1 .. n : f[k] = GetByte(buf, f[k - 1])
  <2>1. 0 \in 0 .. n /\ \A k \in 1 .. n : k \in 0 .. n /\ k # 0  OBVIOUS
  <2>2. \A k \in 0 .. n : f[k] = IF k = 0 THEN Start(pos0) ELSE GetByte(buf, f[k - 1])  BY <1>9
  <2> QED  BY <2>1, <2>2
<1> HIDE DEF loop
<1>11. Alike(f, g, n)  BY <1>5, <1>6, <1>10 DEF Alike
<1>12. f[n] = g[n]
  <2>1. n \in 0 .. n  OBVIOUS
  <2> QED  BY <1>11, <2>1, SameTurns
<1> QED  BY <1>1, <1>5, <1>6, <1>7, <1>9, <1>12 DEF Run

-----------------------------------------------------------------------------
\* the states of a name that is followed from label to label
ExStates == [at : {"on", "none", "name"}, pos : Nat, labels : Seq(Seq(Nat)), hops : Nat]

\* What follows a place with the byte c.
Step(buf, e, p, c, next) ==
  /\ next \in ExStates
  /\ e.at # "on" => next = e
  /\ e.at = "on" /\ p >= Len(buf) => next.at = "none"
  /\ e.at = "on" /\ p + 1 = Len(buf) /\ c >= Ptr => next.at = "none"
  /\ e.at = "on" /\ p + 1 < Len(buf) /\ c >= Ptr =>
       next.at = "on" /\ next.pos = Where(buf, p) /\ next.labels = e.labels /\ next.hops = e.hops + 1
  /\ e.at = "on" /\ p < Len(buf) /\ c < Ptr /\ c >= Bad => next.at = "none"
  /\ e.at = "on" /\ p < Len(buf) /\ c < Bad /\ c = 0 => next.at = "name" /\ next.labels = e.labels /\ next.hops = e.hops
  /\ e.at = "on" /\ p < Len(buf) /\ c < Bad /\ c # 0 /\ p + c >= Len(buf) => next.at = "none"
  /\ e.at = "on" /\ p < Len(buf) /\ c < Bad /\ c # 0 /\ p + c < Len(buf) =>
       /\ next.at = "on" /\ next.pos = p + c + 1 /\ next.hops = e.hops
       /\ next.labels = Append(e.labels, SubSeq(buf, p + 2, p + c + 1))
       /\ SubSeq(buf, p + 2, p + c + 1) \in Seq(Nat)

LEMMA StepIs ==
  ASSUME NEW buf \in Seq(Nat), NEW e \in ExStates, NEW c, c = buf[e.pos + 1]
  PROVE  Step(buf, e, e.pos, c, Follow(buf, e))
<1>1. PICK l \in Nat : l = Len(buf)  BY LenProperties
<1>2. PICK p \in Nat : p = e.pos  BY DEF ExStates
<1>3. e.labels \in Seq(Seq(Nat)) /\ e.hops \in Nat /\ e.at \in {"on", "none", "name"}  BY DEF ExStates
<1>4. p < l => c \in Nat  BY <1>1, <1>2, BytesAre
<1>5. PICK y \in Nat, d \in Nat : y = Ptr /\ d = Bad /\ d <= y  BY PointersAre
<1> PICK next : next = Follow(buf, e)  OBVIOUS
<1> DEFINE stops == \/ p >= l
                    \/ c >= y /\ p + 1 >= l
                    \/ c < y /\ (c >= d \/ p + c >= l)
           end == [e EXCEPT !.at = "none"]
           jump == [e EXCEPT !.pos = Where(buf, p), !.hops = e.hops + 1]
           label == SubSeq(buf, p + 2, p + c + 1)
           go == [e EXCEPT !.pos = p + c + 1, !.labels = Append(e.labels, label)]
           name == [e EXCEPT !.at = "name"]
<1>6. next = IF e.at # "on" THEN e ELSE IF stops THEN end ELSE IF c >= y THEN jump ELSE IF c = 0 THEN name ELSE go
  BY <1>1, <1>2, <1>5 DEF Follow
<1>7. end \in ExStates /\ end.at = "none"  BY DEF ExStates
<1>8. name \in ExStates /\ name.at = "name" /\ name.labels = e.labels /\ name.hops = e.hops  BY DEF ExStates
<1>9. ASSUME p + 1 < l, c >= y
      PROVE  jump \in ExStates /\ jump.at = e.at /\ jump.pos = Where(buf, p) /\ jump.labels = e.labels /\ jump.hops = e.hops + 1
  <2>1. Where(buf, p) \in Nat  BY <1>1, <1>2, <1>5, <1>9, BytesAre
  <2>2. e.hops + 1 \in Nat  BY <1>3
  <2> QED  BY <2>1, <2>2 DEF ExStates
<1>10. ASSUME p < l, p + c < l
       PROVE  /\ label \in Seq(Nat) /\ go \in ExStates /\ go.at = e.at /\ go.pos = p + c + 1
              /\ go.labels = Append(e.labels, label) /\ go.hops = e.hops
  <2>1. PICK b \in Nat : b = c  BY <1>4, <1>10
  <2>2. label \in Seq(Nat)
    <3> HIDE DEF end, jump, go, name
    <3>0. p + b < l  BY <1>10, <2>1
    <3>1. p + 2 \in Nat \ {0} /\ p + b + 1 \in Nat /\ p + 2 <= p + b + 1 + 1 /\ p + b + 1 <= l
      <4> HIDE DEF stops, label
      <4> QED  BY <3>0
    <3>2. PICK t \in Seq(Nat) : IsPart(t, buf, p + 2, p + b + 1)  BY <1>1, <3>1, PartOf
    <3> QED  BY <2>1, <3>2 DEF IsPart
  <2> HIDE DEF label
  <2>3. PICK ls \in Seq(Seq(Nat)) : ls = Append(e.labels, label)  BY <1>3, <2>2, AppendProperties
  <2>4. PICK o \in Nat : o = p + c + 1  BY <2>1
  <2>5. go = [e EXCEPT !.pos = o, !.labels = ls]  BY <2>3, <2>4
  <2> HIDE DEF go
  <2>6. go \in ExStates /\ go.at = e.at /\ go.pos = o /\ go.labels = ls /\ go.hops = e.hops  BY <2>5 DEF ExStates
  <2> QED  BY <2>2, <2>3, <2>4, <2>6
<1> HIDE DEF end, jump, go, name, label
<1>11. /\ p >= l => stops
       /\ p + 1 = l /\ c >= y => stops
       /\ p + 1 < l /\ c >= y => ~stops
       /\ p < l /\ c < y /\ c >= d => stops
       /\ p < l /\ c < d /\ c = 0 => ~stops /\ ~(c >= y)
       /\ p < l /\ c < d /\ c # 0 /\ p + c >= l => stops
       /\ p < l /\ c < d /\ c # 0 /\ p + c < l => ~stops /\ ~(c >= y)
       /\ stops \/ (p < l /\ p + c < l) \/ (p + 1 < l /\ c >= y)
  <2>1. CASE p >= l  BY <2>1
  <2>2. CASE p < l
    <3>1. PICK b \in Nat : b = c  BY <1>4, <2>2
    <3> QED  BY <1>5, <2>2, <3>1
  <2> QED  BY <2>1, <2>2
<1> HIDE DEF stops
<1>12. next \in ExStates  BY <1>6, <1>7, <1>8, <1>9, <1>10, <1>11
<1>13. Step(buf, e, p, c, next)
  <2> SUFFICES /\ e.at = "on" /\ p + 1 < l /\ c >= y =>
                    next.at = "on" /\ next.pos = Where(buf, p) /\ next.labels = e.labels /\ next.hops = e.hops + 1
               /\ e.at = "on" /\ p < l /\ c < d /\ c # 0 /\ p + c < l =>
                    /\ next.at = "on" /\ next.pos = p + c + 1 /\ next.hops = e.hops
                    /\ next.labels = Append(e.labels, label) /\ label \in Seq(Nat)
    BY <1>1, <1>5, <1>6, <1>7, <1>8, <1>11, <1>12 DEF Step, label
  <2> QED  BY <1>6, <1>9, <1>10, <1>11
<1> QED  BY <1>2, <1>13

\* x is what the places passed so far are
Passed(x, buf, pos0) ==
  /\ x \in [0 .. LoopMax -> ExStates] /\ x[0] = [at |-> "on", pos |-> pos0, labels |-> <<>>, hops |-> 0]
  /\ \A k \in 1 .. LoopMax : x[k] = Follow(buf, x[k - 1])
  /\ Expansion(buf, pos0) = x[LoopMax]

LEMMA PassedIs ==
  ASSUME NEW buf \in Seq(Nat), NEW pos0 \in Nat
  PROVE  \E x : Passed(x, buf, pos0)
<1>1. PICK n \in Nat : n = LoopMax  BY NamesAssumption
<1> DEFINE first == [at |-> "on", pos |-> pos0, labels |-> <<>>, hops |-> 0]
           turn == [y \in ExStates \X (1 .. n) |-> Follow(buf, y[1])]
           loop(f) == f = [k \in 0 .. n |-> IF k = 0 THEN first ELSE Follow(buf, f[k - 1])]
           v == CHOOSE f : loop(f)
<1>2. turn \in [ExStates \X (1 .. n) -> ExStates]
  <2>1. \A y \in ExStates \X (1 .. n) : y[1] \in ExStates  OBVIOUS
  <2>2. \A e \in ExStates : Follow(buf, e) \in ExStates
    <3> SUFFICES ASSUME NEW e \in ExStates PROVE Follow(buf, e) \in ExStates  OBVIOUS
    <3>1. PICK c : c = buf[e.pos + 1]  OBVIOUS
    <3> QED  BY <3>1, StepIs DEF Step
  <2> QED  BY <2>1, <2>2
<1>3. first \in ExStates
  <2>1. <<>> \in Seq(Seq(Nat))  OBVIOUS
  <2> QED  BY <2>1 DEF ExStates
<1>4. PICK x : Turns(x, n, first, turn, ExStates)
  <2> HIDE DEF turn, first
  <2> QED  BY <1>2, <1>3, TurnsExist
<1>5. x \in [0 .. n -> ExStates] /\ x[0] = first /\ \A k \in 1 .. n : x[k] = turn[<<x[k - 1], k>>]
  BY <1>4 DEF Turns
<1>6. \A k \in 1 .. n : x[k] = Follow(buf, x[k - 1])
  <2> SUFFICES ASSUME NEW k \in 1 .. n PROVE x[k] = Follow(buf, x[k - 1])  OBVIOUS
  <2>1. x[k - 1] \in ExStates
    <3>1. k - 1 \in 0 .. n  OBVIOUS
    <3> QED  BY <1>5, <3>1
  <2>2. <<x[k - 1], k>> \in ExStates \X (1 .. n)  BY <2>1
  <2> QED  BY <1>5, <2>2
<1> HIDE DEF turn
<1>7. Expansion(buf, pos0) = v[n]  BY <1>1 DEF Expansion
<1>8. loop(x)
  <2>1. \A k \in 0 .. n : x[k] = IF k = 0 THEN first ELSE Follow(buf, x[k - 1])
    <3>1. \A k \in 0 .. n : k # 0 => k \in 1 .. n  OBVIOUS
    <3> QED  BY <1>5, <1>6, <3>1
  <2>2. x = [k \in 0 .. n |-> x[k]]  BY <1>5
  <2> QED  BY <2>1, <2>2
<1>9. PICK f : f = v /\ loop(f)
  <2> HIDE DEF loop
  <2> QED  BY <1>8
<1> HIDE DEF v
<1>10. f[0] = first /\ \A k \in 1 .. n : f[k] = Follow(buf, f[k - 1])
  <2>1. 0 \in 0 .. n /\ \A k \in 1 .. n : k \in 0 .. n /\ k # 0  OBVIOUS
  <2>2. \A k \in 0 .. n : f[k] = IF k = 0 THEN first ELSE Follow(buf, f[k - 1])  BY <1>9
  <2> QED  BY <2>1, <2>2
<1> HIDE DEF loop
<1>11. Alike(f, x, n)  BY <1>5, <1>6, <1>10 DEF Alike
<1>12. f[n] = x[n]
  <2>1. n \in 0 .. n  OBVIOUS
  <2> QED  BY <1>11, <2>1, SameTurns
<1> QED  BY <1>1, <1>5, <1>6, <1>7, <1>9, <1>12 DEF Passed

-----------------------------------------------------------------------------
\* no name is read
Fails(g) == g[LoopMax - 1].going \/ g[LoopMax - 1] = Proto

\* after a turn: it was the last one, or there is a next one
LEMMA TurnOn ==
  ASSUME NEW buf \in Seq(Nat), NEW pos0 \in Nat, NEW g, Run(g, buf, pos0), NEW i \in 0 .. LoopMax - 1
  PROVE  i = LoopMax - 1 \/ (i + 1 \in 1 .. LoopMax - 1 /\ g[i + 1] = GetByte(buf, g[i]))
<1>1. PICK n \in Nat : n = LoopMax - 1  BY NamesAssumption
<1>2. i = n \/ (i + 1 \in 1 .. n /\ i + 1 - 1 = i)  BY <1>1
<1>3. \A k \in 1 .. n : g[k] = GetByte(buf, g[k - 1])  BY <1>1 DEF Run
<1> QED  BY <1>1, <1>2, <1>3

\* A name that is no longer read stays as it is.
LEMMA StaysRead ==
  ASSUME NEW buf \in Seq(Nat), NEW pos0 \in Nat, NEW g, Run(g, buf, pos0), NEW i \in 0 .. LoopMax - 1, ~g[i].going
  PROVE  g[LoopMax - 1] = g[i]
<1>1. PICK n \in Nat : n = LoopMax - 1  BY NamesAssumption
<1> DEFINE T == {k \in 0 .. n : k >= i => g[k] = g[i]}
<1>2. i \in 0 .. n /\ \A k \in 1 .. n : g[k] = GetByte(buf, g[k - 1])  BY <1>1 DEF Run
<1>3. 0 \in T  BY <1>2
<1>4. ASSUME NEW k \in 1 .. n, k - 1 \in T PROVE k \in T
  <2>1. k > i => g[k - 1] = g[i]  BY <1>2, <1>4
  <2>2. k > i => g[k] = g[i]  BY <1>2, <2>1 DEF GetByte
  <2>3. k \in 0 .. n /\ (k >= i => k = i \/ k > i)  BY <1>2
  <2> QED  BY <2>2, <2>3
<1>5. n \in T
  <2> HIDE DEF T
  <2>1. \A k \in 0 .. n : k \in T  BY <1>3, <1>4, Induct
  <2> QED  BY <2>1
<1>6. n >= i  BY <1>2
<1> QED  BY <1>1, <1>5, <1>6

\* A place from which no turn goes on fails.
LEMMA StopsHere ==
  ASSUME NEW buf \in Seq(Nat), NEW pos0 \in Nat, NEW g, Run(g, buf, pos0), NEW i \in 0 .. LoopMax - 1,
         g[i].going, GetByte(buf, g[i]) = Proto
  PROVE  Fails(g)
<1>1. CASE i = LoopMax - 1  BY <1>1 DEF Fails
<1>2. CASE i # LoopMax - 1
  <2>1. PICK j \in 1 .. LoopMax - 1 : j = i + 1 /\ g[j] = GetByte(buf, g[i])  BY <1>2, TurnOn
  <2>2. g[j] = Proto /\ ~g[j].going /\ j \in 0 .. LoopMax - 1  BY <2>1, ProtoIs
  <2>3. g[LoopMax - 1] = g[j]  BY <2>2, StaysRead
  <2> QED  BY <2>2, <2>3 DEF Fails
<1> QED  BY <1>1, <1>2

\* w, and k bytes from the place p
With(buf, w, p, k) == w \o SubSeq(buf, p + 1, p + k)

LEMMA WithIs ==
  ASSUME NEW buf \in Seq(Nat), NEW w \in Seq(Nat), NEW p \in Nat, NEW k \in Nat, p + k <= Len(buf)
  PROVE  /\ With(buf, w, p, k) \in Seq(Nat) /\ Len(With(buf, w, p, k)) = Len(w) + k
         /\ k = 0 => With(buf, w, p, k) = w
<1>1. p + 1 \in Nat \ {0} /\ p + k \in Nat /\ p + 1 <= p + k + 1 /\ p + k - (p + 1) + 1 = k  OBVIOUS
<1>2. PICK t \in Seq(Nat) : IsPart(t, buf, p + 1, p + k)  BY <1>1, PartOf
<1>3. t = SubSeq(buf, p + 1, p + k) /\ Len(t) = k  BY <1>1, <1>2 DEF IsPart
<1>4. w \o t \in Seq(Nat) /\ Len(w \o t) = Len(w) + Len(t)  BY ConcatProperties
<1>5. k = 0 => w \o t = w
  <2>1. k = 0 => t = <<>>  BY <1>3, EmptySeq
  <2> QED  BY <2>1, ConcatEmptySeq
<1> QED  BY <1>3, <1>4, <1>5 DEF With

Grows(buf, w, p, k) == Append(With(buf, w, p, k), buf[p + k + 1]) = With(buf, w, p, k + 1)

LEMMA WithMore ==
  ASSUME NEW buf \in Seq(Nat), NEW w \in Seq(Nat), NEW p \in Nat, NEW k \in Nat, p + k < Len(buf)
  PROVE  Grows(buf, w, p, k)
<1>1. PICK l \in Nat : l = Len(buf)  BY LenProperties
<1>2. PICK d \in Nat : d = buf[p + k + 1]
  <2>1. p + k \in Nat  OBVIOUS
  <2> QED  BY <2>1, BytesAre
<1>3. PICK t \in Seq(Nat) : t = SubSeq(buf, p + 1, p + k)
  <2>1. p + 1 \in Nat \ {0} /\ p + k \in Nat /\ p + 1 <= p + k + 1 /\ p + k <= Len(buf)  BY <1>1
  <2>2. PICK t \in Seq(Nat) : IsPart(t, buf, p + 1, p + k)  BY <2>1, PartOf
  <2> QED  BY <2>2 DEF IsPart
<1>4. SubSeq(buf, p + 1, p + (k + 1)) = t \o <<d>>
  <2>1. PICK m, n \in Nat : m = p + 1 /\ n = p + k + 1 /\ n - 1 = p + k /\ p + (k + 1) = n  OBVIOUS
  <2>2. m \in 1 .. l /\ n \in m .. l  BY <1>1, <2>1
  <2>3. SubSeq(buf, m, n) = SubSeq(buf, m, n - 1) \o <<buf[n]>>  BY <1>1, <2>2, SubSeqRecursiveSecond
  <2> QED  BY <1>2, <1>3, <2>1, <2>3
<1>5. w \o t \in Seq(Nat)  BY ConcatProperties
<1>6. Append(w \o t, d) = (w \o t) \o <<d>>  BY <1>5, AppendIsConcat
<1>7. PICK one \in Seq(Nat) : one = <<d>>  BY OneElement
<1>8. (w \o t) \o one = w \o (t \o one)
  <2>1. Regroups(w, t, one)  BY Regrouped
  <2> QED  BY <2>1 DEF Regroups
<1> QED  BY <1>2, <1>3, <1>4, <1>6, <1>7, <1>8 DEF With, Grows

\* at c a label of n bytes begins, and behind k of its bytes the name is still read
Within(g, buf, p, f, w, c, n, k) ==
  g[c + k] = Reads(p + k, IF k = 0 THEN 0 ELSE n + 1 - k, f, With(buf, w, p, k))

\* a label of n bytes is at p
Begins(buf, p, n) == n = buf[p + 1] /\ n # 0 /\ n < Bad

LEMMA LabelTurn ==
  ASSUME NEW buf \in Seq(Nat), NEW g, NEW pos0 \in Nat, Run(g, buf, pos0),
         NEW p \in Nat, NEW f \in Nat, NEW w \in Seq(Nat), NEW c \in Nat, NEW n \in Nat, NEW j \in Nat,
         Begins(buf, p, n), j <= n,
         p + j < Len(buf), Len(w) + j < NameMax, c + j < LoopMax - 1, Within(g, buf, p, f, w, c, n, j)
  PROVE  Within(g, buf, p, f, w, c, n, j + 1)
<1>1. PICK o \in Nat, i \in Nat, s \in Nat : o = p + j /\ i = c + j /\ s = IF j = 0 THEN 0 ELSE n + 1 - j
  <2>1. n + 1 - j \in Nat /\ p + j \in Nat /\ c + j \in Nat  OBVIOUS
  <2> QED  BY <2>1
<1>2. o < Len(buf) /\ p + j <= Len(buf)
  <2>1. Len(buf) \in Nat  BY LenProperties
  <2> QED  BY <1>1, <2>1
<1>3. i \in 0 .. LoopMax - 1 /\ i # LoopMax - 1  BY <1>1, NamesAssumption
<1>4. With(buf, w, p, j) \in Seq(Nat) /\ Len(With(buf, w, p, j)) = Len(w) + j  BY <1>2, WithIs
<1>5. PICK v \in Seq(Nat) : v = With(buf, w, p, j)  BY <1>4
<1>6. Append(v, buf[o + 1]) = With(buf, w, p, j + 1)
  <2>1. Grows(buf, w, p, j)  BY WithMore
  <2> QED  BY <1>1, <1>5, <2>1 DEF Grows
<1>7. PICK b \in Nat : b = buf[o + 1]  BY <1>2, BytesAre
<1>8. g[i] = Reads(o, s, f, v)  BY <1>1, <1>5 DEF Within
<1>9. g[i + 1] = GetByte(buf, g[i])  BY <1>3, TurnOn
<1>10. Turn(buf, o, b, Len(v), s, f, v, GetByte(buf, g[i]))  BY <1>2, <1>7, <1>8, TurnGives
<1>11. Len(v) < NameMax /\ Len(v) \in Nat  BY <1>4, <1>5, LenProperties
<1>12. GetByte(buf, g[i]) = Reads(o + 1, n - j, f, Append(v, b))
  <2>1. CASE j = 0
    <3>1. s = 0 /\ b = n /\ n - j = n /\ n # 0 /\ n < Bad  BY <1>1, <1>7, <2>1 DEF Begins
    <3>2. PICK y \in Nat, d \in Nat : y = Ptr /\ d = Bad /\ d <= y  BY PointersAre
    <3>3. n < d  BY <3>1, <3>2
    <3>4. n < y  BY <3>2, <3>3
    <3> QED  BY <1>10, <1>11, <3>1, <3>2, <3>4 DEF Turn
  <2>2. CASE j # 0
    <3>1. s # 0 /\ s - 1 = n - j  BY <1>1, <2>2
    <3> QED  BY <1>10, <1>11, <3>1 DEF Turn
  <2> QED  BY <2>1, <2>2
<1>13. c + (j + 1) = i + 1 /\ p + (j + 1) = o + 1 /\ j + 1 # 0 /\ n + 1 - (j + 1) = n - j  BY <1>1
<1>14. g[c + (j + 1)] = Reads(p + (j + 1), n - j, f, With(buf, w, p, j + 1))  BY <1>6, <1>7, <1>9, <1>12, <1>13
<1> QED  BY <1>13, <1>14 DEF Within

\* The bytes of a label are read one after the other.
LEMMA LabelGoesOn ==
  ASSUME NEW buf \in Seq(Nat), NEW g, NEW pos0 \in Nat, Run(g, buf, pos0),
         NEW p \in Nat, NEW f \in Nat, NEW w \in Seq(Nat), NEW c \in Nat, NEW n \in Nat, NEW k \in Nat,
         Begins(buf, p, n), k <= n + 1, p <= Len(buf), g[c] = Reads(p, 0, f, w),
         p + k <= Len(buf), Len(w) + k <= NameMax, c + k <= LoopMax - 1
  PROVE  Within(g, buf, p, f, w, c, n, k)
<1> DEFINE T == {i \in 0 .. k : Within(g, buf, p, f, w, c, n, i)}
<1>1. 0 \in T
  <2>1. p + 0 = p /\ c + 0 = c  OBVIOUS
  <2>2. With(buf, w, p, 0) = w
    <3>1. p + 0 <= Len(buf)  BY <2>1
    <3> QED  BY <3>1, WithIs
  <2> QED  BY <2>1, <2>2 DEF Within
<1>2. ASSUME NEW i \in 1 .. k, i - 1 \in T PROVE i \in T
  <2>1. PICK j \in Nat : j = i - 1 /\ j + 1 = i /\ j < k  OBVIOUS
  <2>2. Within(g, buf, p, f, w, c, n, j)  BY <1>2, <2>1
  <2> HIDE DEF T
  <2>3. j <= n  BY <2>1
  <2>4. p + j < Len(buf)
    <3>1. Len(buf) \in Nat  BY LenProperties
    <3> QED  BY <2>1, <3>1
  <2>5. Len(w) + j < NameMax
    <3>1. Len(w) \in Nat  BY LenProperties
    <3> QED  BY <2>1, <3>1, NamesAssumption
  <2>6. c + j < LoopMax - 1  BY <2>1, NamesAssumption
  <2>7. Within(g, buf, p, f, w, c, n, j + 1)  BY <2>2, <2>3, <2>4, <2>5, <2>6, LabelTurn
  <2> QED  BY <2>1, <2>7 DEF T
<1>3. k \in T
  <2> HIDE DEF T
  <2>1. \A i \in 0 .. k : i \in T  BY <1>1, <1>2, Induct
  <2> QED  BY <2>1
<1> QED  BY <1>3

LEMMA BehindTheEnd ==
  ASSUME NEW buf \in Seq(Nat), NEW p \in Nat, p >= Len(buf), NEW s, NEW f, NEW w, NEW r, r = Reads(p, s, f, w)
  PROVE  GetByte(buf, r) = Proto
<1>1. r.going = TRUE /\ r.pos = p  BY DEF Reads
<1> QED  BY <1>1 DEF GetByte

IsLeast(k, a, b, d) == k <= a /\ k <= b /\ k <= d /\ (k = a \/ k = b \/ k = d)

LEMMA LeastOfThree ==
  ASSUME NEW a \in Nat, NEW b \in Nat, NEW d \in Nat
  PROVE  \E k \in Nat : IsLeast(k, a, b, d)
<1>1. CASE a <= b /\ a <= d  BY <1>1 DEF IsLeast
<1>2. CASE b <= a /\ b <= d  BY <1>2 DEF IsLeast
<1>3. CASE d <= a /\ d <= b  BY <1>3 DEF IsLeast
<1> QED  BY <1>1, <1>2, <1>3

\* the bytes of a label of n bytes can be read
Fits(buf, p, w, c, n) == p + (n + 1) <= Len(buf) /\ Len(w) + (n + 1) <= NameMax /\ c + (n + 1) <= LoopMax - 1

\* A label that the packet, the name or the loop has no room for fails.
LEMMA LabelFails ==
  ASSUME NEW buf \in Seq(Nat), NEW g, NEW pos0 \in Nat, Run(g, buf, pos0),
         NEW p \in Nat, NEW f \in Nat, NEW w \in Seq(Nat), NEW c \in Nat, NEW n \in Nat,
         Begins(buf, p, n), g[c] = Reads(p, 0, f, w),
         p < Len(buf), Len(w) <= NameMax, c <= LoopMax - 1, ~Fits(buf, p, w, c, n)
  PROVE  Fails(g)
<1>1. PICK l \in Nat, m \in Nat, x \in Nat, y \in Nat : l = Len(buf) /\ m = Len(w) /\ x = NameMax /\ y = LoopMax - 1
  <2>1. Len(buf) \in Nat /\ Len(w) \in Nat  BY LenProperties
  <2>2. NameMax \in Nat /\ LoopMax - 1 \in Nat  BY NamesAssumption
  <2> QED  BY <2>1, <2>2
<1>2. p < l /\ m <= x /\ c <= y /\ (p + (n + 1) > l \/ m + (n + 1) > x \/ c + (n + 1) > y)  BY <1>1 DEF Fits
\* as many bytes as can be read
<1>3. PICK k \in Nat : /\ k <= n + 1 /\ p + k <= l /\ m + k <= x /\ c + k <= y
                       /\ p + k = l \/ m + k = x \/ c + k = y
  <2>1. PICK a \in Nat, b \in Nat, d \in Nat : p + a = l /\ m + b = x /\ c + d = y
    <3>1. l - p \in Nat /\ x - m \in Nat /\ y - c \in Nat  BY <1>2
    <3>2. p + (l - p) = l /\ m + (x - m) = x /\ c + (y - c) = y  OBVIOUS
    <3> QED  BY <3>1, <3>2
  <2>2. PICK k \in Nat : k <= a /\ k <= b /\ k <= d /\ (k = a \/ k = b \/ k = d)
    <3>1. PICK k \in Nat : IsLeast(k, a, b, d)  BY LeastOfThree
    <3> QED  BY <3>1 DEF IsLeast
  <2>3. a < n + 1 \/ b < n + 1 \/ d < n + 1  BY <1>2, <2>1
  <2>4. k <= n + 1  BY <2>2, <2>3
  <2>5. p + k <= p + a /\ m + k <= m + b /\ c + k <= c + d  BY <2>2
  <2>6. p + k = p + a \/ m + k = m + b \/ c + k = c + d  BY <2>2
  <2> QED  BY <2>1, <2>4, <2>5, <2>6
<1>4. Within(g, buf, p, f, w, c, n, k)
  <2>1. p <= Len(buf) /\ p + k <= Len(buf) /\ Len(w) + k <= NameMax /\ c + k <= LoopMax - 1  BY <1>1, <1>2, <1>3
  <2> QED  BY <1>3, <2>1, LabelGoesOn
<1>5. PICK o \in Nat, i \in Nat : o = p + k /\ i = c + k  OBVIOUS
<1>6. PICK s \in Nat : s = (IF k = 0 THEN 0 ELSE n + 1 - k) /\ (s = 0 => k = 0 \/ k = n + 1)
  <2>1. n + 1 - k \in Nat /\ (n + 1 - k = 0 => k = n + 1)  BY <1>3
  <2> QED  BY <2>1
<1>7. PICK v \in Seq(Nat) : v = With(buf, w, p, k) /\ Len(v) = m + k
  <2>1. p + k <= Len(buf)  BY <1>1, <1>3
  <2>2. With(buf, w, p, k) \in Seq(Nat) /\ Len(With(buf, w, p, k)) = Len(w) + k  BY <2>1, WithIs
  <2> QED  BY <1>1, <2>2
<1>8. g[i] = Reads(o, s, f, v)  BY <1>4, <1>5, <1>6, <1>7 DEF Within
<1>9. g[i].going  BY <1>8 DEF Reads
<1>10. i \in 0 .. LoopMax - 1  BY <1>1, <1>3, <1>5
<1>11. CASE c + k = y  BY <1>1, <1>5, <1>9, <1>11 DEF Fails
<1>12. CASE p + k = l
  <2>1. o >= Len(buf)  BY <1>1, <1>5, <1>12
  <2>2. GetByte(buf, g[i]) = Proto  BY <1>8, <2>1, BehindTheEnd
  <2> QED  BY <1>9, <1>10, <2>2, StopsHere
<1>13. CASE m + k = x /\ p + k < l /\ c + k < y
  <2>1. k # n + 1  BY <1>2, <1>13
  <2>2. o < Len(buf)  BY <1>1, <1>5, <1>13
  <2>3. PICK b \in Nat : b = buf[o + 1]  BY <2>2, BytesAre
  <2>4. Turn(buf, o, b, Len(v), s, f, v, GetByte(buf, g[i]))  BY <1>8, <2>2, <2>3, TurnGives
  <2>5. Len(v) >= NameMax  BY <1>1, <1>7, <1>13, NamesAssumption
  <2>6. GetByte(buf, g[i]) = Proto
    <3>1. CASE s # 0  BY <2>4, <2>5, <3>1 DEF Turn
    <3>2. CASE s = 0
      <4>1. k = 0  BY <1>6, <2>1, <3>2
      <4>2. o = p  BY <1>5, <4>1
      <4>3. b < Bad  BY <2>3, <4>2 DEF Begins
      <4> QED  BY <2>4, <2>5, <3>2, <4>3 DEF Turn
    <3> QED  BY <3>1, <3>2
  <2> QED  BY <1>9, <1>10, <2>6, StopsHere
<1> QED  BY <1>3, <1>11, <1>12, <1>13

-----------------------------------------------------------------------------
\* labels with their lengths
Written(labels) == FlattenSeq([l \in DOMAIN labels |-> <<Len(labels[l])>> \o labels[l]])

LEMMA WrittenIs ==
  ASSUME NEW labels \in Seq(Seq(Nat))
  PROVE  Written(labels) \in Seq(Nat) /\ Wire(labels) = Written(labels) \o <<0>>
<1>1. PICK n \in Nat : n = Len(labels) /\ DOMAIN labels = 1 .. n  BY LenProperties
<1>2. \A l \in 1 .. n : <<Len(labels[l])>> \o labels[l] \in Seq(Nat)
  <2> SUFFICES ASSUME NEW l \in 1 .. n PROVE <<Len(labels[l])>> \o labels[l] \in Seq(Nat)  OBVIOUS
  <2>1. PICK t \in Seq(Nat), m \in Nat : t = labels[l] /\ m = Len(t)  BY <1>1, ElementOfSeq, LenProperties
  <2>2. <<m>> \o t \in Seq(Nat)  BY InFront
  <2> QED  BY <2>1, <2>2
<1>3. PICK parts \in [1 .. n -> Seq(Nat)] : parts = [l \in DOMAIN labels |-> <<Len(labels[l])>> \o labels[l]]
  BY <1>1, <1>2
<1>4. parts \in Seq(Seq(Nat))  BY MadeSeq
<1> QED  BY <1>3, <1>4, FlattenIsSeq DEF Written, Wire

LEMMA WrittenMore ==
  ASSUME NEW labels \in Seq(Seq(Nat)), NEW label \in Seq(Nat)
  PROVE  Written(Append(labels, label)) = Written(labels) \o (<<Len(label)>> \o label)
<1>1. PICK n \in Nat : n = Len(labels) /\ DOMAIN labels = 1 .. n  BY LenProperties
<1> DEFINE part(t) == <<Len(t)>> \o t
<1>2. \A t \in Seq(Nat) : part(t) \in Seq(Nat)
  <2> SUFFICES ASSUME NEW t \in Seq(Nat) PROVE part(t) \in Seq(Nat)  OBVIOUS
  <2>1. PICK m \in Nat : m = Len(t)  BY LenProperties
  <2>2. <<m>> \o t \in Seq(Nat)  BY InFront
  <2> QED  BY <2>1, <2>2
<1> HIDE DEF part
<1>3. \A l \in 1 .. n : labels[l] \in Seq(Nat)  BY <1>1, ElementOfSeq
<1>4. PICK parts \in [1 .. n -> Seq(Nat)] : parts = [l \in 1 .. n |-> part(labels[l])]  BY <1>2, <1>3
<1>5. parts \in Seq(Seq(Nat)) /\ Len(parts) = n  BY MadeSeq
<1>6. PICK more \in Seq(Seq(Nat)) : IsAppend(more, labels, n, label)  BY <1>1, Appended
<1>7. PICK last \in Seq(Nat) : last = part(label)  BY <1>2
<1>8. PICK all \in Seq(Seq(Nat)) : IsAppend(all, parts, n, last)  BY <1>5, Appended
<1>9. all = [l \in DOMAIN more |-> part(more[l])]
  <2>1. DOMAIN more = 1 .. n + 1 /\ DOMAIN all = 1 .. n + 1  BY <1>6, <1>8 DEF IsAppend
  <2>2. ASSUME NEW l \in 1 .. n + 1 PROVE all[l] = part(more[l])
    <3>1. CASE l = n + 1  BY <1>6, <1>7, <1>8, <3>1 DEF IsAppend
    <3>2. CASE l \in 1 .. n  BY <1>4, <1>6, <1>8, <3>2 DEF IsAppend
    <3> QED  BY <3>1, <3>2
  <2>3. all = [l \in 1 .. n + 1 |-> all[l]]
    <3>1. Len(all) = n + 1  BY <1>8 DEF IsAppend
    <3> QED  BY <3>1, LenProperties
  <2> QED  BY <2>1, <2>2, <2>3
<1>10. FlattenSeq(all) = FlattenSeq(parts) \o last
  <2>1. all = Append(parts, last)  BY <1>8 DEF IsAppend
  <2> QED  BY <1>5, <2>1, FlattenAppend
<1>11. Written(Append(labels, label)) = FlattenSeq(all)  BY <1>6, <1>9 DEF Written, part, IsAppend
<1>12. Written(labels) = FlattenSeq(parts)  BY <1>1, <1>4 DEF Written, part
<1> QED  BY <1>7, <1>10, <1>11, <1>12 DEF part

StandsAs(buf, w, p, n, label) == Len(label) = n /\ w \o (<<Len(label)>> \o label) = With(buf, w, p, n + 1)

\* A label in a packet is written as it stands there.
LEMMA LabelAsIs ==
  ASSUME NEW buf \in Seq(Nat), NEW w \in Seq(Nat), NEW p \in Nat, NEW n \in Nat, Begins(buf, p, n), p + n < Len(buf),
         NEW label, label = SubSeq(buf, p + 2, p + n + 1)
  PROVE  StandsAs(buf, w, p, n, label)
<1>1. PICK l \in Nat, i \in Nat \ {0}, j \in Nat : l = Len(buf) /\ i = p + 1 /\ j = p + n + 1 /\ j <= l /\ i <= j
  <2>1. Len(buf) \in Nat  BY LenProperties
  <2> QED  BY <2>1
<1>2. i + 1 \in Nat \ {0} /\ i + 1 <= j + 1 /\ j - (i + 1) + 1 = n /\ i + 1 = p + 2  BY <1>1
<1>3. PICK t \in Seq(Nat) : IsPart(t, buf, i + 1, j)  BY <1>1, <1>2, PartOf
<1>4. t = label /\ Len(t) = n  BY <1>1, <1>2, <1>3 DEF IsPart
<1>5. i \in 1 .. l /\ j \in i .. l  BY <1>1
<1>6. SubSeq(buf, i, j) = <<buf[i]>> \o SubSeq(buf, i + 1, j)  BY <1>1, <1>5, SubSeqRecursiveFirst
<1>7. buf[i] = n  BY <1>1 DEF Begins
<1>8. SubSeq(buf, i, j) = <<n>> \o label  BY <1>1, <1>2, <1>4, <1>6, <1>7
<1>9. p + (n + 1) = j  BY <1>1
<1> QED  BY <1>1, <1>4, <1>8, <1>9 DEF With, StandsAs

-----------------------------------------------------------------------------
\* what is known of the place behind the name, while the place p is looked at
Behind(buf, pos0, f, p) ==
  IF f = 0 THEN SkipName(buf, pos0) = SkipName(buf, p) /\ pos0 <= p
  ELSE f = SkipName(buf, pos0) /\ f \in pos0 + 1 .. Len(buf)

Found(g, buf, pos0, w) ==
  /\ ~g[LoopMax - 1].going /\ g[LoopMax - 1].name = Append(w, 0)
  /\ g[LoopMax - 1].pos = SkipName(buf, pos0) /\ SkipName(buf, pos0) \in pos0 + 1 .. Len(buf)

\* c turns have read w, and the next label is at p
OnWith(g, buf, pos0, p, w, c) ==
  \/ /\ c <= LoopMax - 1 /\ Len(w) <= NameMax
     /\ \E f \in Nat : g[c] = Reads(p, 0, f, w) /\ Behind(buf, pos0, f, p)
  \/ Fails(g) /\ (c > LoopMax - 1 \/ Len(w) > NameMax)

EndsWith(g, buf, pos0, w, c) ==
  IF Len(w) + 1 <= NameMax /\ c + 1 <= LoopMax - 1 THEN Found(g, buf, pos0, w) ELSE Fails(g)

LEMMA LabelStep ==
  ASSUME NEW buf \in Seq(Nat), NEW pos0 \in Nat, NEW g, Run(g, buf, pos0),
         NEW p \in Nat, NEW w \in Seq(Nat), NEW c \in Nat, OnWith(g, buf, pos0, p, w, c),
         NEW n \in Nat, Begins(buf, p, n), p + n < Len(buf)
  PROVE  OnWith(g, buf, pos0, p + (n + 1), With(buf, w, p, n + 1), c + (n + 1))
<1>1. PICK l \in Nat, m \in Nat, x \in Nat, y \in Nat : l = Len(buf) /\ m = Len(w) /\ x = NameMax /\ y = LoopMax - 1
  <2>1. Len(buf) \in Nat /\ Len(w) \in Nat  BY LenProperties
  <2>2. NameMax \in Nat /\ LoopMax - 1 \in Nat  BY NamesAssumption
  <2> QED  BY <2>1, <2>2
<1>2. p < l /\ p + (n + 1) <= l  BY <1>1
<1>3. Len(With(buf, w, p, n + 1)) = m + (n + 1)
  <2>1. PICK k \in Nat : k = n + 1  OBVIOUS
  <2>2. p + k <= Len(buf)  BY <1>1, <1>2, <2>1
  <2> QED  BY <1>1, <2>1, <2>2, WithIs
<1>4. CASE Fails(g) /\ (c > y \/ m > x)
  <2>1. c + (n + 1) > y \/ m + (n + 1) > x  BY <1>4
  <2> QED  BY <1>1, <1>3, <1>4, <2>1 DEF OnWith
<1>5. ASSUME c <= y, m <= x, NEW f \in Nat, g[c] = Reads(p, 0, f, w), Behind(buf, pos0, f, p)
      PROVE  OnWith(g, buf, pos0, p + (n + 1), With(buf, w, p, n + 1), c + (n + 1))
  <2>1. CASE Fits(buf, p, w, c, n)
    <3>1. p <= Len(buf) /\ p + (n + 1) <= Len(buf) /\ Len(w) + (n + 1) <= NameMax /\ c + (n + 1) <= LoopMax - 1
      BY <1>1, <1>2, <2>1 DEF Fits
    <3>2. Within(g, buf, p, f, w, c, n, n + 1)
      <4>1. PICK k \in Nat : k = n + 1 /\ k <= n + 1  OBVIOUS
      <4> QED  BY <1>5, <3>1, <4>1, LabelGoesOn
    <3>3. n + 1 # 0 /\ n + 1 - (n + 1) = 0  OBVIOUS
    <3>4. g[c + (n + 1)] = Reads(p + (n + 1), 0, f, With(buf, w, p, n + 1))  BY <3>2, <3>3 DEF Within
    <3>5. Behind(buf, pos0, f, p + (n + 1))
      <4>1. SkipName(buf, p) = SkipName(buf, p + (n + 1))
        <5>1. SkipName(buf, p) = SkipFrom(buf, p)  BY SkipNameIs
        <5>2. PICK k \in Nat, d \in Nat : k = Ptr /\ d = Bad /\ d <= k  BY PointersAre
        <5>3. n < d /\ n # 0 /\ buf[p + 1] = n  BY <5>2 DEF Begins
        <5>4. p + 1 + n = p + (n + 1)  OBVIOUS
        <5> QED  BY <1>1, <1>2, <5>1, <5>2, <5>3, <5>4 DEF SkipFrom
      <4>2. pos0 <= p => pos0 <= p + (n + 1)  OBVIOUS
      <4> QED  BY <1>5, <4>1, <4>2 DEF Behind
    <3>6. Len(With(buf, w, p, n + 1)) <= NameMax  BY <1>1, <1>3, <3>1
    <3> QED  BY <3>1, <3>4, <3>5, <3>6 DEF OnWith
  <2>2. CASE ~Fits(buf, p, w, c, n)
    <3>1. p < Len(buf) /\ Len(w) <= NameMax /\ c <= LoopMax - 1  BY <1>1, <1>2, <1>5
    <3>2. Fails(g)  BY <1>5, <2>2, <3>1, LabelFails
    <3>3. c + (n + 1) > LoopMax - 1 \/ Len(With(buf, w, p, n + 1)) > NameMax
      BY <1>1, <1>2, <1>3, <2>2 DEF Fits
    <3> QED  BY <3>2, <3>3 DEF OnWith
  <2> QED  BY <2>1, <2>2
<1> QED  BY <1>1, <1>4, <1>5 DEF OnWith

LEMMA PointerStep ==
  ASSUME NEW buf \in Seq(Nat), NEW pos0 \in Nat, NEW g, Run(g, buf, pos0),
         NEW p \in Nat, NEW w \in Seq(Nat), NEW c \in Nat, OnWith(g, buf, pos0, p, w, c),
         p + 1 < Len(buf), buf[p + 1] >= Ptr
  PROVE  OnWith(g, buf, pos0, Where(buf, p), w, c + 1)
<1>1. PICK l \in Nat, m \in Nat, x \in Nat, y \in Nat : l = Len(buf) /\ m = Len(w) /\ x = NameMax /\ y = LoopMax - 1
  <2>1. Len(buf) \in Nat /\ Len(w) \in Nat  BY LenProperties
  <2>2. NameMax \in Nat /\ LoopMax - 1 \in Nat  BY NamesAssumption
  <2> QED  BY <2>1, <2>2
<1>2. PICK b \in Nat : b = buf[p + 1] /\ b >= Ptr  BY <1>1, BytesAre
<1>3. p < l /\ p < Len(buf) /\ p + 2 <= l  BY <1>1
<1>4. CASE Fails(g) /\ (c > y \/ m > x)
  <2>1. c + 1 > y \/ m > x  BY <1>4
  <2> QED  BY <1>1, <1>4, <2>1 DEF OnWith
<1>5. ASSUME c <= y, m <= x, NEW f \in Nat, g[c] = Reads(p, 0, f, w), Behind(buf, pos0, f, p)
      PROVE  OnWith(g, buf, pos0, Where(buf, p), w, c + 1)
  <2>1. c \in 0 .. LoopMax - 1  BY <1>1, <1>5
  <2>2. CASE c = y
    <3>1. g[LoopMax - 1].going  BY <1>1, <1>5, <2>2 DEF Reads
    <3>2. c + 1 > LoopMax - 1  BY <1>1, <2>2
    <3> QED  BY <3>1, <3>2 DEF Fails, OnWith
  <2>3. CASE c # y
    <3>1. g[c + 1] = GetByte(buf, g[c]) /\ c + 1 <= LoopMax - 1
      <4>1. c # LoopMax - 1  BY <1>1, <2>3
      <4>2. c + 1 \in 1 .. LoopMax - 1 /\ g[c + 1] = GetByte(buf, g[c])  BY <2>1, <4>1, TurnOn
      <4> QED  BY <4>2
    <3>2. Turn(buf, p, b, Len(w), 0, f, w, GetByte(buf, g[c]))  BY <1>2, <1>3, <1>5, TurnGives
    <3> DEFINE h == IF f = 0 THEN p + 2 ELSE f
    <3>3. g[c + 1] = Reads(Where(buf, p), 0, h, w)  BY <1>2, <3>1, <3>2 DEF Turn
    <3>4. h \in Nat /\ h # 0  OBVIOUS
    <3>5. h = SkipName(buf, pos0) /\ h \in pos0 + 1 .. Len(buf)
      <4>1. CASE f = 0
        <5>1. SkipName(buf, p) = SkipFrom(buf, p)  BY SkipNameIs
        <5>2. SkipFrom(buf, p) = p + 2  BY <1>1, <1>2, <1>3 DEF SkipFrom
        <5>3. SkipName(buf, pos0) = SkipName(buf, p) /\ pos0 <= p  BY <1>5, <4>1 DEF Behind
        <5>4. p + 2 \in pos0 + 1 .. l  BY <1>3, <5>3
        <5> QED  BY <1>1, <4>1, <5>1, <5>2, <5>3, <5>4
      <4>2. CASE f # 0  BY <1>5, <4>2 DEF Behind
      <4> QED  BY <4>1, <4>2
    <3> HIDE DEF h
    <3>6. Behind(buf, pos0, h, Where(buf, p))  BY <3>4, <3>5 DEF Behind
    <3> QED  BY <1>1, <1>5, <3>1, <3>3, <3>4, <3>6 DEF OnWith
  <2> QED  BY <2>2, <2>3
<1> QED  BY <1>1, <1>4, <1>5 DEF OnWith

LEMMA EndStep ==
  ASSUME NEW buf \in Seq(Nat), NEW pos0 \in Nat, NEW g, Run(g, buf, pos0),
         NEW p \in Nat, NEW w \in Seq(Nat), NEW c \in Nat, OnWith(g, buf, pos0, p, w, c),
         p < Len(buf), buf[p + 1] = 0, 0 < Bad
  PROVE  EndsWith(g, buf, pos0, w, c)
<1>1. PICK l \in Nat, m \in Nat, x \in Nat, y \in Nat : l = Len(buf) /\ m = Len(w) /\ x = NameMax /\ y = LoopMax - 1
  <2>1. Len(buf) \in Nat /\ Len(w) \in Nat  BY LenProperties
  <2>2. NameMax \in Nat /\ LoopMax - 1 \in Nat  BY NamesAssumption
  <2> QED  BY <2>1, <2>2
<1>2. PICK k \in Nat, d \in Nat : k = Ptr /\ d = Bad /\ d <= k /\ 0 < d /\ ~(0 >= k) /\ ~(0 >= d)
  <2>1. PICK k \in Nat, d \in Nat : k = Ptr /\ d = Bad /\ d <= k  BY PointersAre
  <2>2. 0 < d  BY <2>1
  <2>3. ~(0 >= k) /\ ~(0 >= d)  BY <2>1, <2>2
  <2> QED  BY <2>1, <2>2, <2>3
<1>3. CASE Fails(g) /\ (c > y \/ m > x)
  <2>1. ~(m + 1 <= x /\ c + 1 <= y)  BY <1>3
  <2> QED  BY <1>1, <1>3, <2>1 DEF EndsWith
<1>4. ASSUME c <= y, m <= x, NEW f \in Nat, g[c] = Reads(p, 0, f, w), Behind(buf, pos0, f, p)
      PROVE  EndsWith(g, buf, pos0, w, c)
  <2>1. c \in 0 .. LoopMax - 1 /\ g[c].going  BY <1>1, <1>4 DEF Reads
  <2>2. Turn(buf, p, 0, Len(w), 0, f, w, GetByte(buf, g[c]))  BY <1>4, TurnGives
  <2>3. CASE c = y
    <3>1. Fails(g)  BY <1>1, <2>1, <2>3 DEF Fails
    <3>2. ~(c + 1 <= LoopMax - 1)  BY <1>1, <2>3
    <3> QED  BY <3>1, <3>2 DEF EndsWith
  <2>4. CASE m = x
    <3>1. Len(w) >= NameMax /\ ~(Len(w) + 1 <= NameMax)  BY <1>1, <2>4
    <3>2. GetByte(buf, g[c]) = Proto  BY <1>2, <2>2, <3>1 DEF Turn
    <3>3. Fails(g)  BY <2>1, <3>2, StopsHere
    <3> QED  BY <3>1, <3>3 DEF EndsWith
  <2>5. CASE c # y /\ m # x
    <3>1. c + 1 \in 0 .. LoopMax - 1 /\ g[c + 1] = GetByte(buf, g[c])
      <4>1. c # LoopMax - 1  BY <1>1, <2>5
      <4>2. c + 1 \in 1 .. LoopMax - 1 /\ g[c + 1] = GetByte(buf, g[c])  BY <2>1, <4>1, TurnOn
      <4> QED  BY <4>2
    <3>2. Len(w) < NameMax  BY <1>1, <1>4, <2>5
    <3> DEFINE h == IF f # 0 THEN f ELSE p + 1
    <3>3. g[c + 1] = [going |-> FALSE, pos |-> h, state |-> 0, first |-> f, name |-> Append(w, 0)]
      BY <1>2, <2>2, <3>1, <3>2 DEF Turn
    <3>4. h = SkipName(buf, pos0) /\ h \in pos0 + 1 .. Len(buf)
      <4>1. CASE f = 0
        <5>1. SkipName(buf, p) = SkipFrom(buf, p)  BY SkipNameIs
        <5>2. SkipFrom(buf, p) = p + 1
          <6>1. ~(p >= Len(buf))  BY <1>1
          <6> QED  BY <1>2, <6>1 DEF SkipFrom
        <5>3. SkipName(buf, pos0) = SkipName(buf, p) /\ pos0 <= p  BY <1>4, <4>1 DEF Behind
        <5>4. p + 1 \in pos0 + 1 .. l  BY <1>1, <5>3
        <5> QED  BY <1>1, <4>1, <5>1, <5>2, <5>3, <5>4
      <4>2. CASE f # 0  BY <1>4, <4>2 DEF Behind
      <4> QED  BY <4>1, <4>2
    <3> HIDE DEF h
    <3>5. ~g[c + 1].going /\ g[c + 1].pos = h /\ g[c + 1].name = Append(w, 0)  BY <3>3
    <3>6. g[LoopMax - 1] = g[c + 1]
      <4>1. PICK i \in 0 .. LoopMax - 1 : i = c + 1  BY <3>1
      <4>2. g[LoopMax - 1] = g[i]  BY <3>5, <4>1, StaysRead
      <4> QED  BY <4>1, <4>2
    <3>7. Found(g, buf, pos0, w)  BY <3>4, <3>5, <3>6 DEF Found
    <3>8. Len(w) + 1 <= NameMax /\ c + 1 <= LoopMax - 1  BY <1>1, <1>4, <2>5
    <3> QED  BY <3>7, <3>8 DEF EndsWith
  <2> QED  BY <2>3, <2>4, <2>5
<1> QED  BY <1>1, <1>3, <1>4 DEF OnWith

LEMMA NoStep ==
  ASSUME NEW buf \in Seq(Nat), NEW pos0 \in Nat, NEW g, Run(g, buf, pos0),
         NEW p \in Nat, NEW w \in Seq(Nat), NEW c \in Nat, OnWith(g, buf, pos0, p, w, c),
         \/ p >= Len(buf)
         \/ p + 1 = Len(buf) /\ buf[p + 1] >= Ptr
         \/ p < Len(buf) /\ buf[p + 1] < Ptr /\ buf[p + 1] >= Bad
         \/ p < Len(buf) /\ (\E n \in Nat : Begins(buf, p, n) /\ p + n >= Len(buf))
  PROVE  Fails(g)
<1>1. PICK l \in Nat, m \in Nat, x \in Nat, y \in Nat : l = Len(buf) /\ m = Len(w) /\ x = NameMax /\ y = LoopMax - 1
  <2>1. Len(buf) \in Nat /\ Len(w) \in Nat  BY LenProperties
  <2>2. NameMax \in Nat /\ LoopMax - 1 \in Nat  BY NamesAssumption
  <2> QED  BY <2>1, <2>2
<1>2. ASSUME c <= LoopMax - 1, Len(w) <= NameMax, NEW f \in Nat, g[c] = Reads(p, 0, f, w)
      PROVE  Fails(g)
  <2>1. c \in 0 .. LoopMax - 1 /\ g[c].going  BY <1>1, <1>2 DEF Reads
  <2>2. CASE p >= Len(buf)
    <3>1. GetByte(buf, g[c]) = Proto  BY <1>2, <2>2, BehindTheEnd
    <3> QED  BY <2>1, <3>1, StopsHere
  <2>3. CASE p < Len(buf) /\ \E n \in Nat : Begins(buf, p, n) /\ p + n >= Len(buf)
    <3>1. PICK n \in Nat : Begins(buf, p, n) /\ p + n >= l  BY <1>1, <2>3
    <3>2. ~(p + (n + 1) <= l)  BY <3>1
    <3>3. ~Fits(buf, p, w, c, n)  BY <1>1, <3>2 DEF Fits
    <3> QED  BY <1>2, <2>3, <3>1, <3>3, LabelFails
  <2>4. CASE \/ p + 1 = Len(buf) /\ buf[p + 1] >= Ptr
             \/ p < Len(buf) /\ buf[p + 1] < Ptr /\ buf[p + 1] >= Bad
    <3>1. p < Len(buf) /\ (p + 1 = Len(buf) => p + 1 >= Len(buf))  BY <1>1, <2>4
    <3>2. PICK b \in Nat : b = buf[p + 1]  BY <3>1, BytesAre
    <3>3. Turn(buf, p, b, Len(w), 0, f, w, GetByte(buf, g[c]))  BY <1>2, <3>1, <3>2, TurnGives
    <3>4. GetByte(buf, g[c]) = Proto  BY <2>4, <3>1, <3>2, <3>3 DEF Turn
    <3> QED  BY <2>1, <3>4, StopsHere
  <2> QED  BY <2>2, <2>3, <2>4
<1> QED  BY <1>2 DEF OnWith

Begun(e, pos0) == e = [at |-> "on", pos |-> pos0, labels |-> <<>>, hops |-> 0]

\* turns taken for the labels and pointers of e
Cost(e) == Len(Written(e.labels)) + e.hops

\* what k labels and pointers are for dns_packet_getname
Reached(g, buf, pos0, e, k) ==
  /\ e \in ExStates
  /\ e.at = "on" => OnWith(g, buf, pos0, e.pos, Written(e.labels), Cost(e)) /\ Cost(e) >= k
  /\ e.at = "none" => Fails(g)
  /\ e.at = "name" => EndsWith(g, buf, pos0, Written(e.labels), Cost(e))

LEMMA ReachedAtFirst ==
  ASSUME NEW buf \in Seq(Nat), NEW pos0 \in Nat, NEW g, Run(g, buf, pos0), NEW e, Begun(e, pos0)
  PROVE  Reached(g, buf, pos0, e, 0)
<1>1. PICK none \in Seq(Seq(Nat)) : none = <<>> /\ Len(none) = 0 /\ DOMAIN none = 1 .. 0
  <2>0. <<>> \in Seq(Seq(Nat))  OBVIOUS
  <2>1. PICK none \in Seq(Seq(Nat)) : none = <<>>  BY <2>0, Zenon
  <2>2. Len(none) = 0  BY <2>1, EmptySeq
  <2>3. DOMAIN none = 1 .. 0  BY <2>2, LenProperties
  <2> QED  BY <2>1, <2>2, <2>3
<1>2. e \in ExStates /\ e.at = "on" /\ e.pos = pos0 /\ e.labels = none /\ e.hops = 0  BY <1>1 DEF ExStates, Begun
<1>3. PICK w \in Seq(Nat) : w = Written(none)  BY WrittenIs
<1>4. w = <<>> /\ Len(w) = 0
  <2>1. [l \in DOMAIN none |-> <<Len(none[l])>> \o none[l]] = <<>>  BY <1>1
  <2>2. FlattenSeq(<<>>) = <<>>
    <3>1. PICK h : Joined(h, none, Nat) /\ FlattenSeq(none) = h[0]  BY <1>1, FlattenIs
    <3> QED  BY <1>1, <3>1 DEF Joined
  <2> QED  BY <1>3, <2>1, <2>2 DEF Written
<1>5. Cost(e) = 0
  <2>1. Cost(e) = Len(w) + e.hops  BY <1>2, <1>3 DEF Cost
  <2>2. Len(w) = 0 /\ e.hops = 0  BY <1>2, <1>4
  <2> QED  BY <2>1, <2>2
<1>6. g[0] = Reads(pos0, 0, 0, w)  BY <1>4 DEF Run, Start, Reads
<1>7. Behind(buf, pos0, 0, pos0)  BY DEF Behind
<1>8. 0 <= LoopMax - 1 /\ Len(w) <= NameMax  BY <1>4, NamesAssumption
<1>9. OnWith(g, buf, pos0, pos0, w, 0)  BY <1>6, <1>7, <1>8 DEF OnWith
<1> QED  BY <1>2, <1>3, <1>5, <1>9 DEF Reached

LEMMA ReachedMore ==
  ASSUME NEW buf \in Seq(Nat), NEW pos0 \in Nat, NEW g, Run(g, buf, pos0),
         NEW e, NEW k \in Nat, Reached(g, buf, pos0, e, k)
  PROVE  Reached(g, buf, pos0, Follow(buf, e), k + 1)
<1>1. e \in ExStates  BY DEF Reached
<1>2. PICK p \in Nat, labels \in Seq(Seq(Nat)), hops \in Nat : p = e.pos /\ labels = e.labels /\ hops = e.hops
  BY <1>1 DEF ExStates
<1>3. PICK w \in Seq(Nat) : w = Written(labels)  BY WrittenIs
<1>4. PICK c \in Nat : c = Cost(e) /\ c = Len(w) + hops
  <2>1. Len(w) \in Nat  BY LenProperties
  <2>2. Len(w) + hops \in Nat  BY <2>1
  <2> QED  BY <1>2, <1>3, <2>2 DEF Cost
<1>5. PICK b : b = buf[p + 1]  OBVIOUS
<1>6. PICK next \in ExStates : next = Follow(buf, e) /\ Step(buf, e, p, b, next)
  BY <1>1, <1>2, <1>5, StepIs DEF Step
<1>7. CASE e.at # "on"
  <2>1. next = e  BY <1>6, <1>7 DEF Step
  <2> QED  BY <1>6, <1>7, <2>1 DEF Reached
<1>8. CASE e.at = "on"
  <2>1. OnWith(g, buf, pos0, p, w, c) /\ c >= k  BY <1>2, <1>3, <1>4, <1>8 DEF Reached
  <2>2. PICK l \in Nat, y \in Nat, d \in Nat : l = Len(buf) /\ y = Ptr /\ d = Bad /\ d <= y
    <3>1. Len(buf) \in Nat  BY LenProperties
    <3> QED  BY <3>1, PointersAre
  <2>3. p < l => b \in Nat  BY <1>5, <2>2, BytesAre
  <2>4. CASE p >= l
    <3>1. next.at = "none"  BY <1>6, <1>8, <2>2, <2>4 DEF Step
    <3>2. Fails(g)  BY <2>1, <2>2, <2>4, NoStep
    <3> QED  BY <1>6, <3>1, <3>2 DEF Reached
  <2>5. CASE p + 1 = l /\ b >= y
    <3>1. next.at = "none"  BY <1>6, <1>8, <2>2, <2>5 DEF Step
    <3>2. Fails(g)  BY <1>5, <2>1, <2>2, <2>5, NoStep
    <3> QED  BY <1>6, <3>1, <3>2 DEF Reached
  <2>6. CASE p < l /\ b < y /\ b >= d
    <3>1. next.at = "none"  BY <1>6, <1>8, <2>2, <2>6 DEF Step
    <3>2. Fails(g)  BY <1>5, <2>1, <2>2, <2>6, NoStep
    <3> QED  BY <1>6, <3>1, <3>2 DEF Reached
  <2>7. CASE p + 1 < l /\ b >= y
    <3>1. next.at = "on" /\ next.pos = Where(buf, p) /\ next.labels = labels /\ next.hops = hops + 1
      BY <1>2, <1>6, <1>8, <2>2, <2>7 DEF Step
    <3>2. OnWith(g, buf, pos0, Where(buf, p), w, c + 1)  BY <1>5, <2>1, <2>2, <2>7, PointerStep
    <3>3. Cost(next) = c + 1
      <4>1. Len(w) \in Nat  BY LenProperties
      <4>2. Len(w) + (hops + 1) = c + 1  BY <1>4, <4>1
      <4> QED  BY <1>3, <3>1, <4>2 DEF Cost
    <3>4. c + 1 >= k + 1  BY <2>1
    <3> QED  BY <1>3, <1>6, <3>1, <3>2, <3>3, <3>4 DEF Reached
  <2>8. CASE p < l /\ b < d /\ b = 0
    <3>1. next.at = "name" /\ next.labels = labels /\ next.hops = hops  BY <1>2, <1>6, <1>8, <2>2, <2>8 DEF Step
    <3>2. EndsWith(g, buf, pos0, w, c)
      <4>1. p < Len(buf) /\ buf[p + 1] = 0 /\ 0 < Bad  BY <1>5, <2>2, <2>8
      <4> QED  BY <2>1, <4>1, EndStep
    <3>3. Cost(next) = c  BY <1>3, <1>4, <3>1 DEF Cost
    <3> QED  BY <1>3, <1>6, <3>1, <3>2, <3>3 DEF Reached
  <2>9. CASE p < l /\ b < d /\ b # 0
    <3>1. PICK n \in Nat : n = b /\ Begins(buf, p, n)  BY <1>5, <2>2, <2>3, <2>9 DEF Begins
    <3>2. CASE p + n >= l
      <4>1. next.at = "none"  BY <1>6, <1>8, <2>2, <2>9, <3>1, <3>2 DEF Step
      <4>2. Fails(g)  BY <2>1, <2>2, <2>9, <3>1, <3>2, NoStep
      <4> QED  BY <1>6, <4>1, <4>2 DEF Reached
    <3>3. CASE p + n < l
      <4>1. PICK label \in Seq(Nat) : label = SubSeq(buf, p + 2, p + n + 1) /\ next.at = "on" /\ next.pos = p + n + 1
                                      /\ next.hops = hops /\ next.labels = Append(labels, label)
        BY <1>2, <1>6, <1>8, <2>2, <2>9, <3>1, <3>3 DEF Step
      <4>2. Len(label) = n /\ w \o (<<Len(label)>> \o label) = With(buf, w, p, n + 1)
        <5>1. p + n < Len(buf)  BY <2>2, <3>3
        <5>2. StandsAs(buf, w, p, n, label)  BY <3>1, <4>1, <5>1, LabelAsIs
        <5> QED  BY <5>2 DEF StandsAs
      <4>3. Written(next.labels) = With(buf, w, p, n + 1)  BY <1>3, <4>1, <4>2, WrittenMore
      <4>4. OnWith(g, buf, pos0, p + (n + 1), With(buf, w, p, n + 1), c + (n + 1))
        BY <2>1, <2>2, <3>1, <3>3, LabelStep
      <4>5. Cost(next) = c + (n + 1)
        <5>1. PICK i \in Nat : i = n + 1  OBVIOUS
        <5>2. p + i <= Len(buf)  BY <2>2, <3>3, <5>1
        <5>3. Len(With(buf, w, p, i)) = Len(w) + i  BY <5>2, WithIs
        <5>4. Len(w) \in Nat  BY LenProperties
        <5>5. (Len(w) + i) + hops = c + i  BY <1>4, <5>4
        <5> QED  BY <4>1, <4>3, <5>1, <5>3, <5>5 DEF Cost
      <4>6. p + n + 1 = p + (n + 1) /\ c + (n + 1) >= k + 1  BY <2>1
      <4> QED  BY <1>6, <4>1, <4>3, <4>4, <4>5, <4>6 DEF Reached
    <3> QED  BY <2>2, <3>2, <3>3
  <2>10. \/ p >= l \/ (p + 1 = l /\ b >= y) \/ (p < l /\ b < y /\ b >= d) \/ (p + 1 < l /\ b >= y)
         \/ (p < l /\ b < d /\ b = 0) \/ (p < l /\ b < d /\ b # 0)
    <3>1. CASE p < l
      <4>1. PICK n \in Nat : n = b  BY <2>3, <3>1
      <4> QED  BY <2>2, <3>1, <4>1
    <3> QED  BY <2>2, <3>1
  <2> QED  BY <2>4, <2>5, <2>6, <2>7, <2>8, <2>9, <2>10
<1> QED  BY <1>7, <1>8

\* What dns_packet_getname has read when its loop ends.
LEMMA ReachedAtLast ==
  ASSUME NEW buf \in Seq(Nat), NEW pos0 \in Nat, NEW g, Run(g, buf, pos0)
  PROVE  Reached(g, buf, pos0, Expansion(buf, pos0), LoopMax)
<1>1. PICK n \in Nat : n = LoopMax  BY NamesAssumption
<1>2. PICK x : Passed(x, buf, pos0)  BY PassedIs
<1> DEFINE T == {k \in 0 .. n : Reached(g, buf, pos0, x[k], k)}
<1>3. 0 \in T
  <2>1. Begun(x[0], pos0)  BY <1>2 DEF Passed, Begun
  <2> QED  BY <2>1, ReachedAtFirst
<1>4. ASSUME NEW k \in 1 .. n, k - 1 \in T PROVE k \in T
  <2>1. PICK j \in Nat : j = k - 1 /\ j + 1 = k  OBVIOUS
  <2>2. Reached(g, buf, pos0, x[j], j)  BY <1>4, <2>1
  <2>3. x[k] = Follow(buf, x[j])  BY <1>1, <1>2, <2>1 DEF Passed
  <2>4. Reached(g, buf, pos0, Follow(buf, x[j]), j + 1)
    <3> HIDE DEF T
    <3> QED  BY <2>2, ReachedMore
  <2> QED  BY <2>1, <2>3, <2>4
<1>5. n \in T
  <2> HIDE DEF T
  <2>1. \A k \in 0 .. n : k \in T  BY <1>3, <1>4, Induct
  <2> QED  BY <2>1
<1>6. Reached(g, buf, pos0, x[n], n)  BY <1>5
<1> QED  BY <1>1, <1>2, <1>6 DEF Passed

\* one name of a message is read as its pointers spell it, and stepped over alike
ReadsName(buf, pos) ==
  /\ \E g \in {GetName(buf, pos)}, e \in {Expansion(buf, pos)} :
       /\ g.pos # 0 <=> /\ e.at = "name"
                        /\ Len(Wire(e.labels)) <= NameMax
                        /\ Len(Wire(e.labels)) + e.hops < LoopMax
       /\ g.pos # 0 => g.name = Wire(e.labels)
  /\ GetName(buf, pos).pos # 0 =>
       /\ GetName(buf, pos).pos = SkipName(buf, pos)
       /\ SkipName(buf, pos) \in pos + 1 .. Len(buf)

LEMMA NameIsRead ==
  ASSUME NEW buf \in Seq(Nat), NEW pos \in Nat
  PROVE  ReadsName(buf, pos)
<1>1. PICK g : Run(g, buf, pos)  BY TurnsAreMade
<1>2. PICK e : e = Expansion(buf, pos)  OBVIOUS
<1>3. Reached(g, buf, pos, e, LoopMax) /\ e \in ExStates  BY <1>1, <1>2, ReachedAtLast DEF Reached
<1>4. PICK r : r = g[LoopMax - 1]  OBVIOUS
<1>5. PICK name : name = GetName(buf, pos) /\ name = IF r.going THEN Proto ELSE r  BY <1>1, <1>4 DEF Run
<1>6. PICK labels \in Seq(Seq(Nat)), hops \in Nat : labels = e.labels /\ hops = e.hops  BY <1>3 DEF ExStates
<1>7. PICK w \in Seq(Nat) : w = Written(labels) /\ Wire(labels) = w \o <<0>>  BY WrittenIs
<1>8. PICK m \in Nat, c \in Nat, y \in Nat : m = Len(w) /\ c = m + hops /\ y = LoopMax - 1 /\ LoopMax = y + 1
  <2>1. Len(w) \in Nat  BY LenProperties
  <2>2. Len(w) + hops \in Nat  BY <2>1
  <2>3. LoopMax - 1 \in Nat /\ LoopMax = (LoopMax - 1) + 1  BY NamesAssumption
  <2> QED  BY <2>1, <2>2, <2>3
<1>9. Cost(e) = c  BY <1>6, <1>7, <1>8 DEF Cost
<1>10. Wire(labels) = Append(w, 0) /\ Len(Wire(labels)) = m + 1
  <2>1. Append(w, 0) = w \o <<0>>  BY AppendIsConcat
  <2>2. Len(Append(w, 0)) = Len(w) + 1  BY AppendProperties
  <2> QED  BY <1>7, <1>8, <2>1, <2>2
<1>11. Fails(g) => name.pos = 0
  <2>1. Proto.pos = 0 /\ ~Proto.going  BY DEF Proto
  <2> QED  BY <1>4, <1>5, <2>1 DEF Fails
<1>12. CASE e.at = "on"
  <2>1. OnWith(g, buf, pos, e.pos, w, c) /\ c >= y + 1  BY <1>3, <1>6, <1>7, <1>8, <1>9, <1>12 DEF Reached
  <2>2. ~(c <= LoopMax - 1)  BY <1>8, <2>1
  <2>3. Fails(g)  BY <2>1, <2>2 DEF OnWith
  <2>4. name.pos = 0  BY <1>11, <2>3
  <2> QED  BY <1>2, <1>5, <1>12, <2>4 DEF ReadsName
<1>13. CASE e.at = "none"
  <2>1. name.pos = 0  BY <1>3, <1>11, <1>13 DEF Reached
  <2> QED  BY <1>2, <1>5, <1>13, <2>1 DEF ReadsName
<1>14. CASE e.at = "name"
  <2>1. EndsWith(g, buf, pos, w, c)  BY <1>3, <1>6, <1>7, <1>9, <1>14 DEF Reached
  <2>2. Len(Wire(labels)) + hops < LoopMax <=> c + 1 <= y  BY <1>8, <1>10
  <2>3. CASE m + 1 <= NameMax /\ c + 1 <= y
    <3>1. Found(g, buf, pos, w)  BY <1>8, <2>1, <2>3 DEF EndsWith
    <3>2. name = r /\ r.name = Append(w, 0) /\ r.pos = SkipName(buf, pos) /\ SkipName(buf, pos) \in pos + 1 .. Len(buf)
      BY <1>4, <1>5, <3>1 DEF Found
    <3>3. name.pos # 0
      <4>1. Len(buf) \in Nat  BY LenProperties
      <4>2. \A i \in pos + 1 .. Len(buf) : i # 0  BY <4>1
      <4> QED  BY <3>2, <4>2
    <3> QED  BY <1>2, <1>5, <1>6, <1>10, <1>14, <2>2, <2>3, <3>2, <3>3 DEF ReadsName
  <2>4. CASE ~(m + 1 <= NameMax /\ c + 1 <= y)
    <3>1. Fails(g)  BY <1>8, <2>1, <2>4 DEF EndsWith
    <3>2. name.pos = 0  BY <1>11, <3>1
    <3> QED  BY <1>2, <1>5, <1>6, <1>10, <1>14, <2>2, <2>4, <3>2 DEF ReadsName
  <2> QED  BY <2>3, <2>4
<1> QED  BY <1>3, <1>12, <1>13, <1>14 DEF ExStates

\* A name in a packet is read as following its pointers from label to label gives
\* it, and only when there is one, it fits and takes few enough steps; what steps over
\* it stops where reading it stops; nothing behind the packet is copied.
THEOREM NamesInPackets == NamesSpec => []NamesAreRead
<1> DEFINE Inv == message \in Seq(0 .. Byte - 1)
<1>1. NamesInit => Inv
  <2>1. <<>> \in Seq(0 .. Byte - 1)  OBVIOUS
  <2> QED  BY <2>1 DEF NamesInit
<1>2. Inv /\ [NamesNext]_message => Inv'
  <2> SUFFICES ASSUME Inv, [NamesNext]_message PROVE Inv'  OBVIOUS
  <2>1. CASE UNCHANGED message  BY <2>1
  <2>2. CASE NamesNext
    <3>1. PICK b \in 0 .. Byte - 1 : Receive(b)  BY <2>2 DEF NamesNext
    <3>2. message' = Append(message, b)  BY <3>1 DEF Receive
    <3> QED  BY <3>2, AppendProperties
  <2> QED  BY <2>1, <2>2
<1>3. Inv => NamesAreRead
  <2> SUFFICES ASSUME Inv PROVE NamesAreRead  OBVIOUS
  <2>1. PICK buf \in Seq(Nat) : buf = message
    <3>1. 0 .. Byte - 1 \subseteq Nat  BY NamesAssumption
    <3>2. message \in Seq(Nat)  BY <3>1, WiderSeq
    <3> QED  BY <3>2
  <2>2. \A pos \in 0 .. Len(buf) : pos \in Nat  BY LenProperties
  <2>3. \A pos \in 0 .. Len(buf) : ReadsName(buf, pos)  BY <2>2, NameIsRead
  <2>4. NameIsExpansion /\ SkipAgreesWithGet  BY <2>1, <2>3 DEF NameIsExpansion, SkipAgreesWithGet, ReadsName
  <2>5. CopyInPacket
    <3> SUFFICES ASSUME NEW pos \in 0 .. Len(buf), NEW n \in 1 .. 3
                 PROVE  PacketCopy(buf, SkipName(buf, pos), n) <= Len(buf)
      BY <2>1 DEF CopyInPacket
    <3>1. PICK l \in Nat, s \in Nat : l = Len(buf) /\ s = SkipName(buf, pos)  BY <2>2, LenProperties, SkipNameIs
    <3>2. PacketCopy(buf, s, n) = IF n > 0 /\ s + n > l THEN 0 ELSE s + n  BY <3>1 DEF PacketCopy
    <3>3. PacketCopy(buf, s, n) <= l  BY <3>2
    <3> QED  BY <3>1, <3>3
  <2> QED  BY <2>4, <2>5 DEF NamesAreRead
<1> QED  BY <1>1, <1>2, <1>3, PTL DEF NamesSpec
=============================================================================
