------------------------------ MODULE DnsSort ------------------------------
(***************************************************************************)
(* The order of servers and answers (dnsstub/dns_sortip.c), and the stream *)
(* of numbers it is drawn from (dns_random.c): words are made eight at a   *)
(* time from a key and a counter of four words.  The words themselves are  *)
(* any numbers; the model keeps which of the stream's words is used.       *)
(***************************************************************************)
EXTENDS Integers, Sequences, FiniteSets

CONSTANTS
  WordSize,  \* values of a word of the counter (2^32)
  Servers,   \* addresses of servers
  V4,        \* those of IPv4
  None,      \* V6localnet
  ListMax    \* servers in a list (QUERY_MAXNS, 16)

ASSUME SortAssumption ==
  /\ WordSize \in Nat /\ WordSize > 1
  /\ V4 \subseteq Servers /\ None \notin Servers
  /\ ListMax \in 0 .. 16

Swap(s, i, j) == [s EXCEPT ![i] = s[j], ![j] = s[i]]

\* one turn of the loops: the item drawn goes to the end of those left
Exchange(s, n, i) == Swap(s, i + 1, n)

\* dns_sortip4, dns_sortip6: what a sequence of draws makes of a list
Shuffled(s, draws) ==
  LET st[k \in 0 .. Len(draws)] ==
        IF k = 0 THEN s ELSE Exchange(st[k - 1], Len(s) - k + 1, draws[k])
  IN  st[Len(draws)]

\* faulty variant of Usable4: the servers behind the first are not looked at
UsableFirst(s, ipv4socket, isV4, none) ==
  [k \in DOMAIN s |-> IF ipv4socket /\ k <= 1 /\ ~isV4[s[k]] THEN none ELSE s[k]]

\* dns_sortip: a socket for IPv4 alone has no use for other servers; there are 16
Usable4(s, ipv4socket, isV4, none) ==
  [k \in DOMAIN s |-> IF ipv4socket /\ k <= 16 /\ ~isV4[s[k]] THEN none ELSE s[k]]

SortIp(s, ipv4socket, isV4, none, draws) == Shuffled(Usable4(s, ipv4socket, isV4, none), draws)

-----------------------------------------------------------------------------
VARIABLES
  in,        \* the counter: in[0] .. in[3]
  outleft    \* words left of the last eight

randomVars == <<in, outleft>>

RandomInit == in = [k \in 0 .. 3 |-> 0] /\ outleft = 0

\* dns_random: ++in[0], and the next word when one becomes zero
Increment(c) ==
  LET zero(k) == (c[k] + 1) % WordSize = 0
  IN  [k \in 0 .. 3 |-> IF \A l \in 0 .. k - 1 : zero(l) THEN (c[k] + 1) % WordSize ELSE c[k]]

\* dns_random: a word, of which the caller uses the rest of a division by n
Random(n) ==
  /\ n > 0
  /\ in' = IF outleft = 0 THEN Increment(in) ELSE in
  /\ outleft' = IF outleft = 0 THEN 7 ELSE outleft - 1

-----------------------------------------------------------------------------
\* A list is filled, to be sorted; or words are drawn, of which a cycle of the counter
\* has 8 * WordSize^4.
VARIABLES list, drawn

sortvars == <<in, outleft, list, drawn>>

Cycle == 8 * (WordSize * (WordSize * (WordSize * WordSize)))

SortInit == RandomInit /\ list = <<>> /\ drawn = 0

Add(s) == Len(list) < ListMax /\ drawn = 0 /\ list' = Append(list, s) /\ UNCHANGED <<randomVars, drawn>>
Draw == list = <<>> /\ Random(2) /\ drawn' = (drawn + 1) % Cycle /\ UNCHANGED list

SortNext == Draw \/ \E s \in Servers : Add(s)

SortSpec == SortInit /\ [][SortNext]_sortvars

-----------------------------------------------------------------------------
\* what dns_random may give the turns of the loop over n servers
Draws(n) == {d \in [1 .. n - 1 -> 0 .. n - 1] : \A k \in 1 .. n - 1 : d[k] <= n - k}
IsV4 == [s \in Servers |-> s \in V4]
CountOf(s, x) == Cardinality({k \in DOMAIN s : s[k] = x})

\* A sort loses no server and doubles none, whatever is drawn, and draws that
\* differ give orders of the places that differ: a fair stream makes every order
\* equally likely (dns_sortip.c:25-30, 41-46, 60-65).
EveryOrder ==
  LET n == Len(list)
      order(d) == Shuffled([k \in 1 .. n |-> k], d)
  IN  /\ \A d \in Draws(n) : \A k \in 1 .. n : \E j \in 1 .. n : order(d)[j] = k
      /\ \A d, e \in Draws(n) : order(d) = order(e) => d = e
      /\ \A d \in Draws(n), s \in Servers : CountOf(Shuffled(list, d), s) = CountOf(list, s)

\* With a socket for IPv4 alone no other server is left in the list, and those of
\* IPv4 all are (dns_sortip.c:54-57).
OnlyUsable ==
  \A d \in Draws(Len(list)), s \in Servers :
    CountOf(SortIp(list, TRUE, IsV4, None, d), s) = IF s \in V4 THEN CountOf(list, s) ELSE 0

\* The stream does not come back to a word it has given before all values of its
\* counter have been used: the words drawn are as many as the counter and the
\* words left of it say (dns_random.c:63-69).
Counted == in[0] + WordSize * (in[1] + WordSize * (in[2] + WordSize * in[3]))
StreamIsFresh == drawn = (8 * Counted - outleft) % Cycle

\* Servers are tried in an order the stream of words alone decides: no server is lost,
\* every order is as likely, and no word comes twice (dns_sortip.c, dns_random.c).
SortIsFair == EveryOrder /\ OnlyUsable /\ StreamIsFresh
=============================================================================
