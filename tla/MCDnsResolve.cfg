CONSTANTS
  QUERY_MAXNS = 2
  g1 = g1  g2 = g2  n1 = n1  n2 = n2  A = A
  Null = Null
  Malformed = Malformed
  IPs <- MCIPs
  LinkLocal <- MCLinkLocal
  ServerLists <- MCLists
  Names = {n1, n2}
  Types = {A}
  Questions <- MCQuestions
  LongNames = {n2}
  Ids = {0}
  Rcodes = {0, 2}
  QueryLen = 2
  ByteBase = 2
  MinReply = 2
  PosBound = 3
  Fds = {0}
  NoiseBound = 1
SPECIFICATION ResolveSpec
INVARIANTS CallGetsItsAnswer
PROPERTIES Terminates
