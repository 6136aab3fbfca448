CONSTANTS
  QUERY_MAXNS = 1
  g1 = g1  n1 = n1  A = A
  Null = Null
  Malformed = Malformed
  IPs <- MCIPs
  LinkLocal <- MCLinkLocal
  ServerLists <- MCLists
  Names = {n1}
  Types = {A}
  Questions <- MCQuestions
  LongNames = {}
  Ids = {0}
  Rcodes = {0, 2}
  QueryLen = 2
  ByteBase = 2
  MinReply = 2
  PosBound = 3
  Fds = {0}
  NoiseBound = 0
SPECIFICATION RetriesSpec
INVARIANT AllIntervals
