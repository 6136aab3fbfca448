CONSTANTS
  QUERY_MAXNS = 3
  g1 = g1  g2 = g2  l1 = l1  l2 = l2  n1 = n1  n2 = n2  A = A
  Null = Null
  Malformed = Malformed
  IPs <- MCIPs
  LinkLocal <- MCLinkLocal
  ServerLists <- MCLists
  Names = {n1}
  Types = {A}
  Questions <- OneQuestion
  LongNames = {}
  Ids = {0, 1}
  Rcodes = {0, 2}
  QueryLen = 2
  ByteBase = 2
  MinReply = 3
  PosBound = 3
  Fds = {0, 1}
SPECIFICATION Spec
INVARIANT PosIsSent
