CONSTANTS
  TTL = 1
  Uses = 2
  MaxNow = 3
  MaxNs = 3
  Short = FALSE
  a4 = a4
  any = any
  lo4 = lo4
  a6 = a6
  b6 = b6
  c6 = c6
  lo6 = lo6
  zero = zero
  lo = lo
  nul = nul
  sp = sp
  nl = nl
  pct = pct
  ns = ns
  word = word
  unset = unset
  unreadable = unreadable
  V4 <- MCV4
  V6 <- MCV6
  Any4 <- any
  Local4 <- lo4
  Local6 <- lo6
  Zero <- zero
  IfName <- MCIf
  NUL <- nul
  SP <- sp
  NL <- nl
  PCT <- pct
  NS <- ns
  EnvTexts <- MCEnv
  FileTexts <- MCFile
  Unset <- unset
  Unreadable <- unreadable
  h = h
  d = d
  e0 = e0
  dot = dot
  plus1 = plus1
  cln = cln
  br = br
  q = q
  eq = eq
  star = star
  minus = minus
  search = search
  none = none
  Words <- MCWords
  DOT <- dot
  PLUS <- plus1
  COLON <- cln
  BR <- br
  Q <- q
  EQ <- eq
  STAR <- star
  MINUS <- minus
  SEARCH <- search
  None <- none
  BLANK <- sp
  Unread <- unreadable
  RuleFiles <- MCRules
  Locals <- MCLocals
  ResolvFiles <- MCResolv
  Hosts <- MCHosts
  Asked <- MCAsked
SPECIFICATION Spec
INVARIANT EnvServersUsed
