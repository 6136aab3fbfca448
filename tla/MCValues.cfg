CONSTANTS
  ULong = 65536
  UInt = 65536
  Groups = {0, 65535}
  V4s <- MCV4s
  Behinds <- MCBehinds
  WordSize = 3
  Servers = {a4, b4, c6, d6}
  V4 = {a4, b4}
  None = None
  ListMax = 4
  SmallLong = 4096
  SmallInt = 256
  Chars = {48, 49, 57, 97, 70, 46}
  TextMax = 5
  Bytes8 = {0, 1, 62, 171, 255}
  BytesMax = 5
  Letters = {0, 65, 90, 91, 97}
SPECIFICATION Spec
INVARIANTS SortIsFair ValuesComeBack AddressesComeBack
CHECK_DEADLOCK FALSE
