CONSTANTS
  Size = 2
  OutSize = 3
  MaxGiven = 8
  MaxLen = 6
  RSize = 3
  Input = 8
  MaxAsk = 4
  Seps = {2, 3, 7}
  k0 = k0
  k1 = k1
  k2 = k2
  k3 = k3
  Key = {k0, k1, k2, k3}
  KeyLen <- MCKeyLen
  Hash <- MCHash
  DataLens = {0, 40}
  Tables = 2
  HPList = 2
  Mod = 132
  MaxRecords = 3
  None = None
SPECIFICATION StorageSpec
INVARIANTS StaysInBuffers NothingSkipped LinesAreInput CopyInOrder PosIsOffset NthRecord SearchesAreSound
PROPERTIES QueueSpec ResultsTellTruth
CHECK_DEADLOCK FALSE
