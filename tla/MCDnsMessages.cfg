CONSTANTS
  Byte = 256
  LabelMax = 4
  NameMax = 6
  LoopMax = 9
  UInt = 65536
  ULong = 65536
  PacketBytes = {0, 1, 2, 64, 192}
  PacketMax = 6
  TextChars = {46, 92, 48, 55, 65, 97, 1}
  TextMax = 5
  Texts <- MCTexts
  Packets <- MCPackets
  Rooms = {1, 18, 1000}
  RecordsMax = 3
  Plenty = 1000
SPECIFICATION Spec
INVARIANTS NamesAreRead NamesComeBack AnswersAreRead CallsLeaveNothing
CHECK_DEADLOCK FALSE
