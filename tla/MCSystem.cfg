CONSTANTS
  ULong = 16
  Base = 4
  Byte = 2
  TicksPerSec = 2
  PerTick = 2
  PerMs = 2
  Slack = 1
  CapMs = 2
  Epoch = 3
  Timeouts = {0, 1, 2}
  StartMax = 1
  MaxClock = 7
  MaxFails = 1
  WaitsMax = 7
  SizeT = 8
  UInt = 6
  Extra = 1
  Texts = {0, 1, 4, 5, 7}
  Digits = {1}
  Widths = {0, 2}
  BufSize = 2
  FileMax = 3
  Names = {"PATH", "A", "B"}
  Values = {"1", "2"}
  NoValue = "none"
  Inherited <- MCInherited
  EnvMax = 3
  Room = 1
  More = 1
  PATH = "PATH"
  Dirs = {"bin", "", "local", "/bin", "/usr/bin"}
  DirsOf <- MCDirsOf
  DefaultDirs <- MCDefault
  PlusMax = 2
  Letters <- Chars
  Dash = "-"
  Plain = {"a"}
  WithArg = {"o"}
  CommandLines <- MCCommandLines
  Fds = {0, 1, 2}
  OpenFiles = {f, g}
  Closed = Closed
  UWord = 16
  Align = 2
  Space = 6
  Requests = {0, 1, 2, 3, 15}
  BlocksMax = 4
  Heads = {"net", "mapped"}
  Mapped = "mapped"
  Lows = {1, 2}
  Scopes = {0, 1}
SPECIFICATION Spec
INVARIANTS TimelyAndTrue TimesKeepOrder WritesInRoom FileIsRead ProgramIsRun OptionsAreWords CopyOrKeep BlocksApart AddressesFit
PROPERTIES CallReturns AskedOrAlone EnvKept
CHECK_DEADLOCK FALSE
