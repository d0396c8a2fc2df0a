CONSTANTS
  AreaRequests <- MCRequests
  AreaProbes = {0, 2, 3, 4, 8, 12, 8188}
  AreaTop = 8192
  AreaMax = 3
  CacheSets = 1
  CacheWays = 2
  CacheWords = 2
  CacheUstates = 2
  TlbSets = 1
  TlbWays = 2
  TlbPage = 16
  TlbHigh = 48
  PathWords = {0, 1, 2, 3, 4, 5}
  PathTlbs <- MCTlbs
  PathLoads <- MCLoads
  PathStores <- MCStores
  PathDirects = {16}
  PathBytes = {1}
  BTIC_WAYS = 2
  BTIC_USTATES = 2
  BPB_PSTATES = 2
  Targets = {1, 2, 3}
  PREDICT_MAX = 4
  RspAddrs = {0, 1}
  RspWritten = {0}
  RspWords = {0, 1}
  RspQueue = 2
  MAX_MATCHPOINTS = 3
  DuBits = 2
  DuSetups <- MCSetups
  DuData = {0, 1, 2}
  DuExceptions = {"TRAP", "TICK"}
  JtagMem = {0, 1, 2, 3, 4, 6, 7}
  JtagAddrs = {0}
  JtagSizes = {1, 4}
  JtagExtra <- MCJtagExtra
  JtagFed <- MCJtagFed
  JtagTop = 8
  MAX_SPRS = 3
  Numbers <- MCNumbers
  ClockTimes <- MCClocks
  Strings <- MCStrings
  ConfigBodies <- MCBodies
  Layouts <- MCLayouts
  ArgSets <- MCArgs
  MemorySizes <- MCMemorySizes
  TenDigits = 3000
  SetCommands <- MCCommands
  VapiDevices <- MCVapiDevices
  VapiTests <- MCVapiTests
  VapiAnswers = {2}
  VAPI_MAX_FD = 4
  CHANNEL_MAX_FD = 5
  CHANNEL_MAX_CHARS = 3
  ChannelKinds = {"fd", "file1", "file2", "tcp", "tty", "xterm"}
  ALU_W = 4
  ALU_MACS = 2
  FEXP = 3
  FFRAC = 2
  FGUARD = 3
  FINT = 4
  FloatFew = {0, 1, 7, 13, 27, 40}
  SBUF_LEN = 2
  MAX_SBUF_LEN = 4
  StoreCycles = {0, 1, 3}
  SBUF_IDLE = 2
  SBUF_MAX = 10
  DecodeBits = 4
  MAX_LEN = 3
  DecodeTables <- MCTables
  DecodeFormats <- MCFormats
  DecodeRegs <- MCRegs
SPECIFICATION Spec
INVARIANTS
  AluRight FloatRight DecodeSound AreasSound PathSound TimingRight
  RspSound DuSound JtagSound ConfigSound VapiSound ChannelsSound
CHECK_DEADLOCK FALSE
