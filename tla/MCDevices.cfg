CONSTANTS
  DmaChannels = {0, 1}
  DmaCsrs <- MCDmaCsrs
  DmaSizes <- MCDmaSizes
  DmaDescs <- MCDmaDescs
  DmaFirst = "first"
  DmaPeers = {0}
  DmaMasks = {{0, 1}}
  KBD_MAX_BUF = 3
  GpioUses <- MCGpioUses
  GPIO_MAX_INT = 2
  N_CE = 2
  McConfigs <- MCMcConfigs
  McControllers <- MCMcControllers
  McSelects = {0, 1}
  McMasks = {0, 1}
  GenericSize = 8
  GenericBases = {4}
  GenericBytes = {0, 1}
  GenericBig = TRUE
  FB_SIZEX = 4
  FB_SIZEY = 3
  CAM_SIZEX = 2
  CAM_SIZEY = 1
  FB_WRAP = 16
  FbAddrs = {0, 11, 30}
  FbCamPos = {0, 7}
  VgaLens <- MCVgaLens
  MAX_PICS = 2
  ETH_BDS = 2
  EthBds <- MCEthBds
  EthBehind <- MCEthBehind
  EthMasks <- MCEthMasks
  EthNums = {0, 3}
  AtaCables <- MCAtaCables
  AtaWords = 1
  AtaCounts = {2}
  AtaSample = {0, 5, 1023, 1024, 262143}
  AtaWrap = 268435456
  AtaFull = 1
  AtaAddrs <- MCAtaAddrs
  AtaHeads = 2
  AtaSectors = 2
  AtaPending = 2
SPECIFICATION Spec
INVARIANTS
  DmaSound KbdSound GpioSound DisplaySound EthSound AtaSound McDecoderFollows
  GenericOneMemory
CHECK_DEADLOCK FALSE
