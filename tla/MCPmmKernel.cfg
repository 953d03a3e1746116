CONSTANTS
  WordBits = 2
  ByteBits = 2
  PageSize = 4
  TotalPages = 28
  LastBit = 32
  Junk <- MCJunk
  UintMod = 34
  Regions <- BootRegions
  BlockSizes = {0, 1, 2, 3}
  KernelVirtPage = 30
  KernelFrames = {6, 7}
SPECIFICATION Spec
CHECK_DEADLOCK FALSE
INVARIANT KernelNeverHandedOut
