CONSTANTS
  WordBits = 2
  ByteBits = 2
  PageSize = 4
  TotalPages = 16
  LastBit = 22
  Junk <- MCJunk
  UintMod = 32
  Regions <- BootRegions
  BlockSizes = {0, 1, 2, 3}
  KernelVirtPage = 20
  KernelFrames = {6, 7}
SPECIFICATION Spec
CHECK_DEADLOCK FALSE
INVARIANT FailsOnlyWhenFull
