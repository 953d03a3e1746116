CONSTANTS
  Volumes <- MCVolumes
  Sector = 2
  RootLba = 3
  RootSectors = 2
  Drive <- MCDrive
  Geometries <- MCGeometries
  EndOfChain = 4088
  MaxFaults = 4
  BiosMaps <- MCBiosMaps
  Usable = "usable"
  UintMod = 8
  LoadSize = 6
  CopyMod = 6
  MaxHandles = 2
SPECIFICATION Spec
CHECK_DEADLOCK FALSE
INVARIANTS TypeOK FilesLoaded FindsWhatIsThere MemoryCounted
PROPERTIES BootEnds BootAdvances
