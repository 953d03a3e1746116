CONSTANTS
  TableSize = 24
  Dirs = 4
  KernelDir = 2
  KernelFrame = 18
  KernelPages = 2
  Units = 2
  Memory = 24
  Limit = 17
  StageStart = 1
  StageEnds = {15, 16, 17}
  ParamsAt = {10, 13, 14}
  BootFrame = 6
  StackFrame = 13
  Reserved = {0, 6, 14, 15, 16}
  ModuleFrame = 14
  ModuleFrames = 3
  Images <- Files
  StackPage = 36
  HeapPage = 72
  HeapPages = 2
  MaxHeap = 5
SPECIFICATION Spec
CHECK_DEADLOCK FALSE
INVARIANTS TypeOK MappingsSafe LoadedImage WritesHitTheirFrame HandoverComplete
