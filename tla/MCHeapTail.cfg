\* The heap in words: a header of 3, pages of a few.
CONSTANTS
  Header = 3
  Page = 8
  TaskSize = 9
  Requests = {1, 4, 9, 11}
  CountMod = 4
  TableSpan = 2
  FrameCount = 9
  MaxPages = 6
SPECIFICATION Spec
CHECK_DEADLOCK FALSE
INVARIANT ReturnsFreeBlock
