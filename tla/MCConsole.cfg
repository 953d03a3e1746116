CONSTANTS
  Width = 4
  Height = 3
  Keys = {"a", "b", "BS", "CR", "NUL"}
  BufSize = 5
  WordBits = 4
  CharBits = 2
  ShortBits = 3
  Decimal = 2
  CharAt <- MCCharAt
  TextAt <- MCTextAt
  Calls <- MCCalls
  KernelMessages <- MCKernelMessages
  Banner <- MCBanner
  PromptFormat <- MCPromptFormat
  EchoText <- MCEchoText
  MaxKeys = 7
SPECIFICATION Spec
CHECK_DEADLOCK FALSE
INVARIANTS TypeOK ScreenIsTail LineIsEdited EchoShowsLine PrintfReads
