CONSTANTS
  NTasks = 3
  IdlePriority = 2
  UserPriority = 2
  Priority <- MCPriority
  TickMs = 4
  ClockMod = 6
  SleepTimes = {1}
  KeyCodes = {0}
  LoadMayFail = TRUE
  MaxBootTicks = 1
SPECIFICATION FairSpec
CHECK_DEADLOCK FALSE
PROPERTIES NoStarvation SleeperWakes NeverDeaf
