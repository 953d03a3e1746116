CONSTANTS
  NTasks = 3
  IdlePriority = 2
  UserPriority = 2
  Priority <- MCPriority
  TickMs = 2
  ClockMod = 6
  SleepTimes = {0, 3}
  KeyCodes = {0, 1}
  LoadMayFail = FALSE
  MaxBootTicks = 1
SPECIFICATION Spec
INVARIANTS TypeOK StackOwner WalkSound SleepExact KeyFresh
PROPERTY ImplementsTasks
