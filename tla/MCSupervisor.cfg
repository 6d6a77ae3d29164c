CONSTANTS
  imu = imu
  servo = servo
  live = live
  safe = safe
  NoModule = NoModule
  Modules <- MCModules
  Value <- MCValue
  Seed <- MCSeed
  Fallback <- MCSeed
  Period <- MCPeriod
  Deadline <- MCDeadline
  MaxPeriod <- MCMaxPeriod
  SUPERVISOR_MAX_MODULES = 1
  PollPeriod = 2
  TickMod = 5
  IwdgTimeout = 3
  MaxStalled = 1
SPECIFICATION FairSpec
INVARIANTS
  TableAgrees
  ElapsedIsAge
  FallbackInForce
  WatchdogSparesLiveCpu
PROPERTIES
  NoFalseFailsafe
  ImplementsMonitor
  StopLeadsToReboot
  LateModuleReturns
