CONSTANTS
  NoModule = "none"
  Modules <- MCBoardModules
  Value = {"live", "safe"}
  Seed <- MCBoardSeed
  Fallback <- MCBoardSeed
  Period <- MCBoardPeriod
  Deadline <- MCBoardPeriod
  MaxPeriod <- MCBoardMaxPeriod
  SUPERVISOR_MAX_MODULES = 8
  PollPeriod = 1
  TickMod = 8
  IwdgTimeout = 2
  MaxStalled = 0
SPECIFICATION Spec
INVARIANT EveryModuleCovered
