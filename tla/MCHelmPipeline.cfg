CONSTANTS
  Modules <- Stages
  Value <- MCValue
  Seed <- StageSeed
  Fallback <- StageFallback
  MaxPeriod <- MCMaxPeriod
  PollPeriod = 1
  AgeCap = 8
  Period = 2
  Deadline = 2
  Sticks = {172}
  SlotTrims <- MCSlotTrims
  BootTrims <- MCBootTrims
  MaxSuspensions = 1
  MaxChanges = 3
  LossHorizon = 13
  SettleHorizon = 11
SPECIFICATION Spec
INVARIANTS
  FailsafeReachesServos
  SticksReachServos
PROPERTIES
  HoldStaysPut
