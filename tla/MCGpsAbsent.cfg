CONSTANTS
  Modules = {"gps"}
  Value <- Readings
  Seed <- MCNoFix
  Fallback <- MCNoFix
  MaxPeriod <- MCMaxPeriod
  PollPeriod = 1
  AgeCap = 5
  RingUsable = 3
  LineMax = 2
  Period = 1
  Deadline = 2
  Horizon = 4
SPECIFICATION Spec
INVARIANT AbsenceReported
