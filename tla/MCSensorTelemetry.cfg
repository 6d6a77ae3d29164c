CONSTANTS
  Modules <- MCModules
  Value <- MCValue
  Seed <- MCFailed
  Fallback <- MCFailed
  MaxPeriod <- MCMaxPeriod
  PollPeriod = 1
  AgeCap = 17
  SampleIds = {1, 2}
  Period = 5
  Deadline = 6
  GatherPeriod = 1
  GatherDeadline = 2
  DarkHorizon = 31
  BrightHorizon = 16
SPECIFICATION Spec
INVARIANTS
  SilenceReported
  SamplesArrive
  PairsAgree
