CONSTANTS
  Sticks = {172, 1811}
  FramePeriod = 2
  PollPeriod = 3
  PollDeadline = 4
  Timeout = 6
  Malformed = Malformed
  NoFrame = NoFrame
  TickMod = 12
  Horizon = 16
SPECIFICATION Spec
INVARIANTS
  LossReported
  GoodLinkReported
PROPERTIES
  BitReported
  LossLatched
