CONSTANTS
  SPORT_FIELD_COUNT = 1
  FrameLen = 2
  RingUsable = 3
  SlotLen = 7
  Latency = 1
  NoByte = NoByte
  NoReply = NoReply
  Skipped = Skipped
SPECIFICATION FairSpec
INVARIANTS
  SportTypeOK
  SlotKept
  PushApplied
  OneDirection
PROPERTIES
  ListensAgain
  WriteReturns
