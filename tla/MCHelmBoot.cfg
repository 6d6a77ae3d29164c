SPECIFICATION FairBootSpec
CONSTANTS
  Subsystems <- MCSubsystems
  Letters <- MCLetters
  UartPorts <- MCUartPorts
  I2cPorts <- MCI2cPorts
  I2cSubsystems <- MCI2cSubsystems
  SourceValues <- MCSourceValues
  DefaultClaim <- MCDefaultClaim
  FirstPort = "e"
  Unset = "unset"
  PadCount = 4
  Timers = {"TIM4", "TIM5"}
  TimerOf <- MCTimerOf
  MaxTimers = 2
  RateValues <- MCRateValues
  DefaultRate = "50"
  ZeroRate = "50"
  PeriodOf <- MCPeriodOf
  NoPeriod = 0
  GpsUarts <- MCGpsUarts
  MaxSets = 3
INVARIANT
  ClaimsExist
  SourceFirstOneOwner
  PadsReady
  UnrecoveredHaltIsSafe
PROPERTY
  BootUsesStoredRate
  RequestServedOnce
  StoppedBoardReboots
