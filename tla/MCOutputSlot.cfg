CONSTANTS
  Raw <- MCRaw
  PulseWidths <- MCPulseWidths
  Policy = "HOLD"
  FixedValue = 1550
SPECIFICATION Spec
INVARIANTS
  WithinTravel
  EndsMeetTrim
PROPERTIES
  FollowsStick
  HoldStaysPut
