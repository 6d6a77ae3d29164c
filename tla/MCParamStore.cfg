CONSTANTS
  Writers = {"cli", "sport"}
  Settable <- MCSettable
  Ids <- MCIds
  Vals = {0, 1}
  Default <- MCDefault
  UnitOf <- MCUnitOf
  CrcUnit = 3
  Units = 3
  MayFail = TRUE
  Erased = Erased
  Garbage = Garbage
  NoOne = NoOne
SPECIFICATION Spec
INVARIANTS
  AcknowledgedIsStored
  CacheIsAcknowledged
  NeverTorn
