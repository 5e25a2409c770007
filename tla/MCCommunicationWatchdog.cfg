SPECIFICATION MCSpec
CONSTANTS
  Odu1 = Odu1
  Odu2 = Odu2
  Unit = {Odu1, Odu2}
  UnitAddress <- MCUnitAddress
  BusAddress = {1, 2, 9}
  FunctionCode = {3, 4}
  TICK_MS = 3
  LIMIT = 2
  CLOCK_WRAP = 16
  Gap = {1, 4, 10}
  MaxClock = 24
INVARIANTS
  FaultMeansSilence
PROPERTIES
  ImplementsIdeal
