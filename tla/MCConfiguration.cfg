SPECIFICATION MCSpec
CONSTANTS
  Addresses = {1, 2, 3, 4}
  Profiles = {"V1", "V2_NEW"}
  OutsideTemp <- MCOutsideTemp
  WaterTemp <- MCWaterTemp
  Levels = {18, 20}
  INVALID = INVALID
INVARIANTS
  CeilingIsNearby
  EveryReasonReported
  EachUnitReachable
PROPERTIES
  NoChatter
