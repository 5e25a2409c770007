SPECIFICATION LossSpec
CONSTANTS
  MAX_LEVEL = 1
  Request = {0, 1}
  Dt = {1}
  START_DELAY = 1
  MINIMUM_RUNTIME = 1
  STOP_DELAY = 1
  RAMP_UP = 1
  RAMP_DOWN = 1
  DEFROST_DURATION = 2
  LimitedLevel = {1}
  Switch = {"freeze"}
  Table = {}
  MaxCycles = 1
  LIMIT = 2
  MaxElapsed = 2
PROPERTIES
  StartsOnlyWhenSpokenTo
  SilenceStopsCompressor
  ForcedDefrostEnds
