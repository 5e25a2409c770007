SPECIFICATION RestSpec
CONSTANTS
  MAX_LEVEL = 2
  Request = {0, 1, 3}
  Dt = {1}
  START_DELAY = 1
  MINIMUM_RUNTIME = 2
  STOP_DELAY = 1
  RAMP_UP = 1
  RAMP_DOWN = 1
  DEFROST_DURATION = 2
  LimitedLevel = {1}
  Switch = {"hold_level", "freeze"}
  Table = {"HEATING"}
  MaxCycles = 1
INVARIANTS
  CyclesAccountedFor
  DeferredOnlyInDefrost
  StopIsFinal
  RestsBeforeReversal
PROPERTIES
  FrozenDuringDefrost
