SPECIFICATION MCSpec
CONSTANTS
  RX_FRAME_QUEUE_SIZE = 3
  TX_DEPTH = 2
  TX_TIME = 1
  TIMEOUT = 5
  FRAME_DELAY = 1
  Delays = {1, 2}
  STARTUP_SETTLE = 1
  BUS_IDLE_MIN = 1
  STARTUP_FORCE = 2
  PATIENCE = 4
  PollInterval = {2, 3}
INVARIANTS
  OneRequestOnWire
  TimeoutMeansStall
  PendingOnlyWhileServing
  NormalLoadIsClean
  AnsweredInTime
  ReadyMeansIdle
PROPERTIES
  SlaveStarts
  PollingGoesOn
