SPECIFICATION Spec
CONSTANTS
  MAX_IGNITION_DELAY = 3
  MASTER_STATUS_TIMEOUT = 1
  CLOCK_WRAP = 5
  MAX_STEP = 2
  MaxGap = 3
PROPERTY OnlyBurningSkipsIgnition
