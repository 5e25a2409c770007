SPECIFICATION LiveSpec
CONSTANTS
  Units = {u1}
  BROADCAST = broadcast
  UNKNOWN = unknown
  Kinds = {"read"}
  StartAddress = {a1}
  INJECTED = a1
  Injections = {{}}
  FaultSwitch = {TRUE}
  Delays = {0}
  DROP_EVERY_NTH = 1
  FRAME_SIZE = 1
  TX_TIME = 1
  FAULT_TIME = 1
  RETRY_TIME = 1
  HALF_RING = 2
  COUNTER_RANGE = 2
  MaxFaults = 1
PROPERTIES
  TransmissionEnds
  RequestServed
