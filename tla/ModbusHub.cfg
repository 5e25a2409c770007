SPECIFICATION Spec
CONSTANTS
  Units = {u1}
  BROADCAST = broadcast
  UNKNOWN = unknown
  Kinds = {"read", "write"}
  StartAddress = {a1}
  INJECTED = a1
  Injections = {{}, {"nth", "exception"}, {"nth", "reboot"}}
  FaultSwitch = {TRUE, FALSE}
  Delays = {0}
  DROP_EVERY_NTH = 2
  FRAME_SIZE = 2
  TX_TIME = 1
  FAULT_TIME = 1
  RETRY_TIME = 1
  HALF_RING = 2
  COUNTER_RANGE = 2
  MaxFaults = 1
INVARIANTS
  ExclusiveDriver
  EvenParityRestored
  RetriesHaveFaults
PROPERTIES
  UncountedOnlyIfTaken
