SPECIFICATION FairSpec
CONSTANTS
  Session = {s1}
  Socket = {f1}
  Source = {x1}
  NONE = NONE
  OTHER_CLIENT = OTHER_CLIENT
  Groups = 1
  PARTS = 2
  SEND_STALL_TIMEOUT = 2
  RETRY_INTERVAL = 1
  CLOSE_CONFIRM_INTERVAL = 2
INVARIANTS
  TypeOK
  NoDangling
  BufferPinned
  OnlyGivenUpShutDown
  StaleOnlyIfMissed
PROPERTIES
  OnlyStuckClosed
  GivenUpIsDeleted
  StuckIsClosed
  ParkedIsAdopted
