SPECIFICATION Spec
CONSTANTS
  NONE = NONE
  MaxSize = 1
  MaxFiles = 2
  TailCapacity = 1
  BusCapacity = 1
  MaxSpawns = 4
  MaxLines = 3
INVARIANTS TypeOK FilesInOrder  SubscriberMissesNothing 
PROPERTY RetentionKeeps
CHECK_DEADLOCK FALSE
