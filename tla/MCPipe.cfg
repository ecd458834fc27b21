SPECIFICATION Spec
CONSTANTS
  Capacity = 3
  MaxBytes = 7
INVARIANTS TypeOK InOrder NoLostWakeup
PROPERTIES EveryByteArrives ImplementsChannel
CHECK_DEADLOCK FALSE
