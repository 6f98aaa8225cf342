SPECIFICATION QueueSpec
CONSTANTS
  Messages <- MCMessages
  MaxSends = 4
INVARIANT Fifo
CHECK_DEADLOCK FALSE
