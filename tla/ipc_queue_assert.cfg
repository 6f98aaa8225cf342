SPECIFICATION QueueSpec
CONSTANTS
  Messages <- MCMessages
  MaxSends = 4
INVARIANT SendFindsFreeSlot
CHECK_DEADLOCK FALSE
