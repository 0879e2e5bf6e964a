SPECIFICATION FairSpec
CONSTANTS
  None = None
  t1 = t1
  t2 = t2
  Subtask <- MCSubtasks
  Items <- MCOneItem
  Method <- MCWithRegisterFailed
  MaxConcurrency = 2
  MaxOutages = 0
  MaxTrackers = 1
CHECK_DEADLOCK FALSE
PROPERTY WaitingEnds
