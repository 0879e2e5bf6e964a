SPECIFICATION FairSpec
CONSTANTS
  None = None
  t1 = t1
  t2 = t2
  Subtask <- MCSubtasks
  Items <- MCOneItem
  Method <- MCWithRegisterFailed
  MaxConcurrency = 2
  MaxOutages = 1
  MaxTrackers = 2
CHECK_DEADLOCK FALSE
INVARIANTS CompleteWhenFinished ShownIsDone
PROPERTIES ShownNeverFalls CountedWaitingEnds
