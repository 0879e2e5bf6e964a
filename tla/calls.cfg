SPECIFICATION Spec
CONSTANTS
  None = None
  Batch <- MCBatch
  Sizes <- MCSizes
  MaxItems = 4
INVARIANTS OutcomesCounted DoneCountsDetailed
