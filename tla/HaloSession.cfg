SPECIFICATION FairSpec
CONSTANTS
  Cell = {1, 2, 3}
  Glyph = {"a", "b", "wide"}
  Blank = "blank"
  Frames <- MCFrames
  Size <- MCSize
  Budget = 6
  Scripts <- MCScripts
  MaxChanges = 3
CHECK_DEADLOCK FALSE
INVARIANTS WithinBudget UrgentFirst PolledInOrder
PROPERTIES DeferredIsRemaining Settles
