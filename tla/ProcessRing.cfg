\* Three slots: a window can wrap with room on both sides of head.  Counters
\* saturate at four, so both sides of every saturation point are reached.
CONSTANTS
  Item = {a, b}
  None = None
  Capacity = 3
  StatMax = 4
SPECIFICATION Spec
INVARIANTS WindowFilled Conservation
PROPERTIES ImplementsFifo CancelDrains
