SPECIFICATION Spec
CONSTANTS
  Effect = {"send", "mute"}
  Key = {k1, k2}
  NoKey = NoKey
  Descriptor <- MCDescriptor
  Caller = {c1, c2}
  MaxTime = 2
SYMMETRY MCSymmetry
CHECK_DEADLOCK FALSE
INVARIANTS AcknowledgedMeansRun
