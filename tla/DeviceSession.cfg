SPECIFICATION Spec
CONSTANTS
  Session = {s1, s2}
  Scripts <- MCScripts
  Imports <- MCImports
  Payloads <- MCPayloads
  MaxSeq = 2
  MaxSigned = 1
  Foreign = {2}
  MaxPolls = 4
  MaxCalls = 2
SYMMETRY MCSymmetry
CHECK_DEADLOCK FALSE
INVARIANTS SentIsAcknowledged PolledWithoutGap RunningIsStarted
