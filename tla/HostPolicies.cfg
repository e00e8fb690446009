SPECIFICATION Spec
CONSTANTS
  OutputEnvelopes <- MCOutputEnvelopes
  CountMax = 7
  WordMax = 1700
  BeatsPerBar = 4
  MinuteMillis = 60
CHECK_DEADLOCK FALSE
INVARIANTS PinnedNeverSilent DelayExact ShapesConsistent ManifestResolves
