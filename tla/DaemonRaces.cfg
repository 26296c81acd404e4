CONSTANTS
  s1 = s1
  s2 = s2
  g1 = g1
  m1 = m1
  m2 = m2
  Slices = {s1, s2}
  Guards = {g1}
  NoSlice = NoSlice
  Models = {m1, m2}
  ModelOf <- OneModel
  InitKept = {s1, s2}
  Events = {"leave", "chain", "signal"}
SPECIFICATION Spec
INVARIANTS OneRecordUntilAnnouncedAnew RecordedLeaveSurvives
PROPERTY NoDrainCancelled
SYMMETRY Interchangeable
