CONSTANTS
  s1 = s1
  g1 = g1
  g2 = g2
  m1 = m1
  m2 = m2
  Slices = {s1}
  Guards = {g1, g2}
  NoSlice = NoSlice
  Models = {m1, m2}
  ModelOf <- OneModel
  InitKept = {s1}
  Events = {"leave", "join", "contribute", "chain", "signal", "crash", "savefail"}
SPECIFICATION FairSpec
INVARIANTS CountsAreExact StoppedMeansIdle RecordedLeaveSurvives
PROPERTIES RecordedLeaveHonoured LifecycleSpec DrainEnds ShutdownEnds
