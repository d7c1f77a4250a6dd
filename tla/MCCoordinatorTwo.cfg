CONSTANTS
  Txns = {t1, t2}
  Resources = {r1}
  MaxEffects = 2
  Workers = {p1, p2}
  None = None
  Faults = {"crash", "fail", "lost_reply"}
SPECIFICATION Spec
SYMMETRY Symmetry
INVARIANTS
  SnapshotsFresh
PROPERTIES
  ServeAfterRecovery
  RecoveryOnlyForward
  Atomic
