CONSTANTS
  Txns = {t1}
  Resources = {r1, r2}
  MaxEffects = 1
  Workers = {p1}
  None = None
  Faults = {}
SPECIFICATION DurabilitySpec
SYMMETRY Symmetry
INVARIANTS
  OutcomeFollowsDecision
  DiskStands
PROPERTIES
  ServeAfterRecovery
  AtomicBetweenLosses
