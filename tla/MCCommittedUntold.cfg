CONSTANTS
  Txns = {t1}
  Resources = {r1}
  MaxEffects = 1
  Workers = {p1, p2}
  None = None
  Faults = {}
SPECIFICATION Spec
INVARIANTS
  CommittedImpliesTold
