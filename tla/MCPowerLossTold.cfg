CONSTANTS
  Txns = {t1}
  Resources = {r1}
  MaxEffects = 1
  Workers = {p1}
  None = None
  Faults = {}
SPECIFICATION DurabilitySpec
INVARIANTS
  PreparingUntold
