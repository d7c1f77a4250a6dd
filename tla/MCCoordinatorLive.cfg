CONSTANTS
  Txns = {t1, t2}
  Resources = {r1}
  MaxEffects = 2
  Workers = {p1}
  None = None
  Faults = {"crash", "fail"}
SPECIFICATION LiveSpec
INVARIANTS
  HandlesInSync
PROPERTIES
  StartupCompletes
  InDoubtResolved
