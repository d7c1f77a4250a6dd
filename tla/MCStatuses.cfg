CONSTANTS
  Txns = {t1}
  Resources = {r1}
  MaxEffects = 1
  Workers = {p1}
  Reader = reader
  None = None
  Faults = {"fail"}
SPECIFICATION HandlersSpec
INVARIANTS
  StatusAsDocumented
