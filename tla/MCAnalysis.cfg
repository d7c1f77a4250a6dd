CONSTANTS
  Txns = {t1, t2}
  Resources = {r1}
  MaxEffects = 1
  MaxWrites = 3
  Workers = {p1}
  None = None
  Faults = {"crash", "fail"}
SPECIFICATION AnalysisSpec
SYMMETRY Symmetry
INVARIANTS
  ReportTypeOK
  ReportExactAtRest
  AllClearIsHonest
