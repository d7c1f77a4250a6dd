CONSTANTS
  Txns = {t1}
  Resources = {r1, r2}
  MaxEffects = 1
  Workers = {p1, p2}
  None = None
  Faults = {"crash", "fail", "lost_reply"}
SPECIFICATION Spec
SYMMETRY Symmetry
INVARIANTS
  TypeOK
  OutcomeFollowsDecision
  CommitRequiresYes
  ToldMatchesLog
  TerminalIsComplete
  HolderGoesOn
PROPERTIES
  Atomic
  CountersFollowFinals
