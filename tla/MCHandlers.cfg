CONSTANTS
  Txns = {t1}
  Resources = {r1, r2}
  MaxEffects = 1
  Workers = {p1}
  Reader = reader
  None = None
  Faults = {"crash", "fail"}
SPECIFICATION HandlersSpec
SYMMETRY Symmetry
INVARIANTS
  ReadersTypeOK
  TxnAnswerConsistent
  StatsAddUp
  OwnVoteInForce
  BegunAsAsked
  ListsFoundTxn
PROPERTIES
  PreviewComesTrue
