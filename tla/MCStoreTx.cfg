CONSTANTS
  Txns = {t1, t2}
  Resources = {r1}
  MaxEffects = 2
  MaxNames = 2
SPECIFICATION StoreTxSpec
SYMMETRY Symmetry
INVARIANTS
  StoreTypeOK
  LedgerMatchesFinals
  NoOrphanRows
  DecisionLogAgrees
  ActiveResourcesRegistered
PROPERTIES
  DecisionImmutable
  CountersFollowFinals
  AllOrNothing
  BeginsAsListed
