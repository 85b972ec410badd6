SPECIFICATION SyncSpec
CONSTANTS
  t1 = t1
  t2 = t2
  p1 = p1
  p2 = p2
  Turns = {t1, t2}
  Players = {p1, p2}
  Npcs <- MCNpcs
  Role <- MCRole
  NoOne = NoOne
SYMMETRY MCSymmetry
INVARIANTS
  CompanionClaimsHold
  AdventureBonded
  FollowsOwner
PROPERTIES
  ImplementsBonds
