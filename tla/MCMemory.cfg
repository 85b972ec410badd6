\* Two turns that may serve one player, four notes, of which a scroll sees three
\* and a batch takes two, and two failures or restarts.
SPECIFICATION Spec
CONSTANTS
  Turns = {t1, t2}
  Players = {"p1", "p2"}
  MaxSaid = 4
  MaxFaults = 2
  Threshold = 2
  BatchSize = 2
  ScrollLimit = 3
INVARIANTS
  KnowsWhatItSaid
  NothingForgottenUntold
PROPERTY
  BacklogCompressed
CHECK_DEADLOCK FALSE
