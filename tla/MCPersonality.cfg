\* Two operations at a time, of which the second may overtake the first, and a
\* third after them; a range that one nudge leaves at either end, and two
\* outcomes that move trust in opposite directions.
SPECIFICATION Spec
CONSTANTS
  Tasks = {k1, k2}
  Players = {p1, p2}
  Ids = {e1, e2, e3}
  Outcomes = {"player_was_kind", "player_lied_caught"}
  Baselines = {3}
  Floor = 1
  Ceil = 4
  Own = Own
  None = None
SYMMETRY Symmetry
INVARIANTS
  SidesWithBaseline
  LostOnlyToOverlap
  LoggedWasFelt
