\* Two operations at a time, and a topic more than they could open at once.
SPECIFICATION Spec
CONSTANTS
  Tasks = {k1, k2}
  Topics = {s1, s2, s3}
  MaxMentions = 2
SYMMETRY Symmetry
INVARIANTS
  OpenBounded
  MentionsBounded
