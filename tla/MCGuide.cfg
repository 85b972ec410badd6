\* Two places, so that a session can be replaced, and a marker more than one
\* session and one abandoned one need.  No symmetry, for the sake of liveness.
SPECIFICATION FairSpec
CONSTANTS
  Places = {water, ruins}
  Markers = {m1, m2, m3}
  Far = 2
  None = None
  Failed = Failed
INVARIANTS
  MarkersAccounted
PROPERTIES
  MarkedOnce
  
  EveryGuideEnds
