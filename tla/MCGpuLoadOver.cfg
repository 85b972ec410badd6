\* One dialogue slot more than the ambient cap, and as many messages to Pest
\* as it takes for two threads to be abandoned while a third runs.
SPECIFICATION LoadSpec
CONSTANTS
  DialogueClients = {d1, d2}
  AmbientClients = {a1}
  MaxSlots = 2
  AmbientMaxInFlight = 1
  Turns = {t1, t2, t3}
  MaxSteps = 2
SYMMETRY Symmetry
INVARIANT
  LoadWithinParallel
