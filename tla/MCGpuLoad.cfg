\* Three dialogues and two background calls on two slots, of which background
\* work gets one: two dialogues sleep together, newcomers of either kind overtake
\* them, and a lost wakeup leaves one beside a free slot.  Of two turns of Pest one
\* is abandoned while the other runs.  No symmetry, for the sake of liveness.
SPECIFICATION LoadFairSpec
CONSTANTS
  DialogueClients = {d1, d2, d3}
  AmbientClients = {a1, a2}
  MaxSlots = 2
  AmbientMaxInFlight = 1
  Turns = {t1, t2}
  MaxSteps = 1
INVARIANTS
  SlotsConserved
  AmbientCapped
  OneTurnAwaited
  LoadBounded
PROPERTIES
  LeaseSpec
  EveryRequestAnswered
  EveryTurnAnswered
