\* Three requests whose replies and a notice can meet in the buffer, and a third
\* connection to outlive two coroutines.
SPECIFICATION ThinkSpec
CONSTANTS
  Requests = {r1, r2, r3}
  Notices = {n1}
  MaxConnections = 3
  villager = villager
  pest = pest
  Npcs = {villager, pest}
  npcOf <- MCNpcOf
SYMMETRY Symmetry
INVARIANTS
  CurrentIsLatest
  OwnRepliesBeforeReconnect
  AnsweredOnce
  ThinksOfSomething
\* Requests and connections are bounded, and a closed link stays closed.
CHECK_DEADLOCK FALSE
