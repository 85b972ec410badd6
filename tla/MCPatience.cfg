\* Two requests to one NPC and one to another.  The orchestrator may answer after
\* the sweep has given the callback up: its patience is a second more than Ttl.
SPECIFICATION PatienceSpec
CONSTANTS
  Requests = {r1, r2, r3}
  apart = r3
  villager = villager
  other = other
  Npcs = {villager, other}
  npcOf <- MCNpcOf
  Ttl = 3
  DialogueWait = 1
  DialogueCall = 3
  Absent = Absent
INVARIANTS
  StaleRemoved
  ThinksWhileAsked
