------------------------------- MODULE GpuLoad -------------------------------
(***************************************************************************)
(* The two sources of load the orchestrator puts on the llama.cpp server,  *)
(* side by side: the dispatcher's slots (module Dispatcher) and the        *)
(* threads of Pest's brain (module PestTurns), which calls the server      *)
(* without the dispatcher.  They share nothing but the server, whose       *)
(* --parallel is MaxSlots + 1 (docker-compose.yml).                        *)
(***************************************************************************)
EXTENDS Dispatcher, PestTurns

loadVars == <<vars, pestVars>>

LoadInit == Init /\ PestInit

LoadNext ==
  \/ Next /\ UNCHANGED pestVars
  \/ PestNext /\ UNCHANGED vars

LoadSpec == LoadInit /\ [][LoadNext]_loadVars

\* One event loop runs both; the agent threads owe it nothing.
LoadFairSpec == LoadSpec /\ Fairness /\ PestFairness

\* Requests of the orchestrator running on the server.
Load == Cardinality(Calling) + Cardinality(Asking)

-----------------------------------------------------------------------------

\* What the two limits give together: the load exceeds the server's capacity
\* by no more than the agent threads whose turn timed out while they ran on.
LoadBounded == Load <= MaxSlots + 1 + Cardinality(Abandoned)

\* "the orchestrator itself never issues more than 6+1=7 concurrent requests
\* total - exactly matching this server's capacity" (docker-compose.yml).
\* Does not hold, see run gpu_overcommit.
LoadWithinParallel == Load <= MaxSlots + 1

=============================================================================
