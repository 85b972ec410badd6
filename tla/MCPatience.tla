------------------------------- MODULE MCPatience -------------------------------
(* Patience with requests as model values.                                   *)
EXTENDS Patience
CONSTANTS villager, other

\* All requests but one are for the same NPC.
CONSTANT apart
MCNpcOf == [r \in Requests |-> IF r = apart THEN other ELSE villager]
=============================================================================
