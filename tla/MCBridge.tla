------------------------------- MODULE MCBridge -------------------------------
(* The bridge and the thinking mark, with messages as model values.          *)
EXTENDS Thinking, TLC
CONSTANTS villager, pest

\* Every player asks the same villager; notices are of Pest.
MCNpcOf == [m \in Messages |-> IF m \in Requests THEN villager ELSE pest]

\* Requests ask the same NPC and are interchangeable.
Symmetry == Permutations(Requests)
=============================================================================
