---------------------------- MODULE MCPersonality ----------------------------
(* Personality with its tasks, players and occurrences as model values.      *)
EXTENDS Personality, TLC

Symmetry == Permutations(Tasks) \cup Permutations(Players) \cup Permutations(Ids)
=============================================================================
