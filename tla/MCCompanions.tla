----------------------------- MODULE MCCompanions -----------------------------
(* CompanionSync with two concurrent turns, two players, an ordinary NPC and *)
(* the two adventure NPCs.                                                   *)
EXTENDS CompanionSync, TLC

CONSTANTS t1, t2, p1, p2

MCNpcs == {"kweebec", "mori", "pest"}
MCRole == [n \in MCNpcs |-> IF n = "kweebec" THEN "wild" ELSE n]
MCSymmetry == Permutations({t1, t2}) \cup Permutations({p1, p2})
=============================================================================
