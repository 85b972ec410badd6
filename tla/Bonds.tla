-------------------------------- MODULE Bonds --------------------------------
(***************************************************************************)
(* What the taming store promises, whatever its queries interleave with:   *)
(* an NPC bonds with at most one player, a player with at most one NPC,    *)
(* in one indivisible step, and for good.                                  *)
(***************************************************************************)
CONSTANTS Npcs, Players, NoOne

VARIABLE owner

Init == owner = [n \in Npcs |-> NoOne]

Bond(n, p) ==
  /\ owner[n] = NoOne
  /\ \A m \in Npcs : owner[m] # p
  /\ owner' = [owner EXCEPT ![n] = p]

Next == \E n \in Npcs, p \in Players : Bond(n, p)

Spec == Init /\ [][Next]_owner
=============================================================================
