------------------------------ MODULE MCGpuLoad ------------------------------
EXTENDS GpuLoad

Symmetry ==
  Permutations(DialogueClients) \cup Permutations(AmbientClients)
    \cup Permutations(Turns)

=============================================================================
