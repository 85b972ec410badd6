------------------------------- MODULE MCMemory -------------------------------
(* Memory as it is; the configuration bounds it.                              *)
EXTENDS Memory
=============================================================================
