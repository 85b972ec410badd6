------------------------------- MODULE MCGuide -------------------------------
(* Guide with its places and markers as model values.                        *)
EXTENDS Guide
=============================================================================
