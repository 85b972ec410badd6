------------------------------- MODULE MCSkills -------------------------------
(* Skills with two drafts, both of Pest.                                     *)
EXTENDS Skills

MCDrafts == {<<1, "Pest">>, <<2, "Pest">>}
=============================================================================
