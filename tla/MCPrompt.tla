------------------------------- MODULE MCPrompt -------------------------------
(* Prompt with caps small enough to bite.                                    *)
EXTENDS Prompt

MCCaps == <<2, 2, 1>>
MCCompanionCaps == <<3, 3, 1>>
=============================================================================
