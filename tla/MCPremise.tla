----------------------------- MODULE MCPremise -----------------------------
(* Premise has no constants: the whole space of calls and facts is checked.*)
EXTENDS Premise
==============================================================================
