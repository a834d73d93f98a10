------------------------------ MODULE MCResults -------------------------------
(* Every result of up to MaxRows rows of every kind, called for and freed  *)
(* over and over.  No action reads the last call, so it is left out of the *)
(* view; the properties see it in the step that sets it.                   *)
EXTENDS ResultCalls, TLC

View == vars
=============================================================================
