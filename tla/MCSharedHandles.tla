--------------------------- MODULE MCSharedHandles ----------------------------
(* Two threads, so that one waits for a value that the other makes, or     *)
(* both run calls on one table while the client frees; two queries of that *)
(* table, made and freed over and over; two addresses, so that a second    *)
(* URI string could be made.  No action reads the last call, so it is left *)
(* out of the view; CallsAreAtomic sees it in the step that sets it.       *)
EXTENDS SharedCalls, TLC

View == vars
=============================================================================
