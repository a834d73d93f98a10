------------------------------- MODULE LanceDB -------------------------------
(***************************************************************************)
(* The whole C API as one client sees it: any entry point in Calls, in any *)
(* order, with any handle the client holds.                                *)
(***************************************************************************)
EXTENDS ConnectionApi, TableApi, ExprApi, QueryApi

Next == ConnectionNext \/ TableNext \/ ExprNext \/ QueryNext \/ FreeString

Spec == Init /\ [][Next]_vars
=============================================================================
