------------------------------ MODULE MCRequests ------------------------------
(* Ints and rates on both sides of zero, and a rate no u32 holds.  Names   *)
(* and paths that contain a marker of each kind, or only one that a path   *)
(* in a bucket may well contain.                                           *)
EXTENDS Requests

MCInts == {-1, 0, 2}

MCQuotable == NamespaceMarkers \cup {NAMESPACE_CONNECT_FAILED, "AccessDenied", "NoSuchBucket"}

MCPathMarkers == {"AccessDenied"}

MCRates == {NaN, -1, 0, 1, 3, 20}
=============================================================================
