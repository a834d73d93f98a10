--------------------------- MODULE MCTableMetadata ---------------------------
(* Two threads, two local handles of one table that they share, and a      *)
(* remote one.                                                             *)
EXTENDS TableMetadata, TLC

Symmetry == Permutations(Thread) \cup Permutations(Key)

=============================================================================
