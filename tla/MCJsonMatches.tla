---------------------------- MODULE MCJsonMatches ----------------------------
(* Up to three batches of up to two rows; a usize that four rows exceed.   *)
EXTENDS JsonMatches, TLC
=============================================================================
