------------------------- MODULE MCCheckpointBundle -------------------------
(* The checkpoint bundle needs no definitions for TLC beyond its constants. *)
EXTENDS CheckpointBundle
=============================================================================
