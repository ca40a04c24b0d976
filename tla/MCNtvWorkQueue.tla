--------------------------- MODULE MCNtvWorkQueue ---------------------------
(* An instance of NtvWorkQueue for TLC.  No symmetry: the run checks         *)
(* liveness.                                                                 *)
EXTENDS NtvWorkQueue
=============================================================================
