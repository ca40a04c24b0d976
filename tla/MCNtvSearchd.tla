---------------------------- MODULE MCNtvSearchd ----------------------------
(* An instance of NtvSearchd for TLC.  No symmetry: the run checks liveness. *)
EXTENDS NtvSearchd
=============================================================================
