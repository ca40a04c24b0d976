-------------------------- MODULE MCNtvMaintenance --------------------------
(* Mail that arrives while one run after another goes wrong. *)
EXTENDS NtvMaintenance, TLC

Symmetry == Permutations(Mail)
=============================================================================
