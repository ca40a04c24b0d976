----------------------------- MODULE MCNcsCache -----------------------------
(* Instances of NcsCache for TLC. *)
EXTENDS NcsCache, TLC

\* Keys are interchangeable, and so are entries.
Symmetry == Permutations(Key) \cup Permutations(Entry)
=============================================================================
