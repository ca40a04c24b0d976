--------------------------- MODULE MCNtvIndCache ---------------------------
(* The indexer on four words, one of them with frequencies. *)
EXTENDS NtvIndCache, TLC

Words == Permutations(Rec \ HasFreqs)
=============================================================================
