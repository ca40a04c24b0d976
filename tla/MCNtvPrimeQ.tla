---------------------------- MODULE MCNtvPrimeQ ----------------------------
(* An instance of NtvPrimeQ for TLC. *)
EXTENDS NtvPrimeQ

\* One fragment in block 1, after which a batch has room for one more thread;
\* one in each of blocks 2 and 3, which are more than a cache of one block.
TwoAsks == {<<1, 0, 0>>, <<0, 1, 1>>}
=============================================================================
