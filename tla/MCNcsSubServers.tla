-------------------------- MODULE MCNcsSubServers --------------------------
(* Instances of NcsSubServers for TLC. *)
EXTENDS NcsSubServers

CONSTANTS s1, s2

\* A server that takes one query at a time, and one that takes two.
TwoServers == <<s1, s2>>
OneAndTwo == [s \in {s1, s2} |-> IF s = s1 THEN 1 ELSE 2]
=============================================================================
