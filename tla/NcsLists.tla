------------------------------ MODULE NcsLists ------------------------------
(***************************************************************************)
(* Taking elements out of a doubly linked list, which is a sequence here,  *)
(* and counting what the members of a table have between them.             *)
(***************************************************************************)
EXTENDS Integers, FiniteSets, SequencesExt

\* The members of A in ascending order.
InOrder(A) ==
    CHOOSE f \in [1 .. Cardinality(A) -> A] : \A i, j \in DOMAIN f : i < j => f[i] < f[j]

\* What q has at the places in A, and q without any x.
Picked(q, A) == [j \in 1 .. Cardinality(A) |-> q[InOrder(A)[j]]]
Without(q, x) == Picked(q, {i \in DOMAIN q : q[i] # x})

\* How often x is in q.
Occurrences(q, x) == Cardinality({i \in DOMAIN q : q[i] = x})

\* The members of the f[s], told apart by s.
OfAll(S, f) == UNION {{s} \X f[s] : s \in S}
=============================================================================
