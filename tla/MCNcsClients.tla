---------------------------- MODULE MCNcsClients ----------------------------
(* Instances of NcsClients for TLC. *)
EXTENDS NcsClients, TLC

CONSTANTS k1, k2

\* Clients and entries are interchangeable; the bursts tell keys apart.
Symmetry == Permutations(Client) \cup Permutations(Entry)

Query(k, id) == [key |-> k, id |-> id]

\* One query at a time.
Singles == {[full |-> <<Query(k, TRUE)>>, tail |-> 0] : k \in Key}

\* One query and the beginning of another, or two queries.
Bursts ==
    {[full |-> <<Query(k1, TRUE)>>, tail |-> 1],
     [full |-> <<Query(k1, FALSE), Query(k2, TRUE)>>, tail |-> 0]}

\* The same, and text that is not a query, or too long for one.
AllBursts ==
    Bursts \cup
    {[full |-> <<Query(k1, TRUE), BadXML>>, tail |-> 0], [full |-> <<>>, tail |-> 3]}
=============================================================================
