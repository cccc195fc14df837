------------------------------- MODULE MCRaft -------------------------------
(* Instances of Raft for model checking. *)
EXTENDS Raft

CONSTANTS n1, n2, n3

EveryTick == [n \in Member |-> 1]

\* Two candidates in the first term, a second leader, and the first one's return.
Rivalry == {<<n1, 1>>, <<n2, 1>>, <<n2, 2>>, <<n1, 3>>}

\* Only the second leader appends a second entry, and the third term is explored
\* from logs of one entry.
Explored ==
    \A n \in Member : Len(node[n].log) = 2 =>
        node[n].log[2].term = 2 /\ \A m \in Member : node[m].current_term <= 2

TwoRivals == {<<n1, 1>>, <<n2, 2>>}
=============================================================================
