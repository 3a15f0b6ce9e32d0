---------------------------- MODULE MCSimilarity ----------------------------
(* An instance of Similarity for TLC. *)
EXTENDS Similarity

CONSTANTS n1, n2, n3, n4, n5

\* A chain in which neighbours are similar (cosines .95 and .89) and the ends
\* are not (.71), an opposite, zeros, and a vector of another length.
Chain == {<<1, 0>>, <<3, 1>>, <<1, 1>>, <<-1, 0>>, <<0, 0>>, <<1>>}

Symmetry == Permutations(Nodes)
=============================================================================
