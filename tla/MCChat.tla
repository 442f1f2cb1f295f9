------------------------------- MODULE MCChat -------------------------------
(* The chat server for TLC: clients and blocks are interchangeable.        *)
EXTENDS Chat

Symmetry == Permutations(Clients) \cup Permutations(Blocks)

=============================================================================
