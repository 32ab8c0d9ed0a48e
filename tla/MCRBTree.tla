------------------------------ MODULE MCRBTree ------------------------------
EXTENDS RBTree

MCNode == 1 .. 8

\* Eight nodes with six keys, two of which occur twice.
MCKey == [n \in MCNode |-> CASE n <= 2 -> 1 [] n <= 5 -> n - 1 [] OTHER -> n - 2]
=============================================================================
