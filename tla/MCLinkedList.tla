---------------------------- MODULE MCLinkedList ----------------------------
(***************************************************************************)
(* Instances of LinkedList for TLC.                                        *)
(***************************************************************************)
EXTENDS LinkedList

\* malloc() may return any free address, and values are only compared.
Symmetry == Permutations(Nodes) \cup Permutations(Values)

=============================================================================
