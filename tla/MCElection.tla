----------------------------- MODULE MCElection -----------------------------
(***************************************************************************)
(* Instances of Election for TLC.                                          *)
(***************************************************************************)
EXTENDS Election, TLC

\* Ports are compared and stored, nothing else.
PortSymmetry == Permutations(Servers)

=============================================================================
