------------------------------ MODULE MCStore ------------------------------
(***************************************************************************)
(* The instance of Store for TLC.  Ports are only compared and stored.     *)
(***************************************************************************)
EXTENDS Store

PortSymmetry == Permutations(Servers)

=============================================================================
