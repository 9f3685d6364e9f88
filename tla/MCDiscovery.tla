---------------------------- MODULE MCDiscovery -----------------------------
(* Discovery as the configurations instantiate it.  Names have no order: a  *)
(* directory gives them in any.                                            *)
EXTENDS DiscoveryInv

Symmetry == Permutations(Paths)
=============================================================================
