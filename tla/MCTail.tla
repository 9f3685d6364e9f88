------------------------------- MODULE MCTail -------------------------------
(* Instances of Tail for TLC; the bounds are in the .cfg files.            *)
EXTENDS TailInv
=============================================================================
