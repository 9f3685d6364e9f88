-------------------------------- MODULE Ranks -------------------------------
(***************************************************************************)
(* Finite sets of numbers in ascending order: what iterating over a        *)
(* collection kept in id order, and Vec::retain, come to.                  *)
(***************************************************************************)
EXTENDS Naturals, FiniteSets

Below(x, S) == {y \in S : y < x}
(* The n-th smallest member.                                               *)
Nth(S, n) == CHOOSE x \in S : Cardinality(Below(x, S)) = n - 1
(* What a sequence has at the positions in S, in order.                    *)
Retain(seq, S) == [n \in 1..Cardinality(S) |-> seq[Nth(S, n)]]
=============================================================================
