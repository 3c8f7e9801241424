--------------------------- MODULE MCSessionStorage ---------------------------
(* Instances of SessionStorage for TLC. *)
EXTENDS SessionStorage, TLC

TwoEach == [a \in Area |-> 2]

Symmetry == Permutations(Call)
=============================================================================
