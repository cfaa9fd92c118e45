------------------------------ MODULE MCVertexRing ------------------------------
(* Small instances of VertexRing. *)
EXTENDS VertexRing, TLC

CONSTANTS p, q

Both == BOOLEAN
PowersOfTwo == {4, 8, 16}
Symmetry   == Permutations(Addresses)
=============================================================================
