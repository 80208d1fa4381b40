--------------------------- MODULE MCStaticVector ---------------------------
(* StaticVector with capacity 4, so that an insertion can move more elements *)
(* than it inserts; the lists are shorter, as long as and longer than what    *)
(* fits.  The default-constructed element is one of the values.              *)
EXTENDS StaticVector, TLC

CONSTANTS a, b

MCLists == {<<>>, <<b>>, <<b, a>>, <<a, b, b>>, <<b, a, b, a, b>>}

VectorSymmetry == Permutations(Vectors)
=============================================================================
