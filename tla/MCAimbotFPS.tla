------------------------------ MODULE MCAimbotFPS ------------------------------
(***************************************************************************)
(* AimbotFPS for TLC: the workers are interchangeable, and so are the      *)
(* buffers; every invariant checked treats them alike.                     *)
(***************************************************************************)
EXTENDS AimbotFPS, TLC

Symmetry == Permutations(Workers) \cup Permutations(Buffers)
===============================================================================
