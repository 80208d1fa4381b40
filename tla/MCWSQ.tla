--------------------------------- MODULE MCWSQ ---------------------------------
(***************************************************************************)
(* The work-stealing queue with its history, for TLC.  The thieves are     *)
(* interchangeable, and every property checked treats them alike.          *)
(***************************************************************************)
EXTENDS WSQHistory, TLC

Symmetry == Permutations(Thieves)
===============================================================================
