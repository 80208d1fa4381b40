--------------------------------- MODULE MCCore ---------------------------------
(***************************************************************************)
(* Core for TLC: two mice of one model, and another model by their vendor. *)
(***************************************************************************)
EXTENDS Core

MCVendor == [m \in Mice |-> 1]
MCProduct == [m \in Mice |-> IF m = "m3" THEN 3 ELSE 2]
===============================================================================
