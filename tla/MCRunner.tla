------------------------------ MODULE MCRunner ------------------------------
(* Two servers: one may connect, or drop, while the other is still connecting. *)
EXTENDS Runner

CONSTANTS press, oven
=============================================================================
