------------------------------ MODULE MCReads ------------------------------
(***************************************************************************)
(* Reads for TLC: its items are numbers, so the constants are in the cfg.  *)
(***************************************************************************)
EXTENDS Reads
=============================================================================
