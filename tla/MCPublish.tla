------------------------------ MODULE MCPublish ------------------------------
(* Publish with a queue, a Republish limit and gaps that exceed both. *)
EXTENDS Publish
=============================================================================
