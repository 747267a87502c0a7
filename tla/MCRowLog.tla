------------------------------ MODULE MCRowLog ------------------------------
(* Two nodes of one event, few stamps; and the values its nodes decode to, of a datatype of *)
(* four bits: every half, tenths and large ones. *)
EXTENDS RowLog, Codec

CONSTANTS n1, n2, v1, v2

MCNumbers == {[n |-> i, d |-> d] : i \in -40 .. 40, d \in {1, 2, 10}}
MCLow == -8
MCScales == {[n |-> i, d |-> d] : i \in {-3, -1, 0, 1, 2, 10}, d \in {1, 2, 10}}
=============================================================================
