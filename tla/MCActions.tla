----------------------------- MODULE MCActions -----------------------------
(* Two calls of every kind of write, or a read, by name or by id. *)
EXTENDS Actions

CONSTANTS c1, c2

ByName(ask) == [write |-> TRUE, byName |-> TRUE, mapped |-> TRUE, ask |-> ask, parses |-> TRUE]
ById(mapped) == [ByName(FALSE) EXCEPT !.byName = FALSE, !.mapped = mapped]
MCOperations ==
    {ByName(TRUE), ByName(FALSE), ById(TRUE), ById(FALSE),
     [ById(TRUE) EXCEPT !.parses = FALSE], [ById(FALSE) EXCEPT !.write = FALSE]}
=============================================================================
