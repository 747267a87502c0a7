----------------------------- MODULE MCSession -----------------------------
(***************************************************************************)
(* Session for TLC: three targets at two intervals, one of them of variant *)
(* type in the configurations that say so.                                 *)
(***************************************************************************)
EXTENDS Session, TLC

CONSTANTS t1, t2, t3, fast, slow

MCIntervalOf == [t \in Targets |-> IF t = t2 THEN slow ELSE fast]

\* Of two targets, each at its own interval, none comes first.
Exchanges ==
    {p \in Permutations({t1, t2, fast, slow}) :
        /\ {p[t1], p[t2]} = {t1, t2}
        /\ p[fast] = IF p[t1] = t1 THEN fast ELSE slow}
=============================================================================
