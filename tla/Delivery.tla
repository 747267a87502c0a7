------------------------------ MODULE Delivery ------------------------------
(***************************************************************************)
(* What a subscription promises the trace: its notifications arrive once,  *)
(* in order and without a gap, or the subscription is known to have lost   *)
(* some and is replaced by a new one, which reports every value afresh.    *)
(***************************************************************************)
EXTENDS Naturals

VARIABLES
    sent,   \* notifications the subscription has sent
    top,    \* the last one delivered
    lossy   \* one is known to be lost

vars == <<sent, top, lossy>>

Init == sent = 0 /\ top = 0 /\ lossy = FALSE

Send == sent' = sent + 1 /\ UNCHANGED <<top, lossy>>

\* The next one, or a later one once the loss is known.
Deliver ==
    /\ top' \in (top + 1) .. sent
    /\ lossy' \in {lossy, TRUE}
    /\ top' = top + 1 \/ lossy'
    /\ UNCHANGED sent

Lose == lossy' = TRUE /\ UNCHANGED <<sent, top>>

Replace == sent' = 0 /\ top' = 0 /\ lossy' = FALSE

Next == Send \/ Deliver \/ Lose \/ Replace

Spec == Init /\ [][Next]_vars
=============================================================================
