----------------------------- MODULE MCSources -----------------------------
EXTENDS Sources, TLC

MCClients == {"plc", "peer"}

\* Two events, fields that come, go and change their datatype.
A(types) == "A" :> types
B(types) == "B" :> types
X(t) == "x" :> t
Y(t) == "y" :> t
MCMaps ==
    {A(X("f")), A(X("i")), A(X("f") @@ Y("f")), A(Y("i")), B(X("f")), A(X("f")) @@ B(Y("f")),
     A(Empty) @@ B(X("i"))}

MCSetups ==
    {[prefixed |-> p, discovery |-> ("plc" :> TRUE) @@ ("peer" :> (m = "discovers")),
      fixed |-> ("plc" :> Empty) @@
                ("peer" :> IF m = "mapped" THEN A(X("i") @@ Y("f")) ELSE Empty)] :
        p \in BOOLEAN, m \in {"discovers", "mapped", "raw"}}

Health == "state" :> "i"
Raw == "value" :> "f"
Log == "message" :> "s"
=============================================================================
