------------------------------ MODULE MCSetup ------------------------------
(***************************************************************************)
(* Setup for TLC: every form of one server against every offer; and a      *)
(* probe, or a form of two servers, on two servers that share the PKI.     *)
(***************************************************************************)
EXTENDS Setup, TLC

Hosts == {"here", "beside", "remote"}
MCUrls == {"", "bad"} \cup Hosts \cup {h \o "/ua" : h \in Hosts}
MCPaths == {"", "/ua"}
MCAtPath == [u \in Hosts, p \in MCPaths |-> u \o p]
MCHostName == [u \in MCUrls |-> IF u \in {"here", "beside", "here/ua", "beside/ua"} THEN "here" ELSE u]
Labels == {"", "PLC", "PLC.", "PLC_2", "log", "here", "remote"}
Numbering == {n \o "_" \o ToString(k) : n \in Labels, k \in 2 .. 4}
MCTraceName == [n \in Labels \cup Numbering |-> IF n = "PLC." THEN "PLC" ELSE n]
MCNumbered == [n \in Labels, k \in 2 .. 4 |-> n \o "_" \o ToString(k)]
MCPolicies == <<"Aes256", "Basic256">>
MCProbed == <<"here", "beside", "remote">>

Tcp(m, p) == [over |-> "opc.tcp", mode |-> m, policy |-> p]
Elsewhere(m, p) == [Tcp(m, p) EXCEPT !.over = "https"]
SignOrNone == {Tcp("None", "None"), Tcp("Sign", "Basic256")}
Offerings == {{Tcp("None", "None")}, SignOrNone, {Tcp("Sign", "Basic128")},
              {Tcp("None", "None"), Elsewhere("Sign", "Basic256")},
              {Tcp("SignAndEncrypt", "Basic256"), Tcp("Sign", "Aes256"), Tcp("Sign", "Basic256")}}
Advanced(m, p, user, identity) == [mode |-> m, policy |-> p, user |-> user, identity |-> identity]
Plain == [name |-> "", url |-> "here", mode |-> "default", policy |-> "default", user |-> "none",
          strict |-> FALSE, pinned |-> <<>>, allowExpired |-> FALSE]
Entry(m, p) == [Plain EXCEPT !.mode = m, !.policy = p]

Securities == {Advanced("None", "None", "none", "generated"),
               Advanced("Sign", "Basic256", "none", "generated"),
               Advanced("Sign", "None", "none", "generated"),
               Advanced("Sign", "Aes256", "pair", "generated")}

OneServer ==
    {[advanced |-> a, servers |-> <<e>>] : a \in Securities,
        e \in {Entry("default", "default"), Entry("default", "Aes256"), Entry("None", "default"),
               Entry("Sign", "default"), Entry("Sign", "Basic256"),
               [Plain EXCEPT !.strict = TRUE, !.pinned = <<"s1", 1>>], [Plain EXCEPT !.strict = TRUE],
               [Plain EXCEPT !.allowExpired = TRUE], [Plain EXCEPT !.user = "half"],
               [Plain EXCEPT !.url = "bad"], [Plain EXCEPT !.url = ""], [Plain EXCEPT !.name = "log"]}}
\* The first certificate of the first server runs out, where it matters; the second of it has.
World(at, offers, label, tokens, ends) ==
    [at |-> at, offers |-> offers, label |-> label, path |-> ("s1" :> "/ua") @@ ("s2" :> ""),
     tokens |-> tokens, stale |-> {<<"s1", 2>>}, ending |-> IF ends THEN {<<"s1", 1>>} ELSE {}]

\* The path the first server publishes may lead nowhere.
Reaching(beside, remote, published) == [u \in MCUrls |->
    CASE u = "here" -> "s1" [] u = "here/ua" -> published [] u \in {"beside", "beside/ua"} -> beside
      [] u \in {"remote", "remote/ua"} -> remote [] u = "" -> "other" [] OTHER -> "nothing"]
Both(x, y) == ("s1" :> x) @@ ("s2" :> y)

Two == {[advanced |-> a, servers |-> s] :
            a \in {b \in Securities : b.user = "none"},
            s \in {<<>>, <<Plain, [Plain EXCEPT !.url = "remote"]>>,
                   <<Plain, [Plain EXCEPT !.url = "beside"]>>}}

Offering == {Both(o, SignOrNone) : o \in Offerings}
RunsOut(f, offers) ==
    offers["s1"] = SignOrNone /\ f.advanced = Advanced("Sign", "Basic256", "none", "generated")

\* A user certificate is accepted by no server, or by the first.
Alone == {[form |-> f, world |-> World(Reaching("nothing", "s2", "s1"), o, Both("PLC", "PLC."), t, RunsOut(f, o))] :
            f \in OneServer, o \in Offering, t \in {{}, {"s1"}}}
\* The second server beside the first, remote, or not at all; labels that collide or are reserved.
Reached == {Reaching("nothing", "s2", "s1"), Reaching("s2", "s1", "s1"), Reaching("other", "s1", "nothing")}
Labelling == {Both("PLC", "PLC."), Both("PLC", ""), Both("log", "PLC_2")}
Together == {[form |-> f, world |-> World(r, o, l, {}, FALSE)] :
            f \in Two, r \in Reached, l \in Labelling, o \in {p \in Offering : p["s1"] # p["s2"]}}

MCSituations == {s \in Alone : s.world.tokens = {} \/ s.form.advanced.user = "pair"} \cup Together
=============================================================================
