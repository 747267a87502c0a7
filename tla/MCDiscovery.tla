---------------------------- MODULE MCDiscovery ----------------------------
(***************************************************************************)
(* Discovery for TLC, on three families of servers: address spaces of two  *)
(* objects and two Variables with shared and cyclic references, under      *)
(* every filter, page and continuation-point limit of interest; flat ones  *)
(* whose Variables differ in what a read returns; flat ones whose names    *)
(* collide.                                                                *)
(***************************************************************************)
EXTENDS Discovery

MCRoot == "objects"
MCServerNode == "server"
MCEU == "EngineeringUnits"
MCHidden == {"_System"}
MCNodes == {"objects", "server", "a", "b", "v", "w", "x", "u", "s"}
MCNames == {"Objects", "Server", "A", "B", "V", "W", "X", "V.", "V1", MCEU, "_System"}
MCSane == [n \in MCNames |->
    CASE n = "V." -> <<"V">> [] n = "V1" -> <<"V", "h1">> [] OTHER -> <<n>>]
MCHash6 == [n \in MCNodes |-> IF n \in {"v", "w"} THEN "h1" ELSE "h2"]
MCHash10 == [n \in MCNodes |-> n]

Child(n) == [to |-> n, kind |-> "child"]
Property(n) == [to |-> n, kind |-> "property"]
Remote(n) == [to |-> n, kind |-> "remote"]

Good == [DataType |-> "Double", ValueRank |-> "Scalar", AccessLevel |-> "CurrentRead",
         Value |-> "Double"]
Units == [Good EXCEPT !.Value = "degC"]

Plain ==
    [refs |-> [n \in MCNodes |-> CASE n = "objects" -> <<Child("v"), Child("w"), Child("x")>>
                                   [] n = "w" -> <<Property("u")>>
                                   [] OTHER -> <<>>],
     name |-> [n \in MCNodes |->
        CASE n = "objects" -> "Objects" [] n = "server" -> "Server" [] n = "a" -> "A" [] n = "b" -> "B"
          [] n = "v" -> "V" [] n = "w" -> "W" [] n = "x" -> "X" [] n = "u" -> MCEU
          [] OTHER -> "_System"],
     class |-> [n \in MCNodes |->
        CASE n \in {"objects", "server", "a", "b", "s"} -> "Object" [] OTHER -> "Variable"],
     include |-> {}, exclude |-> {}, maxBrowse |-> 0, maxRead |-> 2, page |-> 2, points |-> 1, faults |-> 0,
     attrs |-> [n \in MCNodes |-> IF n = "u" THEN Units ELSE Good], units |-> {"degC"},
     super |-> [t \in {"T1", "T2", "T3", "T4"} |->
        CASE t = "T1" -> "Int64" [] t = "T2" -> "T1" [] t = "T3" -> "T2" [] OTHER -> None],
     namespaces |-> <<"ua", "urn", "plc">>,
     ns |-> [n \in MCNodes |-> CASE n = "v" -> 1 [] n = "w" -> 2 [] n = "x" -> 3 [] OTHER -> 0],
     vendor |-> [n \in MCNodes |-> <<>>]]

\* The references between two objects and two Variables, and one to each thing not followed.
Edges == {<<"objects", "b">>, <<"objects", "v">>, <<"a", "b">>, <<"a", "v">>, <<"b", "a">>,
          <<"b", "v">>, <<"b", "w">>}
Space(edges) ==
    [n \in MCNodes |->
        LET own == SelectSeq(<<"a", "b", "v", "w">>, LAMBDA m : <<n, m>> \in edges)
        IN  IF n = "objects" THEN <<Child("server"), Child("s"), Child("a"), Remote("w")>>
                                    \o [i \in DOMAIN own |-> Child(own[i])]
            ELSE [i \in DOMAIN own |-> Child(own[i])]]
Filters == {[include |-> {}, exclude |-> {}],
            [include |-> {<<<<"A">>>>}, exclude |-> {}],
            [include |-> {<<<<"**">>, <<"V">>>>}, exclude |-> {}],
            [include |-> {<<<<"*">>, <<"B">>>>}, exclude |-> {<<<<"**">>, <<"W">>>>}],
            [include |-> {}, exclude |-> {<<<<"A">>, <<"V">>>>}]}
Limits == {[page |-> 1, points |-> 1, browse |-> 2], [page |-> 3, points |-> 0, browse |-> 0]}
Spaces == {[Plain EXCEPT !.refs = Space(edges), !.include = f.include, !.exclude = f.exclude,
                         !.page = l.page, !.points = l.points, !.maxBrowse = l.browse,
                         !.faults = 1] :
              edges \in {e \cup {<<"a", "w">>, <<"v", "w">>} : e \in SUBSET Edges}, f \in Filters, l \in Limits}

\* What the reads of a Variable return.
Kinds == {Good} \cup
    {[Good EXCEPT !.DataType = d, !.ValueRank = r, !.Value = x] :
        d \in {"T3", "T4", "BaseDataType", "Number", "Structure"}, r \in {"Scalar", "Any"},
        x \in {"Int32", "List", None, Garbled}}
    \cup {[Good EXCEPT !.AccessLevel = "CurrentWrite"], [Good EXCEPT !.ValueRank = "OneDimension"],
          [Good EXCEPT !.DataType = Garbled], [Good EXCEPT !.ValueRank = None, !.AccessLevel = None]}
\* One of each kind beside one whose reads move what follows it.
Others == {k \in Kinds : k.DataType \in {"T3", "Double"}}
Readings == {[Plain EXCEPT !.attrs = [@ EXCEPT !["v"] = k, !["w"] = l], !.maxRead = m] :
                k \in Others, l \in Kinds, m \in {1, 4}}

\* Names that collide, plain, after sanitising, with a hash or a vendor's.
Collisions == {[Plain EXCEPT !.name = [@ EXCEPT !["v"] = p, !["w"] = q, !["x"] = r],
                             !.vendor = [@ EXCEPT !["x"] = vendor]] :
                  p, q, r \in {"V", "V.", "V1"}, vendor \in {<<>>, <<"A", "V">>, <<"Objects", "V">>}}

MCServers == Spaces \cup Readings \cup Collisions

\* PathFilter: a branch is browsed exactly when some path at or below it can match.
ASSUME BelowIsExact ==
    \A pattern \in SeqOf({<<"A">>, <<"B">>, AnySegment, AnyPath}, 3), path \in SeqOf({<<"A">>, <<"B">>}, 2) :
        Below(pattern, path) <=>
            \E rest \in SeqOf({<<"A">>, <<"B">>}, 3) : Match(pattern, path \o rest)

\* to_dict leaves the scale out: a map that has one is not the map its file is read back to.
Scaled == "E" :> {[id |-> NodeIdString("v", 0, <<>>), name |-> <<"V">>, datatype |-> "int32",
                   unit |-> "", scale |-> 2, writable |-> FALSE]}
ASSUME ToDictDropsScale == FromDict(ToDict(Scaled)) # Scaled
=============================================================================
