------------------------------ MODULE NodeMap ------------------------------
(***************************************************************************)
(* The node map of node_map.py and the names discovery.py gives: node ids  *)
(* that survive a renumbered NamespaceArray, names that stay apart, the    *)
(* map's dictionary form, and the lookup of the actions.  A sanitised name *)
(* is a sequence of tokens, so that a hash can be appended; a hash is a    *)
(* value of Hash6 or Hash10.                                               *)
(***************************************************************************)
EXTENDS Naturals, Sequences, FiniteSets, SequencesExt, FiniteSetsExt, Functions

CONSTANTS
    Names,      \* BrowseNames
    Sane,       \* BrowseName -> the sanitised name
    Nodes,      \* NodeId identifiers, each with a namespace index
    Hash6,      \* the first 6 and 10 digits of a node id's SHA-1
    Hash10

\* Ten digits tell nodes apart, from each other and from any name a server gives.
ASSUME NodeMapAssumption ==
    /\ Sane \in [Names -> Seq(STRING)] /\ \A n \in Names : Sane[n] # <<>>
    /\ Hash6 \in [Nodes -> STRING] /\ Hash10 \in [Nodes -> STRING] /\ IsInjective(Hash10)
    /\ \A n \in Names, x \in Nodes : Last(Sane[n]) # Hash10[x] /\ Hash6[x] # Hash10[x]
    /\ \A x, y \in Nodes : Hash6[x] # Hash10[y]

-----------------------------------------------------------------------------
(* Node ids *)

NoUri == ""

\* An id is written with its namespace's URI, or with the index where there is none.
NodeIdString_Index(n, ns, namespaces) == [uri |-> NoUri, index |-> ns, ident |-> n]
NodeIdString(n, ns, namespaces) ==
    IF ns > 0 /\ ns < Len(namespaces)
    THEN [uri |-> namespaces[ns + 1], index |-> 0, ident |-> n]
    ELSE [uri |-> NoUri, index |-> ns, ident |-> n]

\* The index a session with this array resolves it to; a URI it has not is skipped.
ParseNodeId(id, namespaces) ==
    IF id.uri = NoUri THEN {[index |-> id.index, ident |-> id.ident]}
    ELSE {[index |-> i - 1, ident |-> id.ident] :
             i \in {j \in 1 .. Len(namespaces) : namespaces[j] = id.uri
                        /\ \A k \in 1 .. (j - 1) : namespaces[k] # id.uri}}

-----------------------------------------------------------------------------
(* Names.  A row is a described Variable: its event, its sanitised name, its id. *)

Hashed(name, hash) == Append(name, hash)

Colliders(rows) ==
    {r \in rows : \E s \in rows : s # r /\ s.event = r.event /\ s.name = r.name}

\* Every collider is hashed: none keeps the plain name.
ShortName(rows, r) == IF r \in Colliders(rows) THEN Hashed(r.name, Hash6[r.id.ident]) ELSE r.name

\* Ten digits where six still collide, with another hash or with a plain name.
FinalName_Short(rows, r) == ShortName(rows, r)
FinalName(rows, r) ==
    IF /\ r \in Colliders(rows)
       /\ \E s \in rows : s # r /\ s.event = r.event /\ ShortName(rows, s) = ShortName(rows, r)
    THEN Hashed(r.name, Hash10[r.id.ident])
    ELSE ShortName(rows, r)

\* Discovered nodes are unscaled, and read-only by name.
AssignNames(rows) ==
    [e \in {r.event : r \in rows} |->
        {[id |-> r.id, name |-> FinalName(rows, r), datatype |-> r.datatype, unit |-> r.unit,
          scale |-> 1, writable |-> FALSE] : r \in {s \in rows : s.event = e}}]

-----------------------------------------------------------------------------
(* The map as a dictionary, and back.  Names are sanitised again at load: that leaves a *)
(* sanitised one as it is (the SDK's sanitize_name, which is external). *)

ToDict(events) ==
    [e \in DOMAIN events |->
        {[id |-> n.id, name |-> n.name, datatype |-> n.datatype, unit |-> n.unit,
          writable |-> n.writable] : n \in events[e]}]

Duplicates(dict) ==
    \E e \in DOMAIN dict : \E m, n \in dict[e] : m # n /\ m.name = n.name

\* scale is optional in a file.
FromDict(dict) ==
    [e \in DOMAIN dict |->
        {[id |-> n.id, name |-> n.name, datatype |-> n.datatype, unit |-> n.unit,
          scale |-> IF "scale" \in DOMAIN n THEN n.scale ELSE 1, writable |-> n.writable] :
             n \in dict[e]}]

\* The nodes `event/name' finds, or the bare name.  Several are refused, none is unknown.
Lookup(events, event, name) ==
    UNION {{n \in events[e] : n.name = name} : e \in {d \in DOMAIN events : event \in {<<>>, d}}}
=============================================================================
