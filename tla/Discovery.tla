----------------------------- MODULE Discovery -----------------------------
(***************************************************************************)
(* One discovery of discovery.py: browse the address space breadth-first   *)
(* from Objects (walk, _browse_batch), read what the Variables are         *)
(* (describe, read_many, integer_subtypes), name them (assign_names).      *)
(*                                                                         *)
(* The server is one record, chosen in Init: its references in the order   *)
(* it gives them, its limits on a request, a page and continuation points, *)
(* and what a read of each Variable returns.  The configured filters are   *)
(* part of it.  A server answers a Browse node by node: with all           *)
(* references, a page and a continuation point, BadNoContinuationPoints,   *)
(* or another bad status, at most `faults' nodes of it.                    *)
(***************************************************************************)
EXTENDS NodeMap, TLC

CONSTANTS
    Servers,        \* the servers
    Root,           \* the Objects folder
    ServerNode,     \* the Server object
    EU,             \* the BrowseName EngineeringUnits
    Hidden,         \* BrowseNames that start with `_'
    TypeDepth,      \* _TYPE_DEPTH
    MaxOperations   \* MAX_OPERATIONS

Ref == [to : Nodes, kind : {"child", "property", "remote"}]

\* What a server is to a client, as far as the proofs need it: no namespace's URI is empty, and
\* a read returns something, if only None, for each attribute asked for.
ASSUME DiscoveryAssumption ==
    /\ Root \in Nodes /\ IsFiniteSet(Nodes) /\ MaxOperations \in Nat \ {0} /\ TypeDepth \in Nat
    /\ \A s \in Servers :
        /\ s.refs \in [Nodes -> Seq(Ref)]
        /\ s.name \in [Nodes -> Names] /\ s.vendor \in [Nodes -> Seq(Names)]
        /\ s.ns \in [Nodes -> Nat] /\ s.namespaces \in Seq(STRING) /\ NoUri \notin Range(s.namespaces)
        /\ s.maxBrowse \in Nat /\ s.maxRead \in Nat /\ s.page \in Nat \ {0} /\ s.points \in Nat
        /\ \A n \in Nodes : {"DataType", "ValueRank", "AccessLevel", "Value"} \subseteq DOMAIN s.attrs[n]

VARIABLES
    server,
    stage,      \* "walking", "found", "described", "mapped"; "raised" once a request failed
    frontier,   \* entries still to browse at this depth: [node, path, var]
    upcoming,   \* next_frontier
    visited, found, unit, failed, filtered, kept,   \* walk's locals
    call,       \* _browse_batch's locals
    points,     \* continuation points the server holds: node -> references left
    rows,       \* describe's result, by the index in `found', with its skip counts
    skipped,
    nodeMap,
    faulty      \* history: the nodes that answered with a bad status

walked == <<frontier, upcoming, visited, found, unit, failed, filtered, kept>>
vars == <<server, stage, walked, call, points, rows, skipped, nodeMap, faulty>>

-----------------------------------------------------------------------------
(* PathFilter: a pattern is a sequence of segments, `**' any number of them. *)

AnySegment == <<"*">>
AnyPath == <<"**">>

SegmentMatches(p, s) == p = AnySegment \/ p = s

Match(pattern, path) ==
    LET m[i \in 1 .. Len(pattern) + 1, j \in 1 .. Len(path) + 1] ==
            IF i > Len(pattern) THEN j > Len(path)
            ELSE IF pattern[i] = AnyPath THEN \E k \in j .. Len(path) + 1 : m[i + 1, k]
            ELSE j <= Len(path) /\ SegmentMatches(pattern[i], path[j]) /\ m[i + 1, j + 1]
    IN  m[1, 1]

\* Some path at or below `path' can match.
Below(pattern, path) ==
    LET b[i \in 1 .. Len(path) + 1] ==
            \/ i > Len(path)
            \/ i <= Len(pattern) /\ pattern[i] = AnyPath
            \/ i <= Len(pattern) /\ SegmentMatches(pattern[i], path[i]) /\ b[i + 1]
    IN  b[1]

Traced(path) == [i \in DOMAIN path |-> Sane[path[i]]]

Excluded(path) == \E p \in server.exclude : Match(p, Traced(path))
Included(path) ==
    \/ server.include = {}
    \/ \E p \in server.include, n \in 1 .. Len(path) : Match(p, SubSeq(Traced(path), 1, n))
Reachable(path) == server.include = {} \/ \E p \in server.include : Below(p, Traced(path))

\* What the filters say of a node on this path: traced, and browsed below.
Trace(path) == ~Excluded(path) /\ Included(path)
Browsed(path) == ~Excluded(path) /\ (Included(path) \/ Reachable(path))

-----------------------------------------------------------------------------
(* Browsing a batch *)

Idle == [nodes |-> <<>>, refs |-> <<>>, failed |-> {}, pending |-> {}, refused |-> {},
         retry |-> TRUE]

\* A missing or zero limit is MAX_OPERATIONS.
Limit(advertised) ==
    IF advertised = 0 \/ advertised > MaxOperations THEN MaxOperations ELSE advertised

Batch == 1 .. Min({Limit(server.maxBrowse), Len(frontier)})
FirstPage(n) == SubSeq(server.refs[n], 1, Min({server.page, Len(server.refs[n])}))
Beyond(refs) == SubSeq(refs, server.page + 1, Len(refs))
NeedsPoint(n) == Len(server.refs[n]) > server.page
Free == server.points - Cardinality(DOMAIN points)

\* The server's choices: which nodes fail, which of the others get its free points.
Answers(nodes) ==
    {a \in [bad : SUBSET nodes, given : SUBSET nodes] :
        /\ Cardinality(faulty \cup a.bad) <= server.faults
        /\ a.given \subseteq {n \in nodes \ a.bad : NeedsPoint(n)}
        /\ Cardinality(a.given) =
             Min({Free, Cardinality({n \in nodes \ a.bad : NeedsPoint(n)})})}

Holding(given) ==
    [n \in DOMAIN points \cup given |-> IF n \in DOMAIN points THEN points[n] ELSE Beyond(server.refs[n])]

Refused_Fails(indices, retry) == {}
Refused(indices, retry) == IF retry THEN indices ELSE {}

\* One Browse of the indices S of `nodes': the batch, or one refused node alone.
SendBrowse(nodes, S, retry) ==
    \E a \in Answers({nodes[i] : i \in S}) :
        LET ok    == {i \in S : nodes[i] \notin a.bad
                              /\ (NeedsPoint(nodes[i]) => nodes[i] \in a.given)}
            noPoint == {i \in S \ ok : nodes[i] \notin a.bad}
            old   == IF retry THEN [i \in DOMAIN nodes |-> <<>>] ELSE call.refs
        IN  /\ call' = [nodes |-> nodes, retry |-> retry,
                        refs |-> [i \in DOMAIN nodes |-> IF i \in ok THEN FirstPage(nodes[i])
                                                         ELSE old[i]],
                        failed |-> (IF retry THEN {} ELSE call.failed)
                                     \cup ((S \ ok) \ Refused(noPoint, retry)),
                        pending |-> {i \in ok : nodes[i] \in a.given},
                        refused |-> (IF retry THEN {} ELSE call.refused \ S)
                                     \cup Refused(noPoint, retry)]
            /\ points' = Holding(a.given)
            /\ faulty' = faulty \cup a.bad

BrowseBatch ==
    /\ stage = "walking" /\ call = Idle /\ frontier # <<>>
    /\ SendBrowse([i \in Batch |-> frontier[i].node], Batch, TRUE)
    /\ UNCHANGED <<server, stage, walked, rows, skipped, nodeMap>>

\* A node that failed keeps the pages so far; its continuation point is gone with it.
Pending(bad, over) == call.pending \ (bad \cup over)

BrowseNext ==
    /\ stage = "walking" /\ call.pending # {}
    /\ \E bad \in SUBSET call.pending :
        LET hit  == {call.nodes[i] : i \in bad}
            page == [i \in call.pending \ bad |->
                        SubSeq(points[call.nodes[i]], 1,
                               Min({server.page, Len(points[call.nodes[i]])}))]
            over == {i \in call.pending \ bad : Len(points[call.nodes[i]]) <= server.page}
            left == {call.nodes[i] : i \in call.pending \ (bad \cup over)}
        IN  /\ Cardinality(faulty \cup hit) <= server.faults
            /\ call' = [call EXCEPT !.failed = @ \cup bad,
                                    !.refs = [i \in DOMAIN @ |-> IF i \in DOMAIN page
                                                                 THEN @[i] \o page[i] ELSE @[i]],
                                    !.pending = Pending(bad, over)]
            /\ points' = [n \in left |-> Beyond(points[n])]
            /\ faulty' = faulty \cup hit
    /\ UNCHANGED <<server, stage, walked, rows, skipped, nodeMap>>

\* A node refused a point is browsed alone, once the batch has released its own.
BrowseAlone ==
    /\ stage = "walking" /\ call.pending = {} /\ call.refused # {}
    /\ SendBrowse(call.nodes, {Min(call.refused)}, FALSE)
    /\ UNCHANGED <<server, stage, walked, rows, skipped, nodeMap>>

-----------------------------------------------------------------------------
(* Taking what the batch referred to *)

Ignored(n) ==
    \/ server.class[n] \notin {"Variable", "Object"}
    \/ server.class[n] = "Object" /\ server.name[n] \in Hidden

Visited_Never(seen, n) == seen
Visited(seen, n) == seen \cup {n}

LeftOut_Visited(acc, n) == [acc EXCEPT !.filtered = @ \cup {n}, !.visited = @ \cup {n}]
LeftOut(acc, n) == [acc EXCEPT !.filtered = @ \cup {n}]

\* A reference that leads to a node not visited: nothing below it is browsed unless the
\* filters say so, and then another parent may still take it.
Follow(acc, entry, n) ==
    LET path   == Append(entry.path, server.name[n])
        var    == server.class[n] = "Variable"
        passes == IF var THEN Trace(path) ELSE Browsed(path)
        counted == IF passes THEN [acc EXCEPT !.kept = @ \cup {n}]
                   ELSE [acc EXCEPT !.filtered = @ \cup {n}]
    IN  IF ~Browsed(path) THEN LeftOut(acc, n)
        ELSE [counted EXCEPT
                !.visited = Visited(@, n),
                !.found = IF var /\ Trace(path) THEN Append(@, [node |-> n, path |-> entry.path])
                          ELSE @,
                !.upcoming = Append(@, [node |-> n, path |-> path, var |-> var])]

TakeRef(acc, entry, ref) ==
    IF ref.kind = "property"
    THEN IF entry.var /\ server.name[ref.to] = EU
         THEN [acc EXCEPT !.unit = (entry.node :> ref.to) @@ @] ELSE acc
    ELSE IF ref.kind = "remote" \/ ref.to \in acc.visited \/ Ignored(ref.to) THEN acc
    ELSE Follow(acc, entry, ref.to)

\* The references of a node, in order; and those of every node of the batch.
TakeRefs(acc, entry, refs) ==
    LET took[j \in 0 .. Len(refs)] ==
            IF j = 0 THEN acc ELSE TakeRef(took[j - 1], entry, refs[j])
    IN  took[Len(refs)]

Untaken == [visited |-> visited, found |-> found, upcoming |-> upcoming, unit |-> unit,
            filtered |-> filtered, kept |-> kept]
Taken ==
    LET taken[i \in 0 .. Len(call.nodes)] ==
            IF i = 0 THEN Untaken ELSE TakeRefs(taken[i - 1], frontier[i], call.refs[i])
    IN  taken[Len(call.nodes)]

\* The frontier once the batch is taken.
Rest_FailedAgain ==
    [i \in 1 .. Cardinality(call.failed) |-> frontier[SetToSortSeq(call.failed, <)[i]]]
        \o SubSeq(frontier, Len(call.nodes) + 1, Len(frontier))
Rest == SubSeq(frontier, Len(call.nodes) + 1, Len(frontier))

Take ==
    /\ stage = "walking" /\ call # Idle /\ call.pending = {} /\ call.refused = {}
    /\ \E taken \in {Taken} :
        /\ frontier' = IF Rest = <<>> THEN taken.upcoming ELSE Rest
        /\ upcoming' = IF Rest = <<>> THEN <<>> ELSE taken.upcoming
        /\ stage' = IF Rest = <<>> /\ taken.upcoming = <<>> THEN "found" ELSE stage
        /\ visited' = taken.visited /\ found' = taken.found /\ unit' = taken.unit
        /\ filtered' = taken.filtered /\ kept' = taken.kept
    /\ failed' = failed \cup {frontier[i].path : i \in call.failed}
    /\ call' = Idle
    /\ UNCHANGED <<server, points, rows, skipped, nodeMap, faulty>>

\* A request raises: the connect fails, and nothing of this discovery is used.
Raises ==
    /\ stage \in {"walking", "found"} /\ Cardinality(faulty) < server.faults
    /\ stage' = "raised"
    /\ UNCHANGED <<server, walked, call, points, rows, skipped, nodeMap, faulty>>

-----------------------------------------------------------------------------
(* Describing: attributes read for every Variable found.  None is a value that is Bad or *)
(* empty; Garbled one that asyncua cannot decode, which fails its whole response. *)

None == "None"
Garbled == "BadDecodingError"

Builtin == [Boolean |-> "bool", Int32 |-> "int32", Int64 |-> "int64", Double |-> "float64",
            String |-> "string"]
Abstract == [Number |-> "float64", Integer |-> "int64"]
IntegerTypes == {"Int32", "Int64"}
BaseDataType == "BaseDataType"
Standard == DOMAIN Builtin \cup DOMAIN Abstract \cup {BaseDataType, "Structure", "DateTime"}
MaybeScalar == {"Any", "ScalarOrOneDimension"}
Attributes == <<"DataType", "ValueRank", "AccessLevel">>

Answer(item) == server.attrs[item.node][item.attribute]

\* _read of a batch; where it does not decode, of its items one by one.
Decodes(batch) == \A i \in DOMAIN batch : Answer(batch[i]) # Garbled
Received(batch) ==
    IF Decodes(batch) THEN [i \in DOMAIN batch |-> Answer(batch[i])]
    ELSE [i \in DOMAIN batch |-> IF Decodes(<<batch[i]>>) THEN Answer(batch[i]) ELSE Garbled]

\* read_many: `size' items per request, the answers put one after the other.
Requested(items, size, k) == SubSeq(items, (k - 1) * size + 1, Min({k * size, Len(items)}))
Requests(items, size) == (Len(items) + size - 1) \div size
ReadMany(items, size) ==
    LET out[k \in 0 .. Requests(items, size)] ==
            IF k = 0 THEN <<>> ELSE out[k - 1] \o Received(Requested(items, size, k))
    IN  out[Requests(items, size)]

\* integer_subtypes: one inverse Browse per level of the hierarchy.
Supertypes(ancestor) ==
    LET parent(t) == IF ancestor[t] \in Standard THEN ancestor[t] ELSE server.super[ancestor[t]]
    IN  [t \in {u \in DOMAIN ancestor : parent(u) # None} |-> parent(t)]
IntegerSubtypes(types) ==
    LET level[k \in 0 .. TypeDepth] == IF k = 0 THEN [t \in types |-> t] ELSE Supertypes(level[k - 1])
        top == level[TypeDepth]
    IN  [t \in {u \in DOMAIN top : top[u] \in IntegerTypes} |-> Builtin[top[t]]]

Declared(dtype, subtypes) ==
    IF dtype \in DOMAIN Builtin THEN Builtin[dtype]
    ELSE IF dtype \in DOMAIN Abstract THEN Abstract[dtype]
    ELSE IF dtype \in DOMAIN subtypes THEN subtypes[dtype] ELSE None

NeedsValue(dtype, rank, subtypes) == Declared(dtype, subtypes) = None \/ rank \in MaybeScalar

\* The values an untyped node's kind is kept of; the others widen to float64.
Widest(variant) == IF variant \in {"Boolean", "String"} THEN Builtin[variant] ELSE "float64"

NotTraced(reason) == [datatype |-> None, reason |-> reason]
As(datatype) == [datatype |-> datatype, reason |-> None]

\* field_datatype: the declaration wins where it fixes one.
FieldDatatype(dtype, value, subtypes) ==
    CASE value = Garbled -> NotTraced("undecodable")
      [] value = None -> NotTraced("no value")
      [] value = "List" -> NotTraced("array")
      [] value \notin {Garbled, None, "List"} ->
            IF Declared(dtype, subtypes) # None THEN As(Declared(dtype, subtypes))
            ELSE IF dtype = BaseDataType THEN As("string")
            ELSE IF value = "Structure" THEN NotTraced("struct")
            ELSE IF value \in DOMAIN Builtin THEN As(Widest(value))
            ELSE NotTraced("unsupported type")

Skipped(v) ==
    \/ v.access \notin {None, "CurrentRead"}
    \/ v.rank \notin {None, "Scalar"} \cup MaybeScalar

\* value_of: a value that does not decode is Bad.
ValueOf(answer) == IF answer = Garbled THEN None ELSE answer

Item(n, attribute) == [node |-> n, attribute |-> attribute]

\* The place of a number in a set of them, and the set in that order.
Place(S, i) == Cardinality({j \in S : j <= i})
InOrder(S) == [k \in 1 .. Cardinality(S) |-> CHOOSE i \in S : Place(S, i) = k]

\* What is read of every Variable found, and of the units of those that have them.
WithUnit == {i \in DOMAIN found : found[i].node \in DOMAIN unit}
Asked ==
    LET n == Len(Attributes)
    IN  [k \in 1 .. n * Len(found) |-> Item(found[((k - 1) \div n) + 1].node, Attributes[((k - 1) % n) + 1])]
          \o [k \in 1 .. Cardinality(WithUnit) |-> Item(unit[found[InOrder(WithUnit)[k]].node], "Value")]

\* The answers, a row for each Variable.
Answered(got) ==
    LET n == Len(Attributes)
        text(i) == got[n * Len(found) + Place(WithUnit, i)]
    IN  [i \in DOMAIN found |->
            [node |-> found[i].node, path |-> found[i].path, dtype |-> ValueOf(got[n * (i - 1) + 1]),
             rank |-> ValueOf(got[n * (i - 1) + 2]), access |-> ValueOf(got[n * (i - 1) + 3]),
             unit |-> IF i \in WithUnit /\ text(i) \in server.units THEN text(i) ELSE ""]]

\* The value read for the i-th Variable: it comes after those of the ones that needed theirs.
ValueIndex_First(needs, i) == 1
ValueIndex(needs, i) == Place(needs, i)

\* A value is read only where the declaration or the rank leaves the type open.
Typed(all, keep, subtypes) ==
    LET needs  == {i \in keep : NeedsValue(all[i].dtype, all[i].rank, subtypes)}
        values == ReadMany([k \in 1 .. Cardinality(needs) |-> Item(all[InOrder(needs)[k]].node, "Value")],
                           Limit(server.maxRead))
        type(i) == IF i \in needs
                   THEN FieldDatatype(all[i].dtype, values[ValueIndex(needs, i)], subtypes)
                   ELSE As(Declared(all[i].dtype, subtypes))
    IN  [i \in keep |->
            [node |-> all[i].node, path |-> all[i].path, datatype |-> type(i).datatype,
             unit |-> all[i].unit]]

Describe ==
    /\ stage = "found" /\ stage' = "described"
    /\ \E got \in {ReadMany(Asked, Limit(server.maxRead))} : \E all \in {Answered(got)} :
        LET keep   == {i \in DOMAIN all : ~Skipped(all[i])}
            vendor == {all[i].dtype : i \in keep} \ (Standard \cup {None})
        IN  \E subtypes \in {IntegerSubtypes(vendor)} : \E typed \in {Typed(all, keep, subtypes)} :
                /\ rows' = Restrict(typed, {i \in keep : typed[i].datatype # None})
                /\ skipped' = [filtered |-> filtered \ kept,
                               unreadable |-> {all[i].node : i \in DOMAIN all \ keep},
                               untyped |-> {typed[i].node : i \in {k \in keep : typed[k].datatype = None}}]
    /\ UNCHANGED <<server, walked, call, points, nodeMap, faulty>>

-----------------------------------------------------------------------------
(* Naming *)

\* A vendor id's segments, where they agree with the BrowseName.
VendorSegments(n) ==
    LET v == server.vendor[n]
    IN  IF Len(v) >= 2 /\ Last(v) = server.name[n] THEN Front(v) ELSE <<>>

\* The vendor id's leading segments, else the parent path.
Event(row) ==
    Traced(IF VendorSegments(row.node) # <<>> THEN VendorSegments(row.node)
           ELSE IF row.path # <<>> THEN row.path ELSE <<server.name[Root]>>)

Named(row) ==
    [event |-> Event(row), name |-> Sane[server.name[row.node]],
     id |-> NodeIdString(row.node, server.ns[row.node], server.namespaces),
     datatype |-> row.datatype, unit |-> row.unit]

NameNodes ==
    /\ stage = "described" /\ stage' = "mapped"
    /\ \E named \in {{Named(rows[i]) : i \in DOMAIN rows}} : nodeMap' = AssignNames(named)
    /\ UNCHANGED <<server, walked, call, points, rows, skipped, faulty>>

-----------------------------------------------------------------------------
Init ==
    /\ server \in Servers /\ stage = "walking"
    /\ frontier = <<[node |-> Root, path |-> <<>>, var |-> FALSE]>> /\ upcoming = <<>>
    /\ visited = {Root, ServerNode} /\ found = <<>> /\ unit = <<>> /\ failed = {}
    /\ filtered = {} /\ kept = {} /\ call = Idle /\ points = <<>> /\ rows = <<>>
    /\ skipped = [filtered |-> {}, unreadable |-> {}, untyped |-> {}]
    /\ nodeMap = <<>> /\ faulty = {}

Walk == BrowseBatch \/ BrowseNext \/ BrowseAlone \/ Take
Next == Walk \/ Describe \/ NameNodes \/ Raises

Spec == Init /\ [][Next]_vars

\* The coroutine runs on: each of its awaits is answered, or raises.
FairSpec == Spec /\ WF_vars(Walk \/ Describe \/ NameNodes)

-----------------------------------------------------------------------------
(* Properties *)

FoundNodes == {v.node : v \in Range(found)}

\* The paths from Objects that no node blocks, of one to all nodes: every node above the last
\* may be browsed.
Children(n) ==
    {r.to : r \in {ref \in Range(server.refs[n]) : ref.kind = "child"}} \ {Root, ServerNode}
NamesOf(path) == [i \in DOMAIN path |-> server.name[path[i]]]
End(p) == IF p = <<>> THEN Root ELSE Last(p)
Deeper(p) == {Append(p, n) : n \in {m \in Children(End(p)) : m \notin Range(p) /\ ~Ignored(m)}}
NextPaths(P) == UNION {Deeper(p) : p \in {q \in P : q = <<>> \/ Browsed(NamesOf(q))}}
Paths ==
    LET reached[k \in 0 .. Cardinality(Nodes)] ==
            IF k = 0 THEN {<<>>} ELSE NextPaths(reached[k - 1])
    IN  UNION {reached[k] : k \in 1 .. Cardinality(Nodes)}

\* The filters say the same of a node on all its paths, or refuse one from another parent.
Agree(p, q) ==
    \/ /\ Trace(NamesOf(p)) = Trace(NamesOf(q)) /\ Browsed(NamesOf(p)) = Browsed(NamesOf(q))
    \/ Front(p) # Front(q) /\ (Front(p) = <<>> \/ Front(q) = <<>> \/ Last(Front(p)) # Last(Front(q)))
          /\ ~(Browsed(NamesOf(p)) /\ Browsed(NamesOf(q)))

\* Nothing is lost without a word: a Variable on a path the filters keep is found, or a node
\* on that path is reported as failed -- whatever is shared, paged, refused a continuation
\* point or filtered out on another path -- where the filters agree on every shared node.
\* And what is found is at the end of such a path.
FoundOrReported ==
    stage = "found" => \E paths \in {Paths} :
        /\ \A v \in Range(found) : \E p \in paths :
              Last(p) = v.node /\ NamesOf(Front(p)) = v.path /\ Trace(NamesOf(p))
        /\ (\A p, q \in paths : Last(p) = Last(q) => Agree(p, q)) =>
            \A p \in paths : server.class[Last(p)] = "Variable" /\ Trace(NamesOf(p)) =>
                \/ Last(p) \in FoundNodes
                \/ <<>> \in failed
                \/ \E q \in paths : Last(q) \in Range(p) /\ NamesOf(q) \in failed

\* A Variable is found once, on a path the filters keep, and never counted as filtered.
FoundOnce ==
    /\ Cardinality(FoundNodes) = Len(found)
    /\ FoundNodes \cap (filtered \ kept) = {}
    /\ \A v \in Range(found) : Trace(Append(v.path, server.name[v.node]))

\* A server that holds at least one continuation point never makes a node fail for want of
\* one: a node fails only where the server answered so, and no point is left behind.
OnlyFaultsFail ==
    server.points > 0 =>
        /\ {call.nodes[i] : i \in call.failed} \subseteq faulty
        /\ \A path \in failed : \E n \in faulty :
              IF path = <<>> THEN n = Root ELSE Last(path) = server.name[n]
        /\ call = Idle => points = <<>>

\* A type's ancestor k levels up, and the builtin integer it derives from within _TYPE_DEPTH.
Lineage(t) ==
    LET chain[k \in 0 .. TypeDepth] == IF k = 0 THEN t
            ELSE IF chain[k - 1] \in Standard \cup {None} THEN chain[k - 1]
            ELSE server.super[chain[k - 1]]
    IN  chain
Derived(t) ==
    LET top == Lineage(t)[TypeDepth]
    IN  IF top \in IntegerTypes THEN [u \in {t} |-> Builtin[top]] ELSE <<>>

\* A Variable is in one row, or counted once by why it is not, as its attributes, value and
\* type say.
AsServed(v) ==
    LET own == [a \in DOMAIN server.attrs[v] |-> IF a = "Value" THEN server.attrs[v][a]
                                                 ELSE ValueOf(server.attrs[v][a])]
        got == {r \in Range(rows) : r.node = v}
        subtypes == IF own.DataType \in Standard \cup {None} THEN <<>> ELSE Derived(own.DataType)
        datatype == IF NeedsValue(own.DataType, own.ValueRank, subtypes)
                    THEN FieldDatatype(own.DataType, own.Value, subtypes).datatype
                    ELSE Declared(own.DataType, subtypes)
        text == IF v \in DOMAIN unit /\ server.attrs[unit[v]].Value \in server.units
                THEN server.attrs[unit[v]].Value ELSE ""
    IN  IF Skipped([rank |-> own.ValueRank, access |-> own.AccessLevel])
        THEN got = {} /\ v \in skipped.unreadable \ skipped.untyped
        ELSE IF datatype = None THEN got = {} /\ v \in skipped.untyped \ skipped.unreadable
        ELSE /\ Cardinality(got) = 1 /\ v \notin skipped.unreadable \cup skipped.untyped
             /\ \A r \in got : r.datatype = datatype /\ r.unit = text

\* Each Variable is described by its own attributes and value, whatever the requests were
\* split into, re-read or skipped before it; the rest is counted, and nothing twice.
DescribedAsServed == stage \in {"described", "mapped"} => \A v \in FoundNodes : AsServed(v)

\* Two nodes never share a field of an event, none that was described is left out, and its
\* qualified name finds it alone: `none keeps the plain name', however the names collide.
NamesApart ==
    stage = "mapped" =>
        /\ Cardinality(UNION {{<<e, n.name>> : n \in nodeMap[e]} : e \in DOMAIN nodeMap})
             = Cardinality(DOMAIN rows)
        /\ \A e \in DOMAIN nodeMap : \A n \in nodeMap[e] : Lookup(nodeMap, e, n.name) = {n}

\* The discovered map saved as a file is the same map, and its ids still name the same
\* nodes on a server that has renumbered its namespaces.
PinsAsFile ==
    stage = "mapped" =>
        /\ ~Duplicates(ToDict(nodeMap)) /\ FromDict(ToDict(nodeMap)) = nodeMap
        /\ \A n \in UNION Range(nodeMap) :
             \A p \in {f \in [DOMAIN server.namespaces -> DOMAIN server.namespaces] :
                          IsInjective(f) /\ f[1] = 1} :
                LET later == [i \in DOMAIN p |-> server.namespaces[p[i]]]
                    at    == server.ns[n.id.ident]
                IN  at < Len(server.namespaces) =>
                      /\ ParseNodeId(n.id, later) # {}
                      /\ \A h \in ParseNodeId(n.id, later) :
                          later[h.index + 1] = server.namespaces[at + 1] /\ h.ident = n.id.ident

\* Discovery ends: nodes that refer to each other are browsed once, and the pages end.
WalkEnds == <>(stage \in {"mapped", "raised"})
=============================================================================
