------------------------------ MODULE Sources ------------------------------
(***************************************************************************)
(* The trace sources of a running extension (app.py open_sources, client.py *)
(* SharedSource, _init_trace_source, _declare_events, _rotate_source).     *)
(*                                                                         *)
(* With a prefix all clients and the log write to one source; without, each *)
(* client to its own, and the log to another.  A source is a row of        *)
(* segments of one name; a segment's events and their fields are fixed once *)
(* declared, so that a discovered field that is new takes a new segment.   *)
(* The clients are coroutines of one thread, the polling loop, and have no *)
(* await between a declaration and the end of its rotation; other threads  *)
(* log records through the handler at any time.                            *)
(***************************************************************************)
EXTENDS Naturals, FiniteSets, Functions

CONSTANTS
    Clients,        \* the clients, by name
    Prefix, LogSource,
    Threads,        \* other threads that log
    Setups,         \* [prefixed, fixed : client -> its map, or none, discovery : client -> BOOLEAN]
    Maps,           \* what a discovery may find: event -> field -> datatype
    HealthEvent, HealthFields, RawEvent, RawFields, LogEvent, LogFields,
    MaxDiscoveries  \* bound

ASSUME SourcesAssumption ==
    /\ MaxDiscoveries \in Nat /\ Prefix # LogSource /\ LogSource \notin Clients
    /\ Threads \cap {"none", "loop"} = {} /\ \A s \in Setups : s.prefixed \in BOOLEAN /\ DOMAIN s.fixed = Clients
    /\ \A m \in Maps \cup {s.fixed[c] : s \in Setups, c \in Clients} :
          DOMAIN m \cap {HealthEvent, LogEvent} = {}

VARIABLES
    setup,
    started,    \* clients whose start() has run
    source,     \* SharedSource.source, by source name: the number of its segment, 0 for None
    events,     \* client -> event -> [seg, fields], _events
    fields,     \* client -> event -> its fields, _fields
    schemas,    \* client -> event -> field -> datatype, _schemas
    nodeMap,    \* client -> node_map
    targets,    \* client -> the nodes its jobs and subscriptions log
    connecting, \* clients between _discover and _resolve_nodes
    discoveries,
    loop,       \* the rotation the loop is in: [step, client]
    lock,       \* the handler's: "none", "loop", or a thread
    handler,    \* handler.trace_event's segment, 0 for None
    record,     \* what became of each thread's record
    local,      \* the event a thread inside emit holds, 0 for none
    made,       \* source name -> segments made
    declared    \* history: what was declared on which segment

client == <<events, fields, schemas, nodeMap, targets, connecting>>
sources == <<source, made, declared>>
vars == <<setup, started, client, discoveries, sources, loop, lock, handler, record, local>>

Empty == <<>>

\* f, and what g has besides.
Over(f, g) == [x \in DOMAIN f \cup DOMAIN g |-> IF x \in DOMAIN f THEN f[x] ELSE g[x]]

Free == [step |-> "free", client |-> ""]

SourceOf(c) == IF setup.prefixed THEN Prefix ELSE c
LogName == IF setup.prefixed THEN Prefix ELSE LogSource

\* The clients of c's SharedSource.
Sharing(c) == IF setup.prefixed THEN started ELSE {c}

EventName_Bare(c, e) == <<e>>
EventName(c, e) == IF setup.prefixed THEN <<c, e>> ELSE <<e>>

Declaration(name, seg, event, fs) == [source |-> name, seg |-> seg, event |-> event, fields |-> fs]

-----------------------------------------------------------------------------
(* Start *)

Init ==
    /\ setup \in Setups /\ started = {}
    /\ source = [n \in Clients \cup {Prefix, LogSource} |-> 0] /\ made = source
    /\ events = [c \in Clients |-> Empty] /\ fields = events /\ schemas = events
    /\ nodeMap = setup.fixed
    /\ targets = events /\ connecting = {} /\ discoveries = 0 /\ loop = Free /\ lock = "none"
    /\ handler = 0 /\ record = [t \in Threads |-> "none"] /\ local = [t \in Threads |-> 0]
    /\ declared = {}

\* open_sources: the log has its source before any client starts.
OpenSources ==
    /\ handler = 0 /\ started = {}
    /\ source' = [source EXCEPT ![LogName] = 1] /\ made' = [made EXCEPT ![LogName] = 1]
    /\ handler' = 1
    /\ declared' = {Declaration(LogName, 1, <<LogEvent>>, LogFields)}
    /\ UNCHANGED <<setup, started, client, discoveries, loop, lock, record, local>>

\* The nodes of the map by event, without events that have none.
Mapped(map) == [e \in {d \in DOMAIN map : map[d] # Empty} |-> map[e]]

\* Start declares the health event and the map's, or `raw' where there will be none.
StartEvents(c) ==
    Over([e \in {HealthEvent} |-> HealthFields],
         IF Mapped(nodeMap[c]) # Empty THEN Mapped(nodeMap[c])
         ELSE IF setup.discovery[c] THEN Empty ELSE [e \in {RawEvent} |-> RawFields])

Start(c) ==
    LET n   == SourceOf(c)
        seg == IF setup.prefixed THEN source[n] ELSE 1
    IN  /\ handler # 0 /\ c \notin started
        /\ started' = started \cup {c}
        /\ source' = [source EXCEPT ![n] = seg] /\ made' = [made EXCEPT ![n] = seg]
        /\ fields' = [fields EXCEPT ![c] = StartEvents(c)]
        /\ events' = [events EXCEPT ![c] =
                        [e \in DOMAIN StartEvents(c) |-> [seg |-> seg, fields |-> StartEvents(c)[e]]]]
        /\ schemas' = [schemas EXCEPT ![c] = Mapped(nodeMap[c])]
        /\ declared' = declared \cup
                {Declaration(n, seg, EventName(c, e), StartEvents(c)[e]) : e \in DOMAIN StartEvents(c)}
        /\ UNCHANGED <<setup, nodeMap, targets, connecting, discoveries, loop, lock, handler,
                       record, local>>

-----------------------------------------------------------------------------
(* A connect: _discover, which may rotate; _resolve_nodes *)

\* The loop serves once every client has started.
Running == started = Clients /\ loop = Free

\* _declare_events: a declared field keeps its datatype, and one that changed is left out.
Unchanged_All(schema, nodes) == nodes
Unchanged(schema, nodes) ==
    Restrict(nodes, {f \in DOMAIN nodes : f \in DOMAIN schema => schema[f] = nodes[f]})

Known(c, map) == DOMAIN Mapped(map) \cap DOMAIN schemas[c]
New_Empty(c, map) == DOMAIN map \ DOMAIN schemas[c]
New(c, map) == DOMAIN Mapped(map) \ DOMAIN schemas[c]
Added(c, map) == \E e \in Known(c, map) : ~(DOMAIN map[e] \subseteq DOMAIN schemas[c][e])

\* What was there keeps its place: the left function wins.
Extended(before, map) ==
    [e \in DOMAIN before \cup DOMAIN map |->
        IF e \notin DOMAIN before THEN map[e]
        ELSE IF e \notin DOMAIN map THEN before[e] ELSE Over(before[e], map[e])]

Discover(c, map) ==
    /\ Running /\ setup.discovery[c] /\ discoveries < MaxDiscoveries
    /\ discoveries' = discoveries + 1 /\ connecting' = connecting \cup {c}
    /\ nodeMap' = [nodeMap EXCEPT ![c] =
            [e \in DOMAIN map |-> IF e \in Known(c, map) THEN Unchanged(schemas[c][e], map[e])
                                  ELSE map[e]]]
    /\ schemas' = [schemas EXCEPT ![c] = Extended(@, Mapped(map))]
    /\ fields' = [fields EXCEPT ![c] = Extended(@, Mapped(map))]
    /\ events' = [events EXCEPT ![c] =
            Over(@, [e \in New(c, map) |-> [seg |-> source[SourceOf(c)], fields |-> map[e]]])]
    /\ declared' = declared \cup
            {Declaration(SourceOf(c), source[SourceOf(c)], EventName(c, e), map[e]) : e \in New(c, map)}
    /\ loop' = IF Added(c, map) THEN [step |-> "rotate", client |-> c] ELSE Free
    /\ UNCHANGED <<setup, started, targets, source, made, lock, handler, record, local>>

\* A client that discovers logs what its map has once its nodes are resolved; one with a map
\* of its own resolves that.
Resolve(c) ==
    /\ Running /\ (c \in connecting \/ ~setup.discovery[c])
    /\ targets' = [targets EXCEPT ![c] = Mapped(nodeMap[c])] /\ targets' # targets
    /\ connecting' = connecting \ {c}
    /\ UNCHANGED <<setup, started, events, fields, schemas, nodeMap, discoveries, sources, loop,
                   lock, handler, record, local>>

\* The connect fails between the two; the next one discovers again.
ConnectFails(c) ==
    /\ Running /\ c \in connecting /\ connecting' = connecting \ {c}
    /\ UNCHANGED <<setup, started, events, fields, schemas, nodeMap, targets, discoveries,
                   sources, loop, lock, handler, record, local>>

-----------------------------------------------------------------------------
(* A rotation, step by step: a thread may run between any two *)

\* Only the prefix source has the handler with it.
Locks_Never == FALSE
Locks == setup.prefixed

Acquire ==
    /\ loop.step = "rotate" /\ (Locks => lock = "none")
    /\ lock' = IF Locks THEN "loop" ELSE lock
    /\ loop' = [loop EXCEPT !.step = "held"]
    /\ UNCHANGED <<setup, started, client, discoveries, sources, handler, record, local>>

\* The clients whose events go with the old source and come with the new one.
Moved_Own(c) == {c}
Moved(c) == Sharing(c)

\* Every reference to the old segment goes before the new one is made.
Release ==
    /\ loop.step = "held" /\ loop' = [loop EXCEPT !.step = "released"]
    /\ source' = [source EXCEPT ![SourceOf(loop.client)] = 0]
    /\ events' = [c \in Clients |-> IF c \in Moved(loop.client) THEN Empty ELSE events[c]]
    /\ handler' = IF setup.prefixed THEN 0 ELSE handler
    /\ UNCHANGED <<setup, started, fields, schemas, nodeMap, targets, connecting, discoveries,
                   made, declared, lock, record, local>>

\* Each client's events are declared again, with the fields they have by now.
Reopen ==
    LET n   == SourceOf(loop.client)
        seg == made[n] + 1
    IN  /\ loop.step = "released" /\ loop' = [loop EXCEPT !.step = "reopened"]
        /\ made' = [made EXCEPT ![n] = seg] /\ source' = [source EXCEPT ![n] = seg]
        /\ events' = [c \in Clients |->
                        IF c \in Moved(loop.client)
                        THEN [e \in DOMAIN fields[c] |-> [seg |-> seg, fields |-> fields[c][e]]]
                        ELSE events[c]]
        /\ declared' = declared \cup UNION
                {{Declaration(n, seg, EventName(c, e), fields[c][e]) : e \in DOMAIN fields[c]} :
                    c \in Moved(loop.client)}
        /\ UNCHANGED <<setup, started, fields, schemas, nodeMap, targets, connecting, discoveries,
                       lock, handler, record, local>>

RestoreLog ==
    LET n == SourceOf(loop.client)
    IN  /\ loop.step = "reopened" /\ loop' = Free
        /\ handler' = IF setup.prefixed THEN source[n] ELSE handler
        /\ lock' = IF Locks THEN "none" ELSE lock
        /\ declared' = IF setup.prefixed
                       THEN declared \cup {Declaration(n, source[n], <<LogEvent>>, LogFields)}
                       ELSE declared
        /\ UNCHANGED <<setup, started, client, discoveries, source, made, record, local>>

-----------------------------------------------------------------------------
(* A record of another thread: Handler.handle takes the lock around emit *)

Handle(t) ==
    /\ started # {} /\ record[t] # "lost" /\ local[t] = 0 /\ lock = "none"
    /\ lock' = t /\ local' = [local EXCEPT ![t] = handler]
    /\ record' = [record EXCEPT ![t] = IF handler = 0 THEN "lost" ELSE "held"]
    /\ UNCHANGED <<setup, started, client, discoveries, sources, loop, handler>>

Emit(t) ==
    /\ lock = t /\ lock' = "none"
    /\ local' = [local EXCEPT ![t] = 0]
    /\ record' = [record EXCEPT ![t] = IF @ = "held" THEN "written" ELSE @]
    /\ UNCHANGED <<setup, started, client, discoveries, sources, loop, handler>>

-----------------------------------------------------------------------------
Rotation == Acquire \/ Release \/ Reopen \/ RestoreLog

Next ==
    \/ OpenSources
    \/ \E c \in Clients :
        Start(c) \/ (\E map \in Maps : Discover(c, map)) \/ Resolve(c) \/ ConnectFails(c)
    \/ Rotation
    \/ \E t \in Threads : Handle(t) \/ Emit(t)

Spec == Init /\ [][Next]_vars

-----------------------------------------------------------------------------
(* Properties *)

\* The values every variable may take: what a client's schemas fix is what its fields have,
\* and outside a rotation it holds an event for each of them.
TypeOK ==
    /\ setup \in Setups /\ started \subseteq Clients /\ connecting \subseteq started
    /\ \A n \in DOMAIN source : source[n] \in {0, made[n]}
    /\ \A c \in Clients :
        /\ DOMAIN schemas[c] \subseteq DOMAIN fields[c]
        /\ \A e \in DOMAIN schemas[c] : schemas[c][e] = fields[c][e]
        /\ loop.step = "free" => DOMAIN events[c] = DOMAIN fields[c]
    /\ lock \in Threads \cup {"none", "loop"} /\ handler \in Nat
    /\ \A t \in Threads : local[t] # 0 => record[t] = "held"

\* The segments of a source that something still refers to.
Referred(n) ==
    ({source[n]}
     \cup (UNION {{events[c][e].seg : e \in DOMAIN events[c]} : c \in {d \in Clients : SourceOf(d) = n}})
     \cup (IF n = LogName THEN {handler} \cup Range(local) ELSE {})) \ {0}

\* A segment ends before the next one starts: no client, no handler and no thread in the
\* middle of a record still refers to the old one.
OneSegment == \A n \in DOMAIN source : Cardinality(Referred(n)) <= 1

\* Whatever the loop may log next fits the event it logs it to, on the current segment,
\* each field with the datatype it was declared with -- for every client of the source,
\* whoever rotated it, and also while another is between its discovery and its resolve.
RowsFit ==
    loop = Free => \A c \in started : \A e \in DOMAIN targets[c] \cup {HealthEvent} :
        /\ e \in DOMAIN events[c] /\ events[c][e].seg = source[SourceOf(c)]
        /\ e \in DOMAIN targets[c] => \A f \in DOMAIN targets[c][e] :
              f \in DOMAIN events[c][e].fields /\ events[c][e].fields[f] = targets[c][e][f]

\* A record is never lost to a rotation.
NoRecordLost == \A t \in Threads : record[t] # "lost"

\* An event is declared once on a segment and by one writer, a field keeps its datatype over
\* all segments, and what an earlier segment had the current one has too.
SegmentsContinue ==
    /\ \A d, b \in declared : d.source = b.source /\ d.event = b.event =>
          /\ d.seg = b.seg => d = b
          /\ \A f \in DOMAIN d.fields \cap DOMAIN b.fields : d.fields[f] = b.fields[f]
          /\ d.seg < b.seg => DOMAIN d.fields \subseteq DOMAIN b.fields
    /\ loop = Free => \A d \in declared : \E b \in declared :
          b.source = d.source /\ b.event = d.event /\ b.seg = source[d.source]
=============================================================================
