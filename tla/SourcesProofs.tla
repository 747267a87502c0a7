---------------------------- MODULE SourcesProofs ----------------------------
(***************************************************************************)
(* One segment of a source at a time, and no record lost to a rotation;    *)
(* what a client may log next fits what its events were declared with; and *)
(* no rotation leaves an event or a field behind: for any clients, threads, *)
(* maps, discoveries and rotations.                                        *)
(***************************************************************************)
EXTENDS Sources, FiniteSetTheorems, TLAPS

SourceNames == Clients \cup {Prefix, LogSource}
Steps == {"free", "rotate", "held", "released", "reopened"}

\* The values of what the two properties are about.
Types ==
    /\ setup \in Setups /\ started \subseteq Clients
    /\ source \in [SourceNames -> Nat] /\ made \in [SourceNames -> Nat]
    /\ DOMAIN events = Clients
    /\ lock \in Threads \cup {"none", "loop"} /\ handler \in Nat
    /\ local \in [Threads -> Nat]
    /\ record \in [Threads -> {"none", "held", "written", "lost"}]
    /\ loop \in [step : Steps, client : Clients \cup {""}]

\* A rotation is of a client that serves; the lock is the loop's from Acquire to RestoreLog,
\* and the source is gone once released and there again once reopened.
Rotating ==
    /\ loop.step # "free" => loop.client \in Clients /\ started = Clients
    /\ lock = "loop" <=> setup.prefixed /\ loop.step \in {"held", "released", "reopened"}
    /\ loop.step = "released" => source[SourceOf(loop.client)] = 0
    /\ loop.step = "reopened" => source[SourceOf(loop.client)] # 0

\* The handler's event is of the log's segment, and gone only while the loop has the lock; a
\* thread that holds an event has the lock.
Logging ==
    /\ handler # 0 => handler = source[LogName]
    /\ started # {} /\ handler = 0 => lock = "loop"
    /\ \A t \in Threads : local[t] # 0 => lock = t /\ local[t] = handler

\* An event is of its source's segment, and only a client that has started has any.
Current ==
    \A c \in Clients : \A e \in DOMAIN events[c] :
        c \in started /\ events[c][e].seg = source[SourceOf(c)]

Inv == Types /\ Rotating /\ Logging /\ Current /\ NoRecordLost

LEMMA Names ==
    ASSUME setup \in Setups
    PROVE  /\ setup.prefixed \in BOOLEAN /\ LogName \in SourceNames
           /\ \A c \in Clients : SourceOf(c) \in SourceNames
           /\ ~setup.prefixed => \A c \in Clients : SourceOf(c) # LogName
           /\ ~setup.prefixed => \A c, d \in Clients : SourceOf(c) = SourceOf(d) => c = d
           /\ setup.prefixed => \A c \in Clients : SourceOf(c) = LogName
  BY SourcesAssumption DEF SourcesAssumption, SourceOf, LogName, SourceNames

\* The form in which each step shows that the events stay current.
LEMMA StaysCurrent ==
    ASSUME setup' = setup,
           \A d \in Clients : \A e \in DOMAIN events'[d] :
              d \in started' /\ events'[d][e].seg = source'[SourceOf(d)]
    PROVE  Current'
  BY DEF Current, SourceOf

LEMMA InitInv == Init => Inv
<1> SUFFICES ASSUME Init PROVE Inv
  OBVIOUS
<1> USE DEF Init
<1>1. Types
  BY DEF Types, SourceNames, Free, Steps
<1>2. \A c \in Clients : DOMAIN events[c] = {}
  BY DEF Empty
<1>3. Rotating /\ Logging /\ NoRecordLost
  BY DEF Rotating, Logging, NoRecordLost, Free
<1> QED
  BY <1>1, <1>2, <1>3 DEF Inv, Current

LEMMA OpenSourcesInv == Inv /\ OpenSources => Inv'
<1> SUFFICES ASSUME Inv, OpenSources PROVE Inv'
  OBVIOUS
<1> USE Names DEF OpenSources, Inv, Types, client
<1>1. Types'
  OBVIOUS
<1>2. loop.step = "free"
  BY DEF Rotating
<1>3. Rotating'
  BY <1>2 DEF Rotating
<1>4. \A t \in Threads : local[t] = 0
  BY DEF Logging
<1>5. Logging'
  BY <1>4 DEF Logging, LogName
<1>6. Current'
  BY DEF Current
<1> QED
  BY <1>1, <1>3, <1>5, <1>6 DEF NoRecordLost

LEMMA StartInv == ASSUME NEW c \in Clients, Inv, Start(c) PROVE Inv'
<1> USE Names DEF Start, Inv, Types, client
<1>1. loop.step = "free"
  BY DEF Rotating
<1>2. SourceOf(c) \in SourceNames /\ source'[SourceOf(c)] \in Nat
  OBVIOUS
<1>3. Types'
  <2>1. source' \in [SourceNames -> Nat] /\ made' \in [SourceNames -> Nat]
    BY <1>2
  <2>2. started' \subseteq Clients /\ DOMAIN events' = Clients
    OBVIOUS
  <2>3. UNCHANGED <<setup, lock, handler, local, record, loop>>
    OBVIOUS
  <2>4. Types
    BY Zenon
  <2> HIDE DEF Start, Inv
  <2> QED
    BY <2>1, <2>2, <2>3, <2>4
<1>4. Rotating'
  BY <1>1 DEF Rotating
<1>5. source'[LogName] = source[LogName]
  BY DEF SourceOf, LogName
<1>6. Logging'
  BY <1>5 DEF Logging, LogName
<1>7. Current'
  <2> SUFFICES ASSUME NEW d \in Clients, NEW e \in DOMAIN events'[d]
               PROVE  d \in started' /\ events'[d][e].seg = source'[SourceOf(d)]
    BY StaysCurrent
  <2>1. CASE d = c
    BY <2>1, <1>2
  <2>2. CASE d # c
    <3>1. source'[SourceOf(d)] = source[SourceOf(d)]
      BY <2>2 DEF SourceOf
    <3> QED
      BY <2>2, <3>1 DEF Current
  <2> QED
    BY <2>1, <2>2
<1> QED
  BY <1>3, <1>4, <1>6, <1>7 DEF NoRecordLost

LEMMA DiscoverInv == ASSUME NEW c \in Clients, NEW map \in Maps, Inv, Discover(c, map) PROVE Inv'
<1> USE Names DEF Discover, Inv, Types, Running, Over
<1>1. loop' \in [step : Steps, client : Clients \cup {""}]
  BY DEF Steps, Free
<1>2. Types'
  BY <1>1
<1>3. loop.step = "free" /\ loop'.step \in {"free", "rotate"} /\ (loop'.step = "rotate" => loop'.client = c)
  BY DEF Free
<1>4. Rotating'
  BY <1>3 DEF Rotating
<1>5. Logging'
  BY DEF Logging, LogName
<1>6. Current'
  <2> SUFFICES ASSUME NEW d \in Clients, NEW e \in DOMAIN events'[d]
               PROVE  d \in started' /\ events'[d][e].seg = source'[SourceOf(d)]
    BY StaysCurrent
  <2>1. CASE d = c
    <3>1. CASE e \in DOMAIN events[c]
      BY <2>1, <3>1 DEF Current, SourceOf
    <3>2. CASE e \notin DOMAIN events[c]
      BY <2>1, <3>2 DEF SourceOf
    <3> QED
      BY <3>1, <3>2
  <2>2. CASE d # c
    BY <2>2 DEF Current, SourceOf
  <2> QED
    BY <2>1, <2>2
<1> QED
  BY <1>2, <1>4, <1>5, <1>6 DEF NoRecordLost

\* A connect's steps after its discovery touch nothing the invariant speaks of.
LEMMA ConnectInv ==
    ASSUME NEW c \in Clients, Inv, Resolve(c) \/ ConnectFails(c) PROVE Inv'
<1> USE DEF Inv, Resolve, ConnectFails, sources
<1>1. UNCHANGED <<setup, started, source, made, events, loop, lock, handler, record, local>>
  OBVIOUS
<1>2. Types' /\ NoRecordLost'
  BY <1>1 DEF Types, NoRecordLost
<1>3. Rotating' /\ Logging' /\ Current'
  BY <1>1 DEF Rotating, Logging, Current, SourceOf, LogName
<1> QED
  BY <1>2, <1>3

LEMMA AcquireInv == Inv /\ Acquire => Inv'
<1> SUFFICES ASSUME Inv, Acquire PROVE Inv'
  OBVIOUS
<1> USE Names DEF Acquire, Inv, Types, client, sources, Locks
<1>1. Types'
  BY DEF Steps
<1>2. Rotating'
  BY DEF Rotating, SourceOf
<1>3. \A t \in Threads : lock = "none" => local[t] = 0
  BY SourcesAssumption DEF SourcesAssumption, Logging
<1>4. Logging'
  BY <1>3 DEF Logging, LogName
<1>5. Current'
  BY DEF Current, SourceOf
<1> QED
  BY <1>1, <1>2, <1>4, <1>5 DEF NoRecordLost

LEMMA ReleaseInv == Inv /\ Release => Inv'
<1> SUFFICES ASSUME Inv, Release PROVE Inv'
  OBVIOUS
<1> DEFINE c == loop.client
<1>1. /\ c \in Clients /\ started = Clients /\ loop.step = "held" /\ setup \in Setups
      /\ loop' = [loop EXCEPT !.step = "released"]
      /\ source' = [source EXCEPT ![SourceOf(c)] = 0]
      /\ events' = [d \in Clients |-> IF d \in Moved(c) THEN Empty ELSE events[d]]
      /\ handler' = IF setup.prefixed THEN 0 ELSE handler
      /\ UNCHANGED <<setup, started, made, lock, record, local>>
  BY DEF Release, Inv, Types, Rotating
<1>2. Types /\ Rotating /\ Logging /\ Current /\ NoRecordLost
  BY DEF Inv
<1> HIDE DEF c
<1>3. loop'.step = "released" /\ loop'.client = c
  BY <1>1, <1>2 DEF Types, c
<1>4. Types'
  <2>1. source' \in [SourceNames -> Nat]
    BY <1>1, <1>2 DEF Types
  <2>2. loop' \in [step : Steps, client : Clients \cup {""}]
    BY <1>1, <1>2 DEF Types, Steps
  <2> QED
    BY <1>1, <1>2, <2>1, <2>2 DEF Types
<1>5. Rotating'
  <2>1. SourceOf(loop.client)' = SourceOf(c) /\ SourceOf(c) \in SourceNames
    BY <1>1, <1>3, Names DEF SourceOf
  <2>2. source'[SourceOf(loop.client)'] = 0
    BY <1>1, <1>2, <2>1 DEF Types
  <2> QED
    BY <1>1, <1>2, <1>3, <2>2 DEF Rotating
<1>6. Logging'
  <2>1. CASE setup.prefixed
    <3>1. lock = "loop"
      BY <1>1, <1>2, <2>1 DEF Rotating
    <3>2. \A t \in Threads : local[t] = 0
      BY <1>2, <3>1, SourcesAssumption DEF Logging, SourcesAssumption
    <3> QED
      BY <1>1, <2>1, <3>1, <3>2 DEF Logging
  <2>2. CASE ~setup.prefixed
    <3>1. source'[LogName] = source[LogName]
      BY <1>1, <1>2, <2>2, Names DEF Types
    <3> QED
      BY <1>1, <1>2, <2>2, <3>1 DEF Logging, LogName
  <2> QED
    BY <2>1, <2>2
<1>7. Current'
  <2> SUFFICES ASSUME NEW d \in Clients, NEW e \in DOMAIN events'[d]
               PROVE  d \in started' /\ events'[d][e].seg = source'[SourceOf(d)]
    BY <1>1, StaysCurrent
  <2>1. d \notin Moved(c)
    BY <1>1 DEF Empty
  <2>2. SourceOf(d) # SourceOf(c)
    BY <1>1, <2>1, Names DEF Moved, Sharing
  <2>3. events'[d] = events[d] /\ source'[SourceOf(d)] = source[SourceOf(d)]
    BY <1>1, <1>2, <2>1, <2>2, Names DEF Types
  <2> QED
    BY <1>1, <1>2, <2>3 DEF Current
<1> QED
  BY <1>1, <1>2, <1>4, <1>5, <1>6, <1>7 DEF Inv, NoRecordLost

LEMMA ReopenInv == Inv /\ Reopen => Inv'
<1> SUFFICES ASSUME Inv, Reopen PROVE Inv'
  OBVIOUS
<1> DEFINE c == loop.client
           seg == made[SourceOf(c)] + 1
<1>1. /\ c \in Clients /\ started = Clients /\ loop.step = "released" /\ setup \in Setups
      /\ loop' = [loop EXCEPT !.step = "reopened"]
      /\ made' = [made EXCEPT ![SourceOf(c)] = seg]
      /\ source' = [source EXCEPT ![SourceOf(c)] = seg]
      /\ events' = [d \in Clients |->
                      IF d \in Moved(c) THEN [e \in DOMAIN fields[d] |-> [seg |-> seg, fields |-> fields[d][e]]]
                      ELSE events[d]]
      /\ UNCHANGED <<setup, started, lock, handler, record, local>>
  BY DEF Reopen, Inv, Types, Rotating
<1>2. Types /\ Rotating /\ Logging /\ Current /\ NoRecordLost
  BY DEF Inv
<1>3. seg \in Nat /\ seg # 0 /\ SourceOf(c) \in SourceNames
  <2>1. SourceOf(c) \in SourceNames
    BY <1>1, Names
  <2>2. made[SourceOf(c)] \in Nat
    BY <1>2, <2>1 DEF Types
  <2> QED
    BY <2>1, <2>2
<1> HIDE DEF c, seg
<1>4. loop'.step = "reopened" /\ loop'.client = c
  BY <1>1, <1>2 DEF Types, c
<1>5. Types'
  <2>1. source' \in [SourceNames -> Nat] /\ made' \in [SourceNames -> Nat]
    BY <1>1, <1>2, <1>3 DEF Types
  <2>2. loop' \in [step : Steps, client : Clients \cup {""}]
    BY <1>1, <1>2 DEF Types, Steps
  <2> QED
    BY <1>1, <1>2, <2>1, <2>2 DEF Types
<1>6. source'[SourceOf(c)] = seg
  BY <1>1, <1>2, <1>3 DEF Types
<1>7. Rotating'
  <2>1. SourceOf(loop.client)' = SourceOf(c)
    BY <1>1, <1>4 DEF SourceOf
  <2>2. source'[SourceOf(loop.client)'] # 0
    BY <1>3, <1>6, <2>1
  <2> QED
    BY <1>1, <1>2, <1>4, <2>2 DEF Rotating
<1>8. Logging'
  <2>1. CASE setup.prefixed
    <3>1. lock = "loop"
      BY <1>1, <1>2, <2>1 DEF Rotating
    <3>2. \A t \in Threads : local[t] = 0
      BY <1>2, <3>1, SourcesAssumption DEF Logging, SourcesAssumption
    <3>3. handler = 0
      BY <1>1, <1>2, <2>1, Names DEF Rotating, Logging, c
    <3> QED
      BY <1>1, <3>1, <3>2, <3>3 DEF Logging
  <2>2. CASE ~setup.prefixed
    <3>1. source'[LogName] = source[LogName]
      BY <1>1, <1>2, <2>2, Names DEF Types
    <3> QED
      BY <1>1, <1>2, <2>2, <3>1 DEF Logging, LogName
  <2> QED
    BY <2>1, <2>2
<1>9. Current'
  <2> SUFFICES ASSUME NEW d \in Clients, NEW e \in DOMAIN events'[d]
               PROVE  d \in started' /\ events'[d][e].seg = source'[SourceOf(d)]
    BY <1>1, StaysCurrent
  <2>1. CASE d \in Moved(c)
    <3>1. SourceOf(d) = SourceOf(c)
      BY <1>1, <2>1, Names DEF Moved, Sharing
    <3>2. events'[d][e].seg = seg
      BY <1>1, <2>1
    <3> QED
      BY <1>1, <1>6, <3>1, <3>2
  <2>2. CASE d \notin Moved(c)
    <3>1. SourceOf(d) # SourceOf(c)
      BY <1>1, <2>2, Names DEF Moved, Sharing
    <3>2. events'[d] = events[d] /\ source'[SourceOf(d)] = source[SourceOf(d)]
      BY <1>1, <1>2, <2>2, <3>1, Names DEF Types
    <3> QED
      BY <1>1, <1>2, <3>2 DEF Current
  <2> QED
    BY <2>1, <2>2
<1> QED
  BY <1>1, <1>2, <1>5, <1>7, <1>8, <1>9 DEF Inv, NoRecordLost

LEMMA RestoreLogInv == Inv /\ RestoreLog => Inv'
<1> SUFFICES ASSUME Inv, RestoreLog PROVE Inv'
  OBVIOUS
<1> DEFINE c == loop.client
<1>1. /\ c \in Clients /\ started = Clients /\ loop.step = "reopened" /\ setup \in Setups
      /\ loop' = Free
      /\ handler' = IF setup.prefixed THEN source[SourceOf(c)] ELSE handler
      /\ lock' = IF setup.prefixed THEN "none" ELSE lock
      /\ UNCHANGED <<setup, started, events, source, made, record, local>>
  BY DEF RestoreLog, Inv, Types, Rotating, Locks, client
<1>2. Types /\ Rotating /\ Logging /\ Current /\ NoRecordLost
  BY DEF Inv
<1>3. SourceOf(c) \in SourceNames /\ source[SourceOf(c)] \in Nat /\ source[SourceOf(c)] # 0
  BY <1>1, <1>2, Names DEF Types, Rotating
<1> HIDE DEF c
<1>4. Types'
  BY <1>1, <1>2, <1>3 DEF Types, Steps, Free
<1>5. Rotating'
  BY <1>1, <1>2 DEF Rotating, Free
<1>6. Logging'
  <2>1. CASE setup.prefixed
    <3>1. lock = "loop"
      BY <1>1, <1>2, <2>1 DEF Rotating
    <3>2. \A t \in Threads : local[t] = 0
      BY <1>2, <3>1, SourcesAssumption DEF Logging, SourcesAssumption
    <3>3. handler' = source[LogName] /\ handler' # 0 /\ LogName' = LogName
      BY <1>1, <1>3, <2>1, Names DEF LogName
    <3> QED
      BY <1>1, <3>2, <3>3 DEF Logging
  <2>2. CASE ~setup.prefixed
    BY <1>1, <1>2, <2>2 DEF Logging, LogName
  <2> QED
    BY <2>1, <2>2
<1>7. Current'
  BY <1>1, <1>2 DEF Current, SourceOf
<1> QED
  BY <1>1, <1>2, <1>4, <1>5, <1>6, <1>7 DEF Inv, NoRecordLost

\* A record finds an event: without one the loop has the lock.
LEMMA HandleInv == ASSUME NEW t \in Threads, Inv, Handle(t) PROVE Inv'
<1> USE DEF Handle, Inv, Types, client, sources
<1>1. handler # 0
  BY DEF Logging
<1>2. record' = [record EXCEPT ![t] = "held"] /\ t \notin {"none", "loop"}
  BY <1>1, SourcesAssumption DEF SourcesAssumption
<1>3. Types'
  BY <1>2
<1>4. Rotating'
  BY <1>2 DEF Rotating, SourceOf
<1>5. \A u \in Threads : local[u] = 0
  BY SourcesAssumption DEF SourcesAssumption, Logging
<1>6. Logging'
  BY <1>1, <1>5 DEF Logging, LogName
<1>7. Current'
  BY DEF Current, SourceOf
<1>8. NoRecordLost'
  BY <1>2 DEF NoRecordLost
<1> QED
  BY <1>3, <1>4, <1>6, <1>7, <1>8

LEMMA EmitInv == ASSUME NEW t \in Threads, Inv, Emit(t) PROVE Inv'
<1> USE DEF Emit, Inv, Types, client, sources
<1>1. t \notin {"none", "loop"}
  BY SourcesAssumption DEF SourcesAssumption
<1>2. Types'
  OBVIOUS
<1>3. Rotating'
  BY <1>1 DEF Rotating, SourceOf
<1>4. \A u \in Threads : local'[u] = 0
  BY <1>1 DEF Logging
<1>5. handler # 0 \/ started = {}
  BY <1>1 DEF Logging
<1>6. Logging'
  BY <1>4, <1>5 DEF Logging, LogName
<1>7. Current'
  BY DEF Current, SourceOf
<1>8. NoRecordLost'
  BY DEF NoRecordLost
<1> QED
  BY <1>2, <1>3, <1>6, <1>7, <1>8

LEMMA StepInv == Inv /\ [Next]_vars => Inv'
<1> SUFFICES ASSUME Inv, [Next]_vars PROVE Inv'
  OBVIOUS
<1>1. CASE OpenSources
  BY <1>1, OpenSourcesInv
<1>2. ASSUME NEW c \in Clients, Start(c) \/ \E map \in Maps : Discover(c, map) PROVE Inv'
  BY <1>2, StartInv, DiscoverInv
<1>3. ASSUME NEW c \in Clients, Resolve(c) \/ ConnectFails(c) PROVE Inv'
  BY <1>3, ConnectInv
<1>4. CASE Rotation
  BY <1>4, AcquireInv, ReleaseInv, ReopenInv, RestoreLogInv DEF Rotation
<1>5. ASSUME NEW t \in Threads, Handle(t) \/ Emit(t) PROVE Inv'
  BY <1>5, HandleInv, EmitInv
<1>6. CASE UNCHANGED vars
  <2>1. UNCHANGED <<setup, started, source, made, events, loop, lock, handler, record, local>>
    BY <1>6 DEF vars, sources, client
  <2> QED
    BY <2>1 DEF Inv, Types, Rotating, Logging, Current, NoRecordLost, SourceOf, LogName
<1> QED
  BY <1>1, <1>2, <1>3, <1>4, <1>5, <1>6 DEF Next

\* The inductive invariant.
THEOREM Invariant == Spec => []Inv
  BY InitInv, StepInv, PTL DEF Spec

\* Whatever refers to a segment of a source refers to the source's.
LEMMA ReferredIsCurrent ==
    ASSUME Inv, NEW n \in DOMAIN source PROVE Referred(n) \subseteq {source[n]}
<1> SUFFICES ASSUME NEW s \in Referred(n) PROVE s = source[n]
  OBVIOUS
<1>1. CASE \E c \in Clients : SourceOf(c) = n /\ \E e \in DOMAIN events[c] : s = events[c][e].seg
  BY <1>1 DEF Inv, Current
<1>2. CASE n = LogName /\ s = handler /\ s # 0
  BY <1>2 DEF Inv, Logging
<1>3. CASE n = LogName /\ s # 0 /\ \E t \in Threads : s = local[t]
  BY <1>3 DEF Inv, Logging
<1>4. Range(local) = {local[t] : t \in Threads}
  BY DEF Inv, Types, Range
<1> QED
  BY <1>1, <1>2, <1>3, <1>4 DEF Referred

\* A record is never lost to a rotation.
THEOREM RecordsKept == Spec => []NoRecordLost
  BY Invariant, PTL DEF Inv

\* A segment ends before the next one starts: what refers to one refers to the source's own.
THEOREM OneSegmentAtATime == Spec => []OneSegment
<1>1. Inv => OneSegment
  <2> SUFFICES ASSUME Inv, NEW n \in DOMAIN source PROVE Cardinality(Referred(n)) <= 1
    BY DEF OneSegment
  <2>1. Referred(n) = {} \/ Referred(n) = {source[n]}
    BY ReferredIsCurrent
  <2>2. Cardinality({}) = 0 /\ Cardinality({source[n]}) = 1
    BY FS_EmptySet, FS_Singleton
  <2> QED
    BY <2>1, <2>2
<1> QED
  BY Invariant, <1>1, PTL

-----------------------------------------------------------------------------
(* Rows: what the clients know, what they log, and what was declared *)

\* Every event and field of a map is among fs, with that datatype.
Fits(map, fs) ==
    \A e \in DOMAIN map :
        /\ e \in DOMAIN fs
        /\ \A f \in DOMAIN map[e] : f \in DOMAIN fs[e] /\ fs[e][f] = map[e][f]

\* The events evs were declared with the fields fs.
Matches(evs, fs) ==
    /\ DOMAIN evs = DOMAIN fs
    /\ \A e \in DOMAIN fs :
        /\ DOMAIN evs[e].fields = DOMAIN fs[e]
        /\ \A f \in DOMAIN fs[e] : evs[e].fields[f] = fs[e][f]

\* The values of the rest of the state.
RowTypes ==
    /\ connecting \subseteq started
    /\ DOMAIN fields = Clients /\ DOMAIN schemas = Clients /\ DOMAIN nodeMap = Clients
    /\ DOMAIN targets = Clients
    /\ \A n \in SourceNames : source[n] \in {0, made[n]}
    /\ \A t \in Threads : local[t] # 0 => record[t] = "held"

\* The schemas fix the fields; a client that discovers has no event beside them but health's.
Schemed ==
    \A c \in Clients :
        /\ DOMAIN schemas[c] \subseteq DOMAIN fields[c] \ {HealthEvent}
        /\ \A e \in DOMAIN schemas[c] : schemas[c][e] = fields[c][e]
        /\ c \in started => HealthEvent \in DOMAIN fields[c]
        /\ setup.discovery[c] => DOMAIN fields[c] \subseteq DOMAIN schemas[c] \cup {HealthEvent}
        /\ c \notin started => /\ DOMAIN fields[c] = {} /\ DOMAIN targets[c] = {}

\* What a client logs, and what it is about to log, fits.
Fitting ==
    \A c \in Clients :
        /\ HealthEvent \notin DOMAIN nodeMap[c]
        /\ Fits(targets[c], fields[c])
        /\ c \in started /\ (c \in connecting \/ ~setup.discovery[c]) => Fits(Mapped(nodeMap[c]), fields[c])

\* Events lag behind the fields only in the rotation that brings them up.
Matching ==
    \A c \in Clients :
        (loop.step \in {"free", "reopened"} \/ c \notin Moved(loop.client)) => Matches(events[c], fields[c])

RowsInv == RowTypes /\ Schemed /\ Fitting /\ Matching

known == <<setup, started, fields, schemas, events, nodeMap, targets, connecting, loop>>

LEMMA InitRows == Init => RowsInv
<1> SUFFICES ASSUME Init PROVE RowsInv
  OBVIOUS
<1> USE DEF Init
<1>1. \A c \in Clients : /\ DOMAIN events[c] = {} /\ DOMAIN fields[c] = {} /\ DOMAIN schemas[c] = {}
                         /\ DOMAIN targets[c] = {}
  BY DEF Empty
<1>2. RowTypes
  <2>1. nodeMap = setup.fixed /\ setup \in Setups
    OBVIOUS
  <2>2. DOMAIN nodeMap = Clients
    BY <2>1, SourcesAssumption DEF SourcesAssumption
  <2> QED
    BY <2>2 DEF RowTypes, SourceNames
<1>3. Schemed
  BY <1>1 DEF Schemed
<1>4. Matching
  BY <1>1 DEF Matching, Matches
<1>5. Fitting
  <2>1. ASSUME NEW c \in Clients PROVE HealthEvent \notin DOMAIN nodeMap[c]
    <3>1. nodeMap[c] \in {s.fixed[d] : s \in Setups, d \in Clients}
      OBVIOUS
    <3> QED
      BY <3>1, SourcesAssumption DEF SourcesAssumption
  <2> QED
    BY <1>1, <2>1 DEF Fitting, Fits
<1> QED
  BY <1>2, <1>3, <1>4, <1>5 DEF RowsInv

\* Steps that touch nothing of what the clients know.
LEMMA RowsStay ==
    ASSUME Schemed, Fitting, Matching, UNCHANGED known PROVE (Schemed /\ Fitting /\ Matching)'
<1> USE DEF known
<1>1. Schemed'
  BY DEF Schemed
<1>2. Fitting'
  BY DEF Fitting, Mapped
<1>3. Matching'
  BY DEF Matching, Moved, Sharing
<1> QED
  BY <1>1, <1>2, <1>3

LEMMA OpenSourcesRows == Inv /\ RowsInv /\ OpenSources => RowsInv'
<1> SUFFICES ASSUME Inv, RowsInv, OpenSources PROVE RowsInv'
  OBVIOUS
<1>1. UNCHANGED known
  BY DEF OpenSources, known, client
<1>2. RowTypes'
  BY Names DEF OpenSources, client, Inv, Types, RowsInv, RowTypes
<1> QED
  BY <1>1, <1>2, RowsStay DEF RowsInv

LEMMA LogRows == ASSUME NEW t \in Threads, Inv, RowsInv, Handle(t) \/ Emit(t) PROVE RowsInv'
<1>1. UNCHANGED known
  BY DEF Handle, Emit, known, client
<1>2. RowTypes'
  <2>1. UNCHANGED <<connecting, started, fields, schemas, nodeMap, targets, source, made>>
    BY DEF Handle, Emit, client, sources
  <2>2. CASE Handle(t)
    BY <2>1, <2>2 DEF Handle, Inv, Types, RowsInv, RowTypes
  <2>3. CASE Emit(t)
    <3>1. \A u \in Threads : u # t => local[u] = 0
      BY <2>3 DEF Emit, Inv, Logging
    <3>2. \A u \in Threads : local'[u] = 0
      BY <2>3, <3>1 DEF Emit, Inv, Types
    <3> QED
      BY <2>1, <3>2 DEF RowsInv, RowTypes
  <2> QED
    BY <2>2, <2>3
<1> QED
  BY <1>1, <1>2, RowsStay DEF RowsInv

\* The start declares health's event and the map's, and knows them.
LEMMA StartRows == ASSUME NEW c \in Clients, Inv, RowsInv, Start(c) PROVE RowsInv'
<1> DEFINE own == Mapped(nodeMap[c])
<1>1. /\ c \notin started /\ started' = started \cup {c} /\ setup \in Setups
      /\ fields' = [fields EXCEPT ![c] = StartEvents(c)]
      /\ schemas' = [schemas EXCEPT ![c] = own]
      /\ UNCHANGED <<setup, nodeMap, targets, connecting, loop, record, local>>
  BY DEF Start, Inv, Types
<1>2. RowTypes /\ Schemed /\ Fitting /\ Matching /\ Types /\ Rotating
  BY DEF RowsInv, Inv
<1>3. loop.step = "free"
  BY <1>1, <1>2 DEF Rotating
<1>4. DOMAIN own \subseteq DOMAIN nodeMap[c] /\ HealthEvent \notin DOMAIN own
  BY <1>2 DEF Fitting, Mapped
<1>5. /\ HealthEvent \in DOMAIN StartEvents(c) /\ DOMAIN own \subseteq DOMAIN StartEvents(c)
      /\ \A e \in DOMAIN own : StartEvents(c)[e] = own[e]
      /\ setup.discovery[c] => DOMAIN StartEvents(c) \subseteq DOMAIN own \cup {HealthEvent}
  <2>1. CASE own # Empty
    BY <1>4, <2>1 DEF StartEvents, Over
  <2>2. CASE own = Empty
    <3>1. DOMAIN own = {}
      BY <2>2 DEF Empty
    <3> QED
      BY <2>2, <3>1 DEF StartEvents, Over, Empty
  <2> QED
    BY <2>1, <2>2
<1>6. events'[c] = [e \in DOMAIN StartEvents(c) |->
                      [seg |-> IF setup.prefixed THEN source[SourceOf(c)] ELSE 1,
                       fields |-> StartEvents(c)[e]]]
      /\ \A d \in Clients : d # c => events'[d] = events[d]
  BY <1>2 DEF Start, Types
<1>7. /\ fields'[c] = StartEvents(c) /\ schemas'[c] = own
      /\ \A d \in Clients : d # c => fields'[d] = fields[d] /\ schemas'[d] = schemas[d]
  BY <1>1, <1>2 DEF RowTypes
<1> HIDE DEF own
<1>8. RowTypes'
  <2>1. \A n \in SourceNames : source'[n] \in {0, made'[n]}
    BY <1>2 DEF Start, Types, RowTypes
  <2> QED
    BY <1>1, <1>2, <2>1 DEF RowTypes
<1>9. Schemed'
  BY <1>1, <1>2, <1>4, <1>5, <1>7 DEF Schemed
<1>10. Fitting'
  <2> SUFFICES ASSUME NEW d \in Clients
               PROVE  (/\ HealthEvent \notin DOMAIN nodeMap[d]
                       /\ Fits(targets[d], fields[d])
                       /\ d \in started /\ (d \in connecting \/ ~setup.discovery[d])
                            => Fits(Mapped(nodeMap[d]), fields[d]))'
    BY DEF Fitting
  <2>1. CASE d = c
    <3>1. DOMAIN targets[c] = {} /\ c \notin connecting
      BY <1>1, <1>2 DEF Schemed, RowTypes
    <3>2. Fits(targets[c], fields[c])'
      BY <1>1, <3>1 DEF Fits
    <3>3. Fits(Mapped(nodeMap[c]), fields[c])'
      BY <1>1, <1>5, <1>7 DEF Fits, Mapped, own
    <3> QED
      BY <1>1, <1>2, <2>1, <3>2, <3>3 DEF Fitting
  <2>2. CASE d # c
    BY <1>1, <1>2, <1>7, <2>2 DEF Fitting, Mapped
  <2> QED
    BY <2>1, <2>2
<1>11. Matching'
  <2>1. \A d \in Clients : Matches(events[d], fields[d])
    BY <1>2, <1>3 DEF Matching
  <2>2. Matches(events[c], fields[c])'
    BY <1>6, <1>7 DEF Matches
  <2>3. \A d \in Clients : d # c => Matches(events[d], fields[d])'
    BY <1>6, <1>7, <2>1 DEF Matches
  <2> QED
    BY <2>2, <2>3 DEF Matching
<1> QED
  BY <1>8, <1>9, <1>10, <1>11 DEF RowsInv

LEMMA ConnectRows == ASSUME NEW c \in Clients, Inv, RowsInv, Resolve(c) \/ ConnectFails(c) PROVE RowsInv'
<1>1. /\ UNCHANGED <<setup, started, fields, schemas, events, nodeMap, loop, source, made, local, record>>
      /\ connecting' \subseteq connecting /\ started = Clients
      /\ targets' = targets \/ targets' = [targets EXCEPT ![c] = Mapped(nodeMap[c])]
      /\ targets' = targets \/ c \in connecting \/ ~setup.discovery[c]
  BY DEF Resolve, ConnectFails, sources, Running
<1>2. RowTypes /\ Schemed /\ Fitting /\ Matching
  BY DEF RowsInv
<1>3. RowTypes'
  <2>1. DOMAIN targets' = Clients
    <3>1. CASE targets' = targets
      BY <1>2, <3>1 DEF RowTypes
    <3>2. CASE targets' = [targets EXCEPT ![c] = Mapped(nodeMap[c])]
      BY <1>2, <3>2 DEF RowTypes
    <3> QED
      BY <1>1, <3>1, <3>2
  <2> QED
    BY <1>1, <1>2, <2>1 DEF RowTypes
<1>4. Schemed'
  BY <1>1, <1>2 DEF Schemed
<1>5. Fitting'
  <2>1. \A d \in Clients : targets'[d] = targets[d] \/
            (d = c /\ targets'[d] = Mapped(nodeMap[c]) /\ (c \in connecting \/ ~setup.discovery[c]))
    <3>1. CASE targets' = targets
      BY <3>1
    <3>2. ASSUME targets' = [targets EXCEPT ![c] = Mapped(nodeMap[c])], NEW d \in Clients
          PROVE  IF d = c THEN targets'[d] = Mapped(nodeMap[c]) ELSE targets'[d] = targets[d]
      BY <1>2, <3>2 DEF RowTypes
    <3> QED
      BY <1>1, <3>1, <3>2
  <2>2. \A d \in Clients : Fits(targets'[d], fields[d])
    BY <1>1, <1>2, <2>1 DEF Fitting
  <2> QED
    BY <1>1, <1>2, <2>2 DEF Fitting, Mapped
<1>6. Matching'
  BY <1>1, <1>2 DEF Matching, Moved, Sharing
<1> QED
  BY <1>3, <1>4, <1>5, <1>6 DEF RowsInv

\* A rotation changes no field; it takes the events of the clients it moves, and gives them
\* back with the fields they have by now.
LEMMA RotationRows == Inv /\ RowsInv /\ Rotation => RowsInv'
<1> SUFFICES ASSUME Inv, RowsInv, Rotation PROVE RowsInv'
  OBVIOUS
<1> USE DEF Rotation
<1>1. UNCHANGED <<setup, started, fields, schemas, nodeMap, targets, connecting, local, record>>
  BY DEF Acquire, Release, Reopen, RestoreLog, client
<1>2. RowTypes /\ Schemed /\ Fitting /\ Matching /\ Types
  BY DEF RowsInv, Inv
<1>3. RowTypes'
  <2>1. \A n \in SourceNames : source'[n] \in {0, made'[n]}
    <3>1. CASE Acquire \/ RestoreLog
      BY <1>2, <3>1 DEF Acquire, RestoreLog, sources, RowTypes
    <3>2. CASE Release
      BY <1>2, <3>2 DEF Release, RowTypes, Types
    <3>3. CASE Reopen
      BY <1>2, <3>3 DEF Reopen, RowTypes, Types
    <3> QED
      BY <3>1, <3>2, <3>3
  <2> QED
    BY <1>1, <1>2, <2>1 DEF RowTypes
<1>4. Schemed'
  BY <1>1, <1>2 DEF Schemed
<1>5. Fitting'
  BY <1>1, <1>2 DEF Fitting, Mapped
<1>6. Matching'
  <2>1. CASE Acquire
    <3>1. /\ loop.step = "rotate" /\ loop' = [loop EXCEPT !.step = "held"] /\ events' = events
      BY <2>1 DEF Acquire, client
    <3>2. loop'.step = "held" /\ loop'.client = loop.client
      BY <1>2, <3>1 DEF Types
    <3> QED
      BY <1>1, <1>2, <3>1, <3>2 DEF Matching, Moved, Sharing
  <2>2. CASE Release
    <3>1. /\ loop' = [loop EXCEPT !.step = "released"] /\ loop.step = "held"
          /\ \A d \in Clients : d \notin Moved(loop.client) => events'[d] = events[d]
      BY <2>2 DEF Release
    <3>2. loop'.step = "released" /\ loop'.client = loop.client
      BY <1>2, <3>1 DEF Types
    <3> QED
      BY <1>1, <1>2, <3>1, <3>2 DEF Matching, Moved, Sharing
  <2>3. CASE Reopen
    <3>1. /\ loop.step = "released"
          /\ \A d \in Clients : d \notin Moved(loop.client) => events'[d] = events[d]
          /\ \A d \in Clients : d \in Moved(loop.client) =>
                events'[d] = [e \in DOMAIN fields[d] |->
                                [seg |-> made[SourceOf(loop.client)] + 1, fields |-> fields[d][e]]]
      BY <2>3 DEF Reopen
    <3>2. \A d \in Clients : d \notin Moved(loop.client) => Matches(events[d], fields[d])'
      BY <1>1, <1>2, <3>1 DEF Matching, Matches
    <3>3. \A d \in Clients : d \in Moved(loop.client) => Matches(events[d], fields[d])'
      <4> SUFFICES ASSUME NEW d \in Clients, d \in Moved(loop.client)
                   PROVE  Matches(events'[d], fields[d])
        BY <1>1
      <4>1. events'[d] = [e \in DOMAIN fields[d] |->
                            [seg |-> made[SourceOf(loop.client)] + 1, fields |-> fields[d][e]]]
        BY <3>1
      <4> QED
        BY <4>1 DEF Matches
    <3> QED
      BY <3>2, <3>3 DEF Matching
  <2>4. CASE RestoreLog
    <3>1. loop.step = "reopened" /\ events' = events
      BY <2>4 DEF RestoreLog, client
    <3> QED
      BY <1>1, <1>2, <3>1 DEF Matching, Matches
  <2> QED
    BY <2>1, <2>2, <2>3, <2>4
<1> QED
  BY <1>3, <1>4, <1>5, <1>6 DEF RowsInv

\* Extending keeps every field that was there.
LEMMA ExtendedKeeps ==
    \A before, more :
        /\ DOMAIN Extended(before, more) = DOMAIN before \cup DOMAIN more
        /\ \A e \in DOMAIN before :
            /\ DOMAIN before[e] \subseteq DOMAIN Extended(before, more)[e]
            /\ \A f \in DOMAIN before[e] : Extended(before, more)[e][f] = before[e][f]
        /\ \A e \in DOMAIN before \ DOMAIN more : Extended(before, more)[e] = before[e]
        /\ \A e \in DOMAIN more \ DOMAIN before : Extended(before, more)[e] = more[e]
        /\ \A e \in DOMAIN more \cap DOMAIN before :
            Extended(before, more)[e] = Over(before[e], more[e])
<1> SUFFICES ASSUME NEW before, NEW more
             PROVE  /\ DOMAIN Extended(before, more) = DOMAIN before \cup DOMAIN more
                    /\ \A e \in DOMAIN before :
                        /\ DOMAIN before[e] \subseteq DOMAIN Extended(before, more)[e]
                        /\ \A f \in DOMAIN before[e] : Extended(before, more)[e][f] = before[e][f]
                    /\ \A e \in DOMAIN before \ DOMAIN more : Extended(before, more)[e] = before[e]
                    /\ \A e \in DOMAIN more \ DOMAIN before : Extended(before, more)[e] = more[e]
                    /\ \A e \in DOMAIN more \cap DOMAIN before :
                        Extended(before, more)[e] = Over(before[e], more[e])
  OBVIOUS
<1>1. DOMAIN Extended(before, more) = DOMAIN before \cup DOMAIN more
  BY DEF Extended
<1>2. \A e \in DOMAIN before \ DOMAIN more : Extended(before, more)[e] = before[e]
  BY DEF Extended
<1>3. \A e \in DOMAIN more \ DOMAIN before : Extended(before, more)[e] = more[e]
  BY DEF Extended
<1>4. \A e \in DOMAIN more \cap DOMAIN before : Extended(before, more)[e] = Over(before[e], more[e])
  BY DEF Extended
<1>5. ASSUME NEW e \in DOMAIN before
      PROVE  /\ DOMAIN before[e] \subseteq DOMAIN Extended(before, more)[e]
             /\ \A f \in DOMAIN before[e] : Extended(before, more)[e][f] = before[e][f]
  BY <1>2, <1>4 DEF Over
<1> QED
  BY <1>1, <1>2, <1>3, <1>4, <1>5

\* A discovery declares what is new, extends what is known, and leaves out what has changed.
LEMMA DiscoverRows ==
    ASSUME NEW c \in Clients, NEW map \in Maps, Inv, RowsInv, Discover(c, map) PROVE RowsInv'
<1> DEFINE found == Mapped(map)
<1>1. /\ loop = Free /\ started = Clients /\ setup.discovery[c] /\ connecting' = connecting \cup {c}
      /\ nodeMap' = [nodeMap EXCEPT ![c] =
            [e \in DOMAIN map |-> IF e \in Known(c, map) THEN Unchanged(schemas[c][e], map[e])
                                  ELSE map[e]]]
      /\ schemas' = [schemas EXCEPT ![c] = Extended(schemas[c], found)]
      /\ fields' = [fields EXCEPT ![c] = Extended(fields[c], found)]
      /\ events' = [events EXCEPT ![c] =
            Over(events[c], [e \in New(c, map) |-> [seg |-> source[SourceOf(c)], fields |-> map[e]]])]
      /\ loop' = IF Added(c, map) THEN [step |-> "rotate", client |-> c] ELSE Free
      /\ UNCHANGED <<setup, started, targets, source, made, record, local>>
  BY DEF Discover, Running
<1>2. RowTypes /\ Schemed /\ Fitting /\ Matching /\ Types
  BY DEF RowsInv, Inv
<1>3. /\ DOMAIN found \subseteq DOMAIN map /\ HealthEvent \notin DOMAIN map
      /\ \A e \in DOMAIN found : found[e] = map[e]
      /\ \A e \in DOMAIN map : e \notin DOMAIN found => map[e] = Empty
  <2>1. map \in Maps \cup {s.fixed[d] : s \in Setups, d \in Clients}
    OBVIOUS
  <2> QED
    BY <2>1, SourcesAssumption DEF SourcesAssumption, Mapped
<1> HIDE DEF found
<1>4. /\ fields'[c] = Extended(fields[c], found) /\ schemas'[c] = Extended(schemas[c], found)
      /\ \A d \in Clients : d # c => /\ fields'[d] = fields[d] /\ schemas'[d] = schemas[d]
                                     /\ events'[d] = events[d] /\ nodeMap'[d] = nodeMap[d]
  BY <1>1, <1>2 DEF RowTypes, Types
<1>5. Matches(events[c], fields[c]) /\ \A e \in DOMAIN schemas[c] : e \in DOMAIN fields[c] /\ schemas[c][e] = fields[c][e]
  BY <1>1, <1>2 DEF Matching, Schemed, Free
<1>6. \A e \in DOMAIN found : e \in DOMAIN fields[c] <=> e \in DOMAIN schemas[c]
  BY <1>1, <1>2, <1>3 DEF Schemed
<1>7. DOMAIN fields'[c] = DOMAIN fields[c] \cup DOMAIN found
  BY <1>4, ExtendedKeeps
<1>8. RowTypes'
  BY <1>1, <1>2 DEF RowTypes
<1>9. Schemed'
  <2>2. DOMAIN schemas'[c] = DOMAIN schemas[c] \cup DOMAIN found
    BY <1>4, ExtendedKeeps
  <2>3. \A e \in DOMAIN schemas'[c] : schemas'[c][e] = fields'[c][e]
    <3> SUFFICES ASSUME NEW e \in DOMAIN schemas'[c] PROVE schemas'[c][e] = fields'[c][e]
      OBVIOUS
    <3>1. CASE e \notin DOMAIN found
      BY <1>4, <1>5, <2>2, <3>1, ExtendedKeeps
    <3>2. CASE e \in DOMAIN found /\ e \in DOMAIN schemas[c]
      <4>1. schemas'[c][e] = Over(schemas[c][e], found[e])
        BY <1>4, <3>2, ExtendedKeeps
      <4>2. fields'[c][e] = Over(fields[c][e], found[e])
        BY <1>4, <1>5, <3>2, ExtendedKeeps
      <4> QED
        BY <1>5, <3>2, <4>1, <4>2
    <3>3. CASE e \in DOMAIN found /\ e \notin DOMAIN schemas[c]
      <4>1. schemas'[c][e] = found[e]
        BY <1>4, <3>3, ExtendedKeeps
      <4>2. fields'[c][e] = found[e]
        BY <1>4, <1>6, <3>3, ExtendedKeeps
      <4> QED
        BY <4>1, <4>2
    <3> QED
      BY <3>1, <3>2, <3>3
  <2>4. DOMAIN schemas'[c] \subseteq DOMAIN fields'[c] \ {HealthEvent}
    BY <1>2, <1>3, <1>7, <2>2 DEF Schemed
  <2>5. HealthEvent \in DOMAIN fields'[c] /\ DOMAIN fields'[c] \subseteq DOMAIN schemas'[c] \cup {HealthEvent}
    BY <1>1, <1>2, <1>7, <2>2 DEF Schemed
  <2> QED
    BY <1>1, <1>2, <1>4, <2>3, <2>4, <2>5 DEF Schemed
<1>10. Fitting'
  <2>1. Fits(targets[c], fields[c])'
    <3> SUFFICES ASSUME NEW e \in DOMAIN targets[c]
                 PROVE  /\ e \in DOMAIN fields'[c]
                        /\ \A f \in DOMAIN targets[c][e] :
                              f \in DOMAIN fields'[c][e] /\ fields'[c][e][f] = targets[c][e][f]
      BY <1>1 DEF Fits
    <3>1. /\ e \in DOMAIN fields[c]
          /\ \A f \in DOMAIN targets[c][e] :
                f \in DOMAIN fields[c][e] /\ fields[c][e][f] = targets[c][e][f]
      BY <1>2 DEF Fitting, Fits
    <3>2. e \in DOMAIN fields'[c] /\ DOMAIN fields[c][e] \subseteq DOMAIN fields'[c][e]
      <4>1. e \in DOMAIN fields'[c]
        BY <3>1, <1>7
      <4>2. DOMAIN fields[c][e] \subseteq DOMAIN fields'[c][e]
        BY <1>4, <3>1, ExtendedKeeps
      <4> QED
        BY <4>1, <4>2
    <3>3. \A f \in DOMAIN fields[c][e] : fields'[c][e][f] = fields[c][e][f]
      BY <1>4, <3>1, ExtendedKeeps
    <3> QED
      BY <3>1, <3>2, <3>3
  <2>2. /\ nodeMap'[c] = [e \in DOMAIN map |-> IF e \in Known(c, map) THEN Unchanged(schemas[c][e], map[e])
                                               ELSE map[e]]
        /\ HealthEvent \notin DOMAIN nodeMap'[c]
    BY <1>1, <1>2, <1>3 DEF RowTypes
  <2>3. Fits(Mapped(nodeMap[c]), fields[c])'
    <3> SUFFICES ASSUME NEW e \in DOMAIN map, nodeMap'[c][e] # Empty
                 PROVE  /\ e \in DOMAIN fields'[c]
                        /\ \A f \in DOMAIN nodeMap'[c][e] :
                              f \in DOMAIN fields'[c][e] /\ fields'[c][e][f] = nodeMap'[c][e][f]
      BY <2>2 DEF Fits, Mapped
    <3>1. CASE e \in Known(c, map)
      <4>1. e \in DOMAIN found /\ e \in DOMAIN schemas[c] /\ e \in DOMAIN fields[c]
        BY <1>5, <3>1 DEF Known, found
      <4>2. fields'[c][e] = Over(fields[c][e], map[e]) /\ e \in DOMAIN fields'[c]
        <5>1. e \in DOMAIN fields'[c]
          BY <4>1, <1>7
        <5>2. fields'[c][e] = Over(fields[c][e], found[e])
          BY <1>4, <4>1, ExtendedKeeps
        <5> QED
          BY <1>3, <4>1, <5>1, <5>2
      <4>3. nodeMap'[c][e] = Unchanged(fields[c][e], map[e])
        BY <1>5, <2>2, <3>1, <4>1
      <4> QED
        BY <4>2, <4>3 DEF Unchanged, Restrict, Over
    <3>2. CASE e \notin Known(c, map)
      <4>1. nodeMap'[c][e] = map[e]
        BY <2>2, <3>2
      <4>2. e \in DOMAIN found /\ e \notin DOMAIN schemas[c] /\ e \notin DOMAIN fields[c]
        BY <1>3, <1>6, <3>2, <4>1 DEF Known, found
      <4>3. fields'[c][e] = map[e] /\ e \in DOMAIN fields'[c]
        <5>1. e \in DOMAIN fields'[c]
          BY <4>2, <1>7
        <5>2. fields'[c][e] = found[e]
          BY <1>4, <4>2, ExtendedKeeps
        <5> QED
          BY <1>3, <4>2, <5>1, <5>2
      <4> QED
        BY <4>1, <4>3
    <3> QED
      BY <3>1, <3>2
  <2>4. ASSUME NEW d \in Clients, d # c
        PROVE  (/\ HealthEvent \notin DOMAIN nodeMap[d]
                /\ Fits(targets[d], fields[d])
                /\ d \in started /\ (d \in connecting \/ ~setup.discovery[d]) => Fits(Mapped(nodeMap[d]), fields[d]))'
    BY <1>1, <1>2, <1>4, <2>4 DEF Fitting, Mapped
  <2> QED
    BY <2>1, <2>2, <2>3, <2>4 DEF Fitting
<1>11. Matching'
  <2>1. CASE Added(c, map)
    <3>1. loop' = [step |-> "rotate", client |-> c]
      BY <1>1, <2>1
    <3>2. loop'.step = "rotate" /\ loop'.client = c
      BY <3>1
    <3>3. \A d \in Clients : d \notin Moved(c) => d # c
      BY <1>1 DEF Moved, Sharing
    <3>4. \A d \in Clients : d # c => Matches(events[d], fields[d])
      BY <1>1, <1>2 DEF Matching, Free
    <3>5. \A d \in Clients : d # c => Matches(events[d], fields[d])'
      BY <1>4, <3>4 DEF Matches
    <3>6. \A d \in Clients : d \notin Moved(loop.client)' => d # c
      BY <1>1, <3>2, <3>3 DEF Moved, Sharing
    <3> QED
      BY <3>2, <3>5, <3>6 DEF Matching
  <2>2. CASE ~Added(c, map)
    <3>1. events'[c] = Over(events[c], [e \in New(c, map) |-> [seg |-> source[SourceOf(c)], fields |-> map[e]]])
      BY <1>1, <1>2 DEF Types
    <3>2. DOMAIN events'[c] = DOMAIN events[c] \cup New(c, map)
      BY <3>1 DEF Over
    <3>3. New(c, map) = DOMAIN found \ DOMAIN schemas[c]
      BY DEF New, found
    <3>4. DOMAIN events'[c] = DOMAIN fields'[c]
      BY <1>5, <1>6, <1>7, <3>2, <3>3 DEF Matches
    <3>5. ASSUME NEW e \in DOMAIN fields'[c]
          PROVE  /\ DOMAIN events'[c][e].fields = DOMAIN fields'[c][e]
                 /\ \A f \in DOMAIN fields'[c][e] : events'[c][e].fields[f] = fields'[c][e][f]
      <4>1. CASE e \in DOMAIN fields[c] /\ e \notin DOMAIN found
        <5>1. fields'[c][e] = fields[c][e]
          BY <1>4, <4>1, ExtendedKeeps
        <5>2. events'[c][e] = events[c][e]
          BY <1>5, <3>1, <4>1 DEF Matches, Over
        <5> QED
          BY <1>5, <4>1, <5>1, <5>2 DEF Matches
      <4>2. CASE e \in DOMAIN fields[c] /\ e \in DOMAIN found
        <5>1. e \in DOMAIN schemas[c] /\ schemas[c][e] = fields[c][e]
          BY <1>5, <1>6, <4>2
        <5>2. DOMAIN map[e] \subseteq DOMAIN fields[c][e]
          BY <2>2, <4>2, <5>1 DEF Added, Known, found
        <5>3. fields'[c][e] = Over(fields[c][e], map[e])
          BY <1>3, <1>4, <4>2, ExtendedKeeps
        <5>4. DOMAIN fields'[c][e] = DOMAIN fields[c][e]
          BY <5>2, <5>3 DEF Over
        <5>5. \A f \in DOMAIN fields[c][e] : fields'[c][e][f] = fields[c][e][f]
          BY <5>3 DEF Over
        <5>6. events'[c][e] = events[c][e]
          BY <1>5, <3>1, <4>2 DEF Matches, Over
        <5> QED
          BY <1>5, <4>2, <5>4, <5>5, <5>6 DEF Matches
      <4>3. CASE e \notin DOMAIN fields[c]
        <5>1. e \in DOMAIN found /\ e \in New(c, map) /\ e \notin DOMAIN events[c]
          BY <1>5, <1>6, <1>7, <3>3, <4>3 DEF Matches
        <5>2. fields'[c][e] = map[e]
          BY <1>3, <1>4, <4>3, <5>1, ExtendedKeeps
        <5>3. events'[c][e] = [seg |-> source[SourceOf(c)], fields |-> map[e]]
          BY <3>1, <5>1 DEF Over
        <5> QED
          BY <5>2, <5>3
      <4> QED
        BY <4>1, <4>2, <4>3
    <3>6. Matches(events[c], fields[c])'
      BY <3>4, <3>5 DEF Matches
    <3>7. \A d \in Clients : d # c => Matches(events[d], fields[d])'
      BY <1>1, <1>2, <1>4 DEF Matching, Free
    <3> QED
      BY <3>6, <3>7 DEF Matching
  <2> QED
    BY <2>1, <2>2
<1> QED
  BY <1>8, <1>9, <1>10, <1>11 DEF RowsInv

LEMMA StepRows == Inv /\ RowsInv /\ [Next]_vars => RowsInv'
<1> SUFFICES ASSUME Inv, RowsInv, [Next]_vars PROVE RowsInv'
  OBVIOUS
<1>1. CASE OpenSources
  BY <1>1, OpenSourcesRows
<1>2. ASSUME NEW c \in Clients, Start(c) \/ \E map \in Maps : Discover(c, map) PROVE RowsInv'
  BY <1>2, StartRows, DiscoverRows
<1>3. ASSUME NEW c \in Clients, Resolve(c) \/ ConnectFails(c) PROVE RowsInv'
  BY <1>3, ConnectRows
<1>4. CASE Rotation
  BY <1>4, RotationRows
<1>5. ASSUME NEW t \in Threads, Handle(t) \/ Emit(t) PROVE RowsInv'
  BY <1>5, LogRows
<1>6. CASE UNCHANGED vars
  <2>1. UNCHANGED known /\ UNCHANGED <<source, made, local, record>>
    BY <1>6 DEF vars, sources, client, known
  <2>2. RowTypes'
    BY <2>1 DEF RowsInv, RowTypes, known
  <2> QED
    BY <2>1, <2>2, RowsStay DEF RowsInv
<1> QED
  BY <1>1, <1>2, <1>3, <1>4, <1>5, <1>6 DEF Next

\* The inductive invariant, beside the one of the segments.
THEOREM RowsInvariant == Spec => [](Inv /\ RowsInv)
<1>1. Init => Inv /\ RowsInv
  BY InitInv, InitRows
<1>2. (Inv /\ RowsInv) /\ [Next]_vars => (Inv /\ RowsInv)'
  BY StepInv, StepRows
<1> QED
  BY <1>1, <1>2, PTL DEF Spec

\* Every variable keeps to its values, and a client's schemas to its fields.
THEOREM TypeCorrect == Spec => []TypeOK
<1>1. Inv /\ RowsInv => TypeOK
  <2> SUFFICES ASSUME Inv, RowsInv PROVE TypeOK
    OBVIOUS
  <2>1. \A n \in DOMAIN source : source[n] \in {0, made[n]}
    BY DEF Inv, Types, RowsInv, RowTypes
  <2>2. ASSUME NEW c \in Clients
        PROVE  /\ DOMAIN schemas[c] \subseteq DOMAIN fields[c]
               /\ \A e \in DOMAIN schemas[c] : schemas[c][e] = fields[c][e]
               /\ loop.step = "free" => DOMAIN events[c] = DOMAIN fields[c]
    BY DEF RowsInv, Schemed, Matching, Matches
  <2> QED
    BY <2>1, <2>2 DEF TypeOK, Inv, Types, RowsInv, RowTypes
<1> QED
  BY RowsInvariant, <1>1, PTL

\* Whatever the loop may log next fits the event it logs it to, on the current segment.
THEOREM EveryRowFits == Spec => []RowsFit
<1>1. Inv /\ RowsInv => RowsFit
  <2> SUFFICES ASSUME Inv, RowsInv, loop = Free, NEW c \in started,
                      NEW e \in DOMAIN targets[c] \cup {HealthEvent}
               PROVE  /\ e \in DOMAIN events[c] /\ events[c][e].seg = source[SourceOf(c)]
                      /\ e \in DOMAIN targets[c] => \A f \in DOMAIN targets[c][e] :
                            f \in DOMAIN events[c][e].fields /\ events[c][e].fields[f] = targets[c][e][f]
    BY DEF RowsFit
  <2>1. c \in Clients /\ Matches(events[c], fields[c]) /\ Fits(targets[c], fields[c])
    BY DEF Inv, Types, RowsInv, Matching, Fitting, Free
  <2>2. e \in DOMAIN fields[c] /\ e \in DOMAIN events[c]
    BY <2>1 DEF RowsInv, Schemed, Fits, Matches
  <2>3. events[c][e].seg = source[SourceOf(c)]
    BY <2>1, <2>2 DEF Inv, Current
  <2>4. \A f \in DOMAIN targets[c][e] : e \in DOMAIN targets[c] =>
            f \in DOMAIN events[c][e].fields /\ events[c][e].fields[f] = targets[c][e][f]
    BY <2>1, <2>2 DEF Fits, Matches
  <2> QED
    BY <2>2, <2>3, <2>4
<1> QED
  BY RowsInvariant, <1>1, PTL

-----------------------------------------------------------------------------
(* What was declared: the history of the segments *)

IsLog(d) == d.source = LogName /\ d.event = <<LogEvent>>
IsOf(d, c, e) == d.source = SourceOf(c) /\ d.event = EventName(c, e)

\* The fields f are among g, with the same datatypes.
Within(f, g) == DOMAIN f \subseteq DOMAIN g /\ \A x \in DOMAIN f : f[x] = g[x]

\* Every declaration is the log's or that of an event some client has, on a segment that was
\* made, with fields the event still has.
OwnedBy(d) ==
    /\ d.source \in SourceNames /\ d.seg \in 1..made[d.source]
    /\ \/ IsLog(d) /\ d.fields = LogFields
       \/ \E c \in started : \E e \in DOMAIN fields[c] : IsOf(d, c, e) /\ Within(d.fields, fields[c][e])
Owned == \A d \in declared : OwnedBy(d)

Continues(d, b) ==
    d.source = b.source /\ d.event = b.event =>
        /\ d.seg = b.seg => d = b
        /\ d.seg < b.seg => DOMAIN d.fields \subseteq DOMAIN b.fields
Continuing == \A d, b \in declared : Continues(d, b)

\* The source's segment has the events of its clients, but in the rotation that brings them up,
\* and the log's while the handler has it.
Present ==
    \A c \in started : loop.step # "released" \/ c \notin Moved(loop.client) =>
        \A e \in DOMAIN fields[c] : \E d \in declared : IsOf(d, c, e) /\ d.seg = source[SourceOf(c)]
LogPresent ==
    /\ handler # 0 => \E d \in declared : IsLog(d) /\ d.seg = handler
    /\ handler = 0 /\ started = {} => declared = {}
    /\ loop.step \in {"released", "reopened"} /\ setup.prefixed =>
          handler = 0 /\ \A d \in declared : IsLog(d) /\ loop.step = "reopened" => d.seg < source[LogName]

\* A client that has a source to itself makes it when it starts.
Unmade == \A c \in Clients \ started : ~setup.prefixed => made[c] = 0

SegmentsInv == Owned /\ Continuing /\ Present /\ LogPresent /\ Unmade

\* Names tell declarations apart: two clients, or two events of one, never share one, and
\* none has the log's.
LEMMA Apart ==
    ASSUME setup \in Setups, NEW d, NEW c \in Clients, NEW e, IsOf(d, c, e)
    PROVE  /\ ~IsLog(d)
           /\ \A b \in Clients : \A g : IsOf(d, b, g) => b = c /\ g = e
<1> USE SourcesAssumption DEF SourcesAssumption, IsLog, IsOf, EventName, SourceOf, LogName
<1>1. CASE setup.prefixed
  BY <1>1
<1>2. CASE ~setup.prefixed
  BY <1>2
<1> QED
  BY <1>1, <1>2

\* The fields of a client only grow, and no segment is unmade.
Grows ==
    /\ setup' = setup /\ started \subseteq started'
    /\ \A n \in SourceNames : made[n] <= made'[n] /\ made'[n] \in Nat
    /\ \A c \in started : \A e \in DOMAIN fields[c] :
          e \in DOMAIN fields'[c] /\ Within(fields[c][e], fields'[c][e])

\* Then what was declared is still someone's.
LEMMA OwnedGrows ==
    ASSUME Owned, Types, Grows, NEW new, declared' = declared \cup new, \A d \in new : OwnedBy(d)'
    PROVE  Owned'
<1> SUFFICES ASSUME NEW d \in declared PROVE OwnedBy(d)'
  BY DEF Owned
<1> USE DEF Grows
<1>1. d.source \in SourceNames /\ d.seg \in 1..made[d.source]
  BY DEF Owned, OwnedBy
<1>2. d.seg \in 1..made'[d.source]
  <2>1. made[d.source] \in Nat
    BY <1>1 DEF Types
  <2>2. made[d.source] <= made'[d.source] /\ made'[d.source] \in Nat
    BY <1>1
  <2> QED
    BY <1>1, <2>1, <2>2
<1>3. CASE IsLog(d) /\ d.fields = LogFields
  <2>1. IsLog(d)'
    BY <1>3 DEF IsLog, LogName
  <2> QED
    BY <1>1, <1>2, <1>3, <2>1 DEF OwnedBy
<1>4. ASSUME NEW c \in started, NEW e \in DOMAIN fields[c], IsOf(d, c, e), Within(d.fields, fields[c][e])
      PROVE  OwnedBy(d)'
  <2>1. c \in started' /\ e \in DOMAIN fields'[c] /\ IsOf(d, c, e)'
    BY <1>4 DEF IsOf, SourceOf, EventName
  <2>2. Within(d.fields, fields'[c][e])
    BY <1>4 DEF Within
  <2> QED
    BY <1>1, <1>2, <2>1, <2>2 DEF OwnedBy, Within
<1> QED
  BY <1>3, <1>4 DEF Owned, OwnedBy

\* New declarations that continue what there was: of new names, or on a later segment with
\* at least the fields of before.
FollowOn(new) ==
    /\ \A b \in new : b.seg \in Nat
    /\ \A d, b \in new : d.source = b.source /\ d.event = b.event => d = b
    /\ \A d \in declared, b \in new : d.source = b.source /\ d.event = b.event =>
          d.seg < b.seg /\ DOMAIN d.fields \subseteq DOMAIN b.fields

LEMMA ContinuesOn ==
    ASSUME Owned, Continuing, Types, NEW new, declared' = declared \cup new, FollowOn(new)
    PROVE  Continuing'
<1> USE DEF FollowOn
<1> SUFFICES ASSUME NEW d \in declared', NEW b \in declared' PROVE Continues(d, b)
  BY DEF Continuing, Continues
<1>1. \A x \in declared : x.seg \in Nat
  <2> SUFFICES ASSUME NEW x \in declared PROVE x.seg \in Nat
    OBVIOUS
  <2>1. x.source \in SourceNames /\ x.seg \in 1..made[x.source]
    BY DEF Owned, OwnedBy
  <2>2. made[x.source] \in Nat
    BY <2>1 DEF Types
  <2> QED
    BY <2>1, <2>2
<1>2. CASE d \in declared /\ b \in declared
  BY <1>2 DEF Continuing
<1>3. CASE d \in declared /\ b \in new
  BY <1>1, <1>3 DEF Continues
<1>4. CASE d \in new /\ b \in declared
  <2>1. d.source = b.source /\ d.event = b.event => b.seg < d.seg
    BY <1>4
  <2>2. d.seg \in Nat /\ b.seg \in Nat
    BY <1>1, <1>4
  <2> QED
    BY <2>1, <2>2 DEF Continues
<1>5. CASE d \in new /\ b \in new
  BY <1>5 DEF Continues
<1> QED
  BY <1>2, <1>3, <1>4, <1>5

\* Steps that neither declare nor make a segment, nor touch the clients' fields.
LEMMA SegmentsStay ==
    ASSUME Inv, RowsInv, SegmentsInv,
           UNCHANGED <<setup, started, fields, source, made, declared, handler>>,
           UNCHANGED loop \/ (loop'.step \in {"held", "free", "rotate"} /\ loop.step \in {"free", "rotate"})
    PROVE  SegmentsInv'
<1> USE DEF SegmentsInv
<1>1. Owned'
  <2>1. made \in [SourceNames -> Nat] /\ made' = made
    BY DEF Inv, Types
  <2>2. \A n \in SourceNames : made[n] <= made'[n] /\ made'[n] \in Nat
    BY <2>1
  <2>3. Grows
    BY <2>2 DEF Grows, Within
  <2>4. PICK new : new = {}
    OBVIOUS
  <2>5. declared' = declared \cup new /\ \A d \in new : OwnedBy(d)'
    BY <2>4
  <2>6. Owned /\ Types
    BY DEF Inv
  <2> QED
    BY <2>3, <2>5, <2>6, OwnedGrows
<1>2. Continuing'
  BY DEF Continuing, Continues
<1>3. Present'
  BY DEF Present, Moved, Sharing, IsOf, SourceOf, EventName
<1>4. LogPresent'
  <2>1. loop'.step \in {"released", "reopened"} => loop' = loop
    OBVIOUS
  <2> QED
    BY <2>1 DEF LogPresent, IsLog, LogName
<1>5. Unmade'
  BY DEF Unmade
<1> QED
  BY <1>1, <1>2, <1>3, <1>4, <1>5

LEMMA InitSegments == Init => SegmentsInv
<1> SUFFICES ASSUME Init PROVE SegmentsInv
  OBVIOUS
<1>1. declared = {} /\ started = {} /\ handler = 0 /\ loop.step = "free"
  BY DEF Init, Free
<1>2. \A c \in Clients : made[c] = 0
  BY DEF Init
<1> QED
  BY <1>1, <1>2 DEF SegmentsInv, Owned, Continuing, Present, LogPresent, Unmade

LEMMA OpenSourcesSegments == Inv /\ RowsInv /\ SegmentsInv /\ OpenSources => SegmentsInv'
<1> SUFFICES ASSUME Inv, RowsInv, SegmentsInv, OpenSources PROVE SegmentsInv'
  OBVIOUS
<1>1. /\ handler = 0 /\ started = {} /\ handler' = 1 /\ setup \in Setups
      /\ made' = [made EXCEPT ![LogName] = 1] /\ source' = [source EXCEPT ![LogName] = 1]
      /\ declared' = {Declaration(LogName, 1, <<LogEvent>>, LogFields)}
      /\ UNCHANGED <<setup, started, loop>>
  BY DEF OpenSources, Inv, Types
<1>2. loop.step = "free" /\ LogName \in SourceNames /\ made' \in [SourceNames -> Nat] /\ made'[LogName] = 1
  BY <1>1, Names DEF Inv, Types, Rotating
<1>9. PICK d : d = Declaration(LogName, 1, <<LogEvent>>, LogFields)
  OBVIOUS
<1>3. /\ declared' = {d} /\ d.source = LogName /\ d.seg = 1 /\ d.event = <<LogEvent>>
      /\ d.fields = LogFields
  BY <1>1, <1>9 DEF Declaration
<1>4. IsLog(d)' /\ LogName' = LogName
  BY <1>1, <1>3 DEF IsLog, LogName
<1>5. Owned'
  BY <1>2, <1>3, <1>4 DEF Owned, OwnedBy, IsLog
<1>6. Continuing'
  BY <1>3 DEF Continuing, Continues
<1>7. Present' /\ LogPresent'
  BY <1>1, <1>2, <1>3, <1>4 DEF Present, LogPresent, IsLog
<1>8. Unmade'
  <2>1. \A c \in Clients : ~setup.prefixed => c # LogName
    BY SourcesAssumption DEF SourcesAssumption, LogName
  <2>2. \A c \in Clients : ~setup.prefixed => made'[c] = made[c]
    BY <1>1, <2>1 DEF Inv, Types, SourceNames
  <2> QED
    BY <1>1, <2>2 DEF SegmentsInv, Unmade
<1> QED
  BY <1>5, <1>6, <1>7, <1>8 DEF SegmentsInv

\* What a step declares for the events E of the client c, each with the fields it has then.
LEMMA ClientDeclares ==
    ASSUME setup' \in Setups, NEW c \in Clients, c \in started',
           NEW seg \in Nat, seg # 0, made'[SourceOf(c)] \in Nat, seg <= made'[SourceOf(c)],
           setup' = setup,
           NEW e \in DOMAIN fields'[c], NEW d, d = Declaration(SourceOf(c), seg, EventName(c, e), fields'[c][e])
    PROVE  OwnedBy(d)' /\ IsOf(d, c, e) /\ d.seg = seg /\ d.fields = fields'[c][e]
<1>1. /\ d.source = SourceOf(c) /\ d.seg = seg /\ d.event = EventName(c, e)
      /\ d.fields = fields'[c][e]
  BY DEF Declaration
<1>2. SourceOf(c) \in SourceNames /\ d.seg \in 1..made'[d.source]
  BY <1>1, Names
<1>3. IsOf(d, c, e)' /\ IsOf(d, c, e)
  BY <1>1 DEF IsOf, SourceOf, EventName
<1>4. Within(d.fields, fields'[c][e])
  BY <1>1 DEF Within
<1>5. OwnedBy(d)'
  BY <1>1, <1>2, <1>3, <1>4 DEF OwnedBy, Within
<1> QED
  BY <1>1, <1>3, <1>5

\* A source that serves has a segment.
LEMMA ServesASegment ==
    ASSUME Inv, RowsInv, SegmentsInv, NEW c \in started, loop.step = "free"
    PROVE  /\ SourceOf(c) \in SourceNames /\ source[SourceOf(c)] \in Nat \ {0}
           /\ made[SourceOf(c)] = source[SourceOf(c)]
<1>1. c \in Clients /\ HealthEvent \in DOMAIN fields[c] /\ SourceOf(c) \in SourceNames
  BY Names DEF Inv, Types, RowsInv, Schemed
<1>2. PICK d \in declared : IsOf(d, c, HealthEvent) /\ d.seg = source[SourceOf(c)]
  BY <1>1 DEF SegmentsInv, Present
<1>3. d.seg \in 1..made[d.source] /\ d.source = SourceOf(c)
  BY <1>2 DEF SegmentsInv, Owned, OwnedBy, IsOf
<1>4. made[SourceOf(c)] \in Nat /\ source[SourceOf(c)] \in {0, made[SourceOf(c)]}
  BY <1>1 DEF Inv, Types, RowsInv, RowTypes
<1> QED
  BY <1>1, <1>2, <1>3, <1>4

LEMMA StartSegments == ASSUME NEW c \in Clients, Inv, RowsInv, SegmentsInv, Start(c) PROVE SegmentsInv'
<1> DEFINE n == SourceOf(c)
           at == IF setup.prefixed THEN source[n] ELSE 1
           new == {Declaration(n, at, EventName(c, e), StartEvents(c)[e]) : e \in DOMAIN StartEvents(c)}
<1>1. /\ c \notin started /\ handler # 0 /\ started' = started \cup {c} /\ setup \in Setups
      /\ source' = [source EXCEPT ![n] = at] /\ made' = [made EXCEPT ![n] = at]
      /\ fields' = [fields EXCEPT ![c] = StartEvents(c)]
      /\ declared' = declared \cup new /\ UNCHANGED <<setup, loop, handler>>
  BY DEF Start, Inv, Types
<1>2. /\ Types /\ RowTypes /\ Schemed /\ Owned /\ Continuing /\ Present /\ LogPresent
      /\ loop.step = "free" /\ n \in SourceNames
  BY <1>1, Names DEF Inv, RowsInv, SegmentsInv, Rotating
<1>3. at \in Nat /\ at # 0 /\ (setup.prefixed => at = made[n])
  <2>1. handler = source[LogName] /\ source[n] \in {0, made[n]} /\ source[n] \in Nat
    BY <1>1, <1>2 DEF Inv, Logging, Types, RowTypes
  <2> QED
    BY <1>1, <2>1, Names
<1>4. made'[n] = at /\ source'[n] = at /\ \A m \in SourceNames \ {n} : made'[m] = made[m] /\ source'[m] = source[m]
  BY <1>1, <1>2 DEF Types
<1>5. fields'[c] = StartEvents(c) /\ \A b \in Clients \ {c} : fields'[b] = fields[b]
  BY <1>1, <1>2 DEF RowTypes
<1>6. ASSUME NEW d \in declared, NEW e PROVE ~IsOf(d, c, e)
  <2> SUFFICES ASSUME IsOf(d, c, e) PROVE FALSE
    OBVIOUS
  <2>1. ~IsLog(d) /\ \A b \in Clients : \A g : IsOf(d, b, g) => b = c
    BY <1>1, Apart
  <2>2. PICK b \in started : \E g \in DOMAIN fields[b] : IsOf(d, b, g)
    BY <1>2, <2>1 DEF Owned, OwnedBy
  <2> QED
    BY <1>1, <1>2, <2>1, <2>2 DEF Types
<1>7. Grows
  <2>0. \A m \in SourceNames : made[m] \in Nat
    BY <1>2 DEF Types
  <2> HIDE DEF at
  <2>1. made[n] <= at
    <3>1. ~setup.prefixed => made[c] = 0 /\ n = c
      BY <1>1 DEF SegmentsInv, Unmade, SourceOf
    <3> HIDE DEF n
    <3> QED
      BY <1>2, <1>3, <2>0, <3>1
  <2> HIDE DEF n
  <2>2. \A m \in SourceNames : made[m] <= made'[m] /\ made'[m] \in Nat
    BY <1>2, <1>3, <1>4, <2>0, <2>1
  <2>3. \A b \in started : fields'[b] = fields[b]
    BY <1>1, <1>2, <1>5 DEF Types
  <2> QED
    BY <1>1, <2>2, <2>3 DEF Grows, Within
<1> HIDE DEF at, n
<1>8. ASSUME NEW d \in new
      PROVE  OwnedBy(d)' /\ \E e \in DOMAIN fields'[c] : IsOf(d, c, e) /\ d.seg = at /\ d.fields = fields'[c][e]
  <2>1. PICK e \in DOMAIN fields'[c] : d = Declaration(n, at, EventName(c, e), fields'[c][e])
    BY <1>5
  <2>2. setup' \in Setups /\ c \in started' /\ made'[SourceOf(c)] \in Nat /\ at <= made'[SourceOf(c)]
    BY <1>1, <1>3, <1>4 DEF n
  <2> QED
    BY <1>1, <1>3, <2>1, <2>2, ClientDeclares DEF n
<1>9. ASSUME NEW e \in DOMAIN fields'[c] PROVE \E d \in new : IsOf(d, c, e) /\ d.seg = at
  <2>1. PICK d : d = Declaration(n, at, EventName(c, e), fields'[c][e])
    OBVIOUS
  <2> QED
    BY <1>5, <2>1 DEF IsOf, Declaration, n
<1>10. \A d, b \in new : d.source = b.source /\ d.event = b.event => d = b
  BY <1>1 DEF Declaration, EventName
<1> HIDE DEF new
<1>11. Owned'
  BY <1>1, <1>2, <1>7, <1>8, OwnedGrows
<1>12. Continuing'
  <2>1. \A d \in declared, b \in new : ~(d.source = b.source /\ d.event = b.event)
    BY <1>6, <1>8 DEF IsOf
  <2>2. FollowOn(new)
    BY <1>3, <1>8, <1>10, <2>1 DEF FollowOn
  <2> QED
    BY <1>1, <1>2, <1>3, <1>8, <1>10, <2>2, ContinuesOn
<1>13. Present'
  <2> SUFFICES ASSUME NEW b \in started', NEW e \in DOMAIN fields'[b]
               PROVE  \E d \in declared' : IsOf(d, b, e)' /\ d.seg = source'[SourceOf(b)']
    BY DEF Present
  <2>1. CASE b = c
    BY <1>1, <1>4, <1>9, <2>1 DEF IsOf, SourceOf, EventName, n
  <2>2. CASE b # c
    <3>1. b \in started /\ b \in Clients /\ e \in DOMAIN fields[b]
      BY <1>1, <1>2, <1>5, <2>2 DEF Types
    <3>2. PICK d \in declared : IsOf(d, b, e) /\ d.seg = source[SourceOf(b)]
      BY <1>2, <3>1 DEF Present
    <3>3. source'[SourceOf(b)] = source[SourceOf(b)]
      <4>1. SourceOf(b) \in SourceNames
        BY <1>1, <3>1, Names
      <4>2. CASE SourceOf(b) = n
        <5>1. setup.prefixed
          BY <1>1, <2>2, <3>1, <4>2, Names DEF n
        <5> QED
          BY <1>4, <4>2, <5>1 DEF at
      <4> QED
        BY <1>4, <4>1, <4>2
    <3> QED
      BY <1>1, <3>2, <3>3 DEF IsOf, SourceOf, EventName
  <2> QED
    BY <2>1, <2>2
<1>14. LogPresent' /\ Unmade'
  <2>1. LogPresent'
    BY <1>1, <1>2 DEF LogPresent, IsLog, LogName
  <2>2. \A b \in Clients \ started' : b # c /\ (~setup.prefixed => b # n)
    BY <1>1, Names DEF n, SourceOf
  <2>3. \A b \in Clients \ started' : ~setup.prefixed => made'[b] = made[b]
    BY <1>4, <2>2 DEF SourceNames
  <2> QED
    BY <1>1, <2>1, <2>3 DEF SegmentsInv, Unmade
<1> QED
  BY <1>11, <1>12, <1>13, <1>14 DEF SegmentsInv

LEMMA DiscoverSegments ==
    ASSUME NEW c \in Clients, NEW map \in Maps, Inv, RowsInv, SegmentsInv, Discover(c, map)
    PROVE  SegmentsInv'
<1> DEFINE found == Mapped(map)
           fresh == New(c, map)
           n == SourceOf(c)
           new == {Declaration(n, source[n], EventName(c, e), map[e]) : e \in fresh}
<1>1. /\ loop = Free /\ started = Clients /\ setup.discovery[c] /\ setup \in Setups
      /\ fields' = [fields EXCEPT ![c] = Extended(fields[c], found)]
      /\ declared' = declared \cup new /\ loop'.step \in {"free", "rotate"}
      /\ UNCHANGED <<setup, started, source, made, handler>>
  BY DEF Discover, Running, Inv, Types, Free
<1>2. /\ Types /\ RowTypes /\ Schemed /\ Owned /\ Continuing /\ Present /\ LogPresent
      /\ loop.step = "free"
  BY <1>1 DEF Inv, RowsInv, SegmentsInv, Free
<1>3. n \in SourceNames /\ source[n] \in Nat \ {0} /\ made[n] = source[n]
  BY <1>1, <1>2, ServesASegment
<1>4. /\ fields'[c] = Extended(fields[c], found) /\ \A b \in Clients \ {c} : fields'[b] = fields[b]
  BY <1>1, <1>2 DEF RowTypes
<1>5. fresh \subseteq DOMAIN found \ DOMAIN fields[c] /\ \A e \in fresh : found[e] = map[e]
  <2>1. map \in Maps \cup {s.fixed[d] : s \in Setups, d \in Clients}
    OBVIOUS
  <2>2. HealthEvent \notin DOMAIN map
    BY <2>1, SourcesAssumption DEF SourcesAssumption
  <2>3. DOMAIN fields[c] \subseteq DOMAIN schemas[c] \cup {HealthEvent}
    BY <1>1, <1>2 DEF Schemed
  <2> QED
    BY <2>2, <2>3 DEF New, Mapped
<1> HIDE DEF found, fresh, n
<1>6. DOMAIN fields'[c] = DOMAIN fields[c] \cup DOMAIN found /\ \A e \in fresh : fields'[c][e] = map[e]
  <2>1. DOMAIN fields'[c] = DOMAIN fields[c] \cup DOMAIN found
    BY <1>4, ExtendedKeeps
  <2>2. \A e \in fresh : fields'[c][e] = found[e]
    BY <1>4, <1>5, ExtendedKeeps
  <2> QED
    BY <1>5, <2>1, <2>2
<1>7. DOMAIN fields'[c] \ DOMAIN fields[c] \subseteq fresh
  BY <1>1, <1>2, <1>6 DEF Schemed, New, fresh, found
<1>8. Grows
  <2>1. \A m \in SourceNames : made[m] <= made'[m] /\ made'[m] \in Nat
    <3>1. made \in [SourceNames -> Nat] /\ made' = made
      BY <1>1, <1>2 DEF Types
    <3> QED
      BY <3>1
  <2>2. \A e \in DOMAIN fields[c] : e \in DOMAIN fields'[c] /\ Within(fields[c][e], fields'[c][e])
    <3> SUFFICES ASSUME NEW e \in DOMAIN fields[c]
                 PROVE  e \in DOMAIN fields'[c] /\ Within(fields[c][e], fields'[c][e])
      OBVIOUS
    <3>1. /\ DOMAIN fields[c][e] \subseteq DOMAIN fields'[c][e]
          /\ \A f \in DOMAIN fields[c][e] : fields'[c][e][f] = fields[c][e][f]
      BY <1>4, ExtendedKeeps
    <3> QED
      BY <1>6, <3>1 DEF Within
  <2>3. \A b \in Clients \ {c} : \A e \in DOMAIN fields[b] :
            e \in DOMAIN fields'[b] /\ Within(fields[b][e], fields'[b][e])
    BY <1>4 DEF Within
  <2> QED
    BY <1>1, <2>1, <2>2, <2>3 DEF Grows
<1>9. ASSUME NEW d \in new
      PROVE  OwnedBy(d)' /\ \E e \in fresh : IsOf(d, c, e) /\ d.seg = source[n]
  <2>1. PICK e \in fresh : d = Declaration(n, source[n], EventName(c, e), fields'[c][e])
    BY <1>6
  <2>2. setup' \in Setups /\ c \in started' /\ made'[SourceOf(c)] \in Nat /\ source[n] <= made'[SourceOf(c)]
    BY <1>1, <1>3 DEF n
  <2>3. e \in DOMAIN fields'[c]
    BY <1>5, <1>6
  <2>4. PICK seg : seg = source[n]
    OBVIOUS
  <2> QED
    BY <1>1, <1>3, <2>1, <2>2, <2>3, <2>4, ClientDeclares DEF n
<1>10. ASSUME NEW e \in fresh PROVE \E d \in new : IsOf(d, c, e) /\ d.seg = source[n]
  <2>1. PICK d : d = Declaration(n, source[n], EventName(c, e), map[e])
    OBVIOUS
  <2> QED
    BY <2>1 DEF IsOf, Declaration, n
<1>11. \A d, b \in new : d.source = b.source /\ d.event = b.event => d = b
  BY <1>1 DEF Declaration, EventName
<1>12. ASSUME NEW d \in declared, NEW e \in fresh PROVE ~IsOf(d, c, e)
  <2> SUFFICES ASSUME IsOf(d, c, e) PROVE FALSE
    OBVIOUS
  <2>1. ~IsLog(d) /\ \A b \in Clients : \A g : IsOf(d, b, g) => b = c /\ g = e
    BY <1>1, Apart
  <2>2. PICK b \in started : \E g \in DOMAIN fields[b] : IsOf(d, b, g)
    BY <1>2, <2>1 DEF Owned, OwnedBy
  <2> QED
    BY <1>1, <1>5, <2>1, <2>2
<1> HIDE DEF new
<1>13. Owned'
  BY <1>1, <1>2, <1>8, <1>9, OwnedGrows
<1>14. Continuing'
  <2>1. \A d \in declared, b \in new : ~(d.source = b.source /\ d.event = b.event)
    BY <1>9, <1>12 DEF IsOf
  <2>2. FollowOn(new)
    BY <1>3, <1>9, <1>11, <2>1 DEF FollowOn
  <2> QED
    BY <1>1, <1>2, <1>3, <1>9, <1>11, <2>2, ContinuesOn
<1>15. Present'
  <2> SUFFICES ASSUME NEW b \in started', NEW e \in DOMAIN fields'[b]
               PROVE  \E d \in declared' : IsOf(d, b, e)' /\ d.seg = source'[SourceOf(b)']
    BY DEF Present
  <2>1. CASE b = c /\ e \in fresh
    BY <1>1, <1>10, <2>1 DEF IsOf, SourceOf, EventName, n
  <2>2. CASE ~(b = c /\ e \in fresh)
    <3>1. b \in started /\ e \in DOMAIN fields[b]
      BY <1>1, <1>4, <1>7, <2>2
    <3>2. PICK d \in declared : IsOf(d, b, e) /\ d.seg = source[SourceOf(b)]
      BY <1>2, <3>1 DEF Present
    <3> QED
      BY <1>1, <3>2 DEF IsOf, SourceOf, EventName
  <2> QED
    BY <2>1, <2>2
<1>16. LogPresent' /\ Unmade'
  <2>1. c \in started /\ loop'.step \notin {"released", "reopened"}
    BY <1>1
  <2> QED
    BY <1>1, <1>2, <2>1 DEF LogPresent, IsLog, LogName, SegmentsInv, Unmade
<1> QED
  BY <1>13, <1>14, <1>15, <1>16 DEF SegmentsInv

\* What follows a discovery in a connect, the lock, and a record declare nothing.
LEMMA OtherSegments ==
    ASSUME Inv, RowsInv, SegmentsInv,
           (\E c \in Clients : Resolve(c) \/ ConnectFails(c)) \/ Acquire
              \/ \E t \in Threads : Handle(t) \/ Emit(t)
    PROVE  SegmentsInv'
<1>1. UNCHANGED <<setup, started, fields, source, made, declared, handler>>
  BY DEF Resolve, ConnectFails, Acquire, Handle, Emit, client, sources
<1>2. UNCHANGED loop \/ (loop'.step = "held" /\ loop.step = "rotate")
  BY DEF Resolve, ConnectFails, Acquire, Handle, Emit, Inv, Types
<1> QED
  BY <1>1, <1>2, SegmentsStay

LEMMA ReleaseSegments == Inv /\ RowsInv /\ SegmentsInv /\ Release => SegmentsInv'
<1> SUFFICES ASSUME Inv, RowsInv, SegmentsInv, Release PROVE SegmentsInv'
  OBVIOUS
<1>1. PICK c \in Clients : c = loop.client
  BY DEF Release, Inv, Rotating
<1>2. PICK n \in SourceNames : n = SourceOf(c)
  BY <1>1, Names DEF Inv, Types
<1>3. /\ started = Clients /\ setup \in Setups /\ loop'.step = "released" /\ loop'.client = c
      /\ source' = [source EXCEPT ![n] = 0] /\ loop.step = "held"
      /\ handler' = IF setup.prefixed THEN 0 ELSE handler
      /\ UNCHANGED <<setup, started, fields, made, declared>>
  BY <1>1, <1>2 DEF Release, Inv, Types, Rotating
<1>4. Types /\ Owned /\ Continuing /\ Present /\ LogPresent
  BY DEF Inv, SegmentsInv
<1>5. Owned'
  <2>1. made \in [SourceNames -> Nat]
    BY <1>4 DEF Types
  <2>2. \A m \in SourceNames : made[m] <= made'[m] /\ made'[m] \in Nat
    BY <1>3, <2>1
  <2>3. Grows
    BY <1>3, <2>2 DEF Grows, Within
  <2>4. PICK new : new = {}
    OBVIOUS
  <2>5. declared' = declared \cup new /\ \A d \in new : OwnedBy(d)'
    BY <1>3, <2>4
  <2> QED
    BY <1>4, <2>3, <2>5, OwnedGrows
<1>6. Continuing'
  BY <1>3, <1>4 DEF Continuing, Continues
<1>7. Present'
  <2> SUFFICES ASSUME NEW b \in started', b \notin Moved(loop.client)', NEW e \in DOMAIN fields'[b]
               PROVE  \E d \in declared' : IsOf(d, b, e)' /\ d.seg = source'[SourceOf(b)']
    BY <1>3 DEF Present
  <2>1. ~setup.prefixed /\ b # c /\ b \in Clients
    BY <1>3 DEF Moved, Sharing
  <2>2. SourceOf(b) # n /\ SourceOf(b) \in SourceNames
    BY <1>2, <1>3, <2>1, Names
  <2>3. source'[SourceOf(b)] = source[SourceOf(b)]
    BY <1>3, <1>4, <2>2 DEF Types
  <2>4. PICK d \in declared : IsOf(d, b, e) /\ d.seg = source[SourceOf(b)]
    BY <1>3, <1>4, <2>1 DEF Present
  <2> QED
    BY <1>3, <2>3, <2>4 DEF IsOf, SourceOf, EventName
<1>8. LogPresent' /\ Unmade'
  BY <1>1, <1>3, <1>4 DEF LogPresent, IsLog, LogName, SegmentsInv, Unmade
<1> QED
  BY <1>5, <1>6, <1>7, <1>8 DEF SegmentsInv

LEMMA ReopenSegments == Inv /\ RowsInv /\ SegmentsInv /\ Reopen => SegmentsInv'
<1> SUFFICES ASSUME Inv, RowsInv, SegmentsInv, Reopen PROVE SegmentsInv'
  OBVIOUS
<1>1. PICK c \in Clients : c = loop.client
  BY DEF Reopen, Inv, Rotating
<1>2. PICK n \in SourceNames : n = SourceOf(c)
  BY <1>1, Names DEF Inv, Types
<1>3. PICK seg : seg = made[n] + 1
  OBVIOUS
<1>4. PICK moved : moved = Moved(c)
  OBVIOUS
<1>5. PICK new : new = UNION {{Declaration(n, seg, EventName(b, e), fields[b][e]) : e \in DOMAIN fields[b]} :
                              b \in moved}
  OBVIOUS
<1>6. /\ started = Clients /\ setup \in Setups /\ loop'.step = "reopened" /\ loop'.client = c
      /\ loop.step = "released" /\ loop.client = c
      /\ made' = [made EXCEPT ![n] = seg] /\ source' = [source EXCEPT ![n] = seg]
      /\ declared' = declared \cup new /\ UNCHANGED <<setup, started, fields, handler>>
  <2>1. loop.step = "released" /\ loop' = [loop EXCEPT !.step = "reopened"] /\ loop.client = c
    BY <1>1 DEF Reopen
  <2>2. loop'.step = "reopened" /\ loop'.client = c
    BY <2>1 DEF Inv, Types
  <2>3. made' = [made EXCEPT ![n] = seg] /\ source' = [source EXCEPT ![n] = seg]
    BY <1>1, <1>2, <1>3 DEF Reopen
  <2>4. declared' = declared \cup new
    <3>1. declared' = declared \cup UNION
            {{Declaration(SourceOf(loop.client), made[SourceOf(loop.client)] + 1, EventName(b, e), fields[b][e]) :
                e \in DOMAIN fields[b]} : b \in Moved(loop.client)}
      BY Zenon DEF Reopen
    <3> QED
      BY <1>1, <1>2, <1>3, <1>4, <1>5, <3>1
  <2> QED
    BY <2>1, <2>2, <2>3, <2>4 DEF Reopen, Inv, Types, Rotating
<1>7. Types /\ Owned /\ Continuing /\ Present /\ LogPresent
  BY DEF Inv, SegmentsInv
<1>8. seg \in Nat \ {0} /\ \A d \in declared : d.source = n => d.seg < seg
  <2>1. made[n] \in Nat
    BY <1>7 DEF Types
  <2>2. \A d \in declared : d.source = n => d.seg \in 1..made[n]
    BY <1>7 DEF Owned, OwnedBy
  <2> QED
    BY <1>3, <2>1, <2>2
<1>9. /\ made'[n] = seg /\ source'[n] = seg
      /\ \A m \in SourceNames \ {n} : made'[m] = made[m] /\ source'[m] = source[m]
  BY <1>6, <1>7 DEF Types
<1>10. Grows
  <2>1. made \in [SourceNames -> Nat] /\ made[n] \in Nat
    BY <1>7 DEF Types
  <2>3. made[n] <= seg
    BY <1>3, <2>1
  <2>2. \A m \in SourceNames : made[m] <= made'[m] /\ made'[m] \in Nat
    BY <1>8, <1>9, <2>1, <2>3
  <2> QED
    BY <1>6, <2>2 DEF Grows, Within
<1>11. moved \subseteq Clients /\ \A b \in Clients : SourceOf(b) = n <=> b \in moved
  BY <1>2, <1>4, <1>6, Names DEF Moved, Sharing
<1>12. ASSUME NEW d \in new
       PROVE  /\ OwnedBy(d)' /\ d.seg = seg
              /\ \E b \in moved : \E e \in DOMAIN fields[b] : IsOf(d, b, e) /\ d.fields = fields[b][e]
  <2>1. PICK b \in moved : \E e \in DOMAIN fields[b] : d = Declaration(n, seg, EventName(b, e), fields[b][e])
    BY <1>5
  <2>2. PICK e \in DOMAIN fields[b] : d = Declaration(n, seg, EventName(b, e), fields[b][e])
    BY <2>1
  <2>3. b \in Clients /\ SourceOf(b) = n
    BY <1>11
  <2>4. d = Declaration(SourceOf(b), seg, EventName(b, e), fields'[b][e]) /\ e \in DOMAIN fields'[b]
    BY <1>6, <2>2, <2>3
  <2>5. setup' \in Setups /\ b \in started' /\ made'[SourceOf(b)] \in Nat /\ seg <= made'[SourceOf(b)]
    BY <1>6, <1>8, <1>9, <2>3
  <2>6. OwnedBy(d)' /\ IsOf(d, b, e) /\ d.seg = seg /\ d.fields = fields'[b][e]
    BY <1>6, <1>8, <2>3, <2>4, <2>5, ClientDeclares
  <2> QED
    BY <1>6, <2>6
<1>13. ASSUME NEW b \in moved, NEW e \in DOMAIN fields[b] PROVE \E d \in new : IsOf(d, b, e) /\ d.seg = seg
  <2>1. PICK d : d = Declaration(n, seg, EventName(b, e), fields[b][e])
    OBVIOUS
  <2>2. d \in new
    BY <1>5, <2>1
  <2>3. SourceOf(b) = n
    BY <1>11
  <2> QED
    BY <2>1, <2>2, <2>3 DEF IsOf, Declaration
<1>14. Owned'
  BY <1>6, <1>7, <1>10, <1>12, OwnedGrows
<1>15. Continuing'
  <2>1. ASSUME NEW d \in new, NEW b \in new, d.source = b.source, d.event = b.event PROVE d = b
    <3>1. PICK x \in moved : \E e \in DOMAIN fields[x] : d = Declaration(n, seg, EventName(x, e), fields[x][e])
      BY <1>5
    <3>2. PICK e \in DOMAIN fields[x] : d = Declaration(n, seg, EventName(x, e), fields[x][e])
      BY <3>1
    <3>3. PICK y \in moved : \E g \in DOMAIN fields[y] : b = Declaration(n, seg, EventName(y, g), fields[y][g])
      BY <1>5
    <3>4. PICK g \in DOMAIN fields[y] : b = Declaration(n, seg, EventName(y, g), fields[y][g])
      BY <3>3
    <3>5. IsOf(d, x, e) /\ IsOf(d, y, g)
      BY <1>11, <2>1, <3>2, <3>4 DEF IsOf, Declaration
    <3>6. x = y /\ e = g
      BY <1>6, <1>11, <3>5, Apart
    <3> QED
      BY <3>2, <3>4, <3>6
  <2>2. ASSUME NEW d \in declared, NEW b \in new, d.source = b.source, d.event = b.event
        PROVE  d.seg < b.seg /\ DOMAIN d.fields \subseteq DOMAIN b.fields
    <3>1. PICK x \in moved : \E e \in DOMAIN fields[x] : IsOf(b, x, e) /\ b.fields = fields[x][e]
      BY <1>12
    <3>2. PICK e \in DOMAIN fields[x] : IsOf(b, x, e) /\ b.fields = fields[x][e]
      BY <3>1
    <3>3. IsOf(d, x, e) /\ x \in Clients
      BY <1>11, <2>2, <3>2 DEF IsOf
    <3>4. ~IsLog(d) /\ \A y \in Clients : \A g : IsOf(d, y, g) => y = x /\ g = e
      BY <1>6, <3>3, Apart
    <3>5. Within(d.fields, fields[x][e])
      BY <1>6, <1>7, <3>4 DEF Owned, OwnedBy
    <3>6. d.source = n
      BY <1>11, <3>3 DEF IsOf
    <3> QED
      BY <1>8, <1>12, <3>2, <3>5, <3>6 DEF Within
  <2>3. \A b \in new : b.seg \in Nat
    BY <1>8, <1>12
  <2>4. FollowOn(new)
    BY <2>1, <2>2, <2>3, Zenon DEF FollowOn
  <2> QED
    BY <1>6, <1>7, <2>4, ContinuesOn
<1>16. Present'
  <2> SUFFICES ASSUME NEW b \in started', NEW e \in DOMAIN fields'[b]
               PROVE  \E d \in declared' : IsOf(d, b, e)' /\ d.seg = source'[SourceOf(b)']
    BY DEF Present
  <2>1. CASE b \in moved
    <3>1. PICK d \in new : IsOf(d, b, e) /\ d.seg = seg
      BY <1>6, <1>13, <2>1
    <3>2. SourceOf(b) = n
      BY <1>11, <2>1
    <3> QED
      BY <1>6, <1>9, <3>1, <3>2 DEF IsOf, SourceOf, EventName
  <2>2. CASE b \notin moved
    <3>1. b \in Clients /\ SourceOf(b) # n /\ SourceOf(b) \in SourceNames
      BY <1>6, <1>11, <2>2, Names
    <3>2. PICK d \in declared : IsOf(d, b, e) /\ d.seg = source[SourceOf(b)]
      BY <1>4, <1>6, <1>7, <2>2 DEF Present
    <3> QED
      BY <1>6, <1>9, <3>1, <3>2 DEF IsOf, SourceOf, EventName
  <2> QED
    BY <2>1, <2>2
<1>17. LogPresent'
  <2>1. \A d \in new : ~IsLog(d)
    BY <1>6, <1>11, <1>12, Apart
  <2>2. setup.prefixed => handler = 0 /\ n = LogName
    BY <1>2, <1>6, <1>7, Names DEF LogPresent
  <2>3. ASSUME setup.prefixed, NEW d \in declared', IsLog(d) PROVE d.seg < source'[LogName]
    <3>1. d \in declared /\ d.source = n
      BY <1>6, <2>1, <2>2, <2>3 DEF IsLog
    <3> QED
      BY <1>8, <1>9, <2>2, <2>3, <3>1
  <2> QED
    BY <1>6, <1>7, <2>2, <2>3 DEF LogPresent, IsLog, LogName
<1>18. Unmade'
  BY <1>6 DEF Unmade
<1> QED
  BY <1>14, <1>15, <1>16, <1>17, <1>18 DEF SegmentsInv

LEMMA RestoreLogSegments == Inv /\ RowsInv /\ SegmentsInv /\ RestoreLog => SegmentsInv'
<1> SUFFICES ASSUME Inv, RowsInv, SegmentsInv, RestoreLog PROVE SegmentsInv'
  OBVIOUS
<1>1. PICK c \in Clients : c = loop.client
  BY DEF RestoreLog, Inv, Rotating
<1>2. PICK n \in SourceNames : n = SourceOf(c)
  BY <1>1, Names DEF Inv, Types
<1>3. PICK new : new = IF setup.prefixed THEN {Declaration(n, source[n], <<LogEvent>>, LogFields)} ELSE {}
  OBVIOUS
<1>4. /\ started = Clients /\ setup \in Setups /\ loop'.step = "free" /\ loop.step = "reopened"
      /\ source[n] # 0 /\ handler' = IF setup.prefixed THEN source[n] ELSE handler
      /\ declared' = declared \cup new
      /\ UNCHANGED <<setup, started, fields, source, made>>
  BY <1>1, <1>2, <1>3 DEF RestoreLog, Inv, Types, Rotating, Free, client
<1>5. Types /\ RowTypes /\ Owned /\ Continuing /\ Present /\ LogPresent
  BY DEF Inv, RowsInv, SegmentsInv
<1>6. setup.prefixed => n = LogName
  BY <1>2, <1>4, Names
<1>7. source[n] \in Nat \ {0} /\ source[n] = made[n]
  BY <1>4, <1>5 DEF Types, RowTypes
<1>8. ASSUME NEW d \in new
      PROVE  /\ setup.prefixed /\ IsLog(d) /\ d.source = n /\ d.seg = source[n] /\ d.fields = LogFields
             /\ OwnedBy(d)'
  <2>1. setup.prefixed /\ d = Declaration(n, source[n], <<LogEvent>>, LogFields)
    BY <1>3
  <2>2. IsLog(d) /\ d.source = n /\ d.seg = source[n] /\ d.fields = LogFields
    BY <1>6, <2>1 DEF IsLog, Declaration
  <2>3. IsLog(d)' /\ d.seg \in 1..made'[d.source]
    BY <1>4, <1>7, <2>2 DEF IsLog, LogName
  <2> QED
    BY <2>1, <2>2, <2>3 DEF OwnedBy
<1>9. Grows
  <2>1. made \in [SourceNames -> Nat]
    BY <1>5 DEF Types
  <2>2. \A m \in SourceNames : made[m] <= made'[m] /\ made'[m] \in Nat
    BY <1>4, <2>1
  <2> QED
    BY <1>4, <2>2 DEF Grows, Within
<1>10. Owned'
  BY <1>4, <1>5, <1>8, <1>9, OwnedGrows
<1>11. Continuing'
  <2>1. ASSUME NEW d \in declared, NEW b \in new, d.source = b.source, d.event = b.event
        PROVE  d.seg < b.seg /\ DOMAIN d.fields \subseteq DOMAIN b.fields
    <3>1. IsLog(d)
      BY <1>8, <2>1 DEF IsLog
    <3>2. d.seg < source[LogName]
      BY <1>4, <1>5, <1>8, <3>1 DEF LogPresent
    <3>3. d.fields = LogFields
      BY <1>4, <1>5, <3>1, Apart DEF Owned, OwnedBy, Types
    <3> QED
      BY <1>6, <1>8, <3>2, <3>3
  <2>2. \A d, b \in new : d = b
    BY <1>3
  <2>3. \A b \in new : b.seg \in Nat
    BY <1>7, <1>8
  <2>4. FollowOn(new)
    BY <2>1, <2>2, <2>3, Zenon DEF FollowOn
  <2> QED
    BY <1>4, <1>5, <2>4, ContinuesOn
<1>12. Present'
  <2> SUFFICES ASSUME NEW b \in started', NEW e \in DOMAIN fields'[b]
               PROVE  \E d \in declared' : IsOf(d, b, e)' /\ d.seg = source'[SourceOf(b)']
    BY DEF Present
  <2>1. PICK d \in declared : IsOf(d, b, e) /\ d.seg = source[SourceOf(b)]
    BY <1>4, <1>5 DEF Present
  <2> QED
    BY <1>4, <2>1 DEF IsOf, SourceOf, EventName
<1>13. LogPresent'
  <2>1. CASE setup.prefixed
    <3>1. PICK d \in new : TRUE
      BY <1>3, <2>1
    <3>2. d \in declared' /\ IsLog(d)' /\ d.seg = handler'
      BY <1>4, <1>8, <2>1 DEF IsLog, LogName
    <3>3. handler' # 0 /\ loop'.step = "free"
      BY <1>4, <2>1
    <3> QED
      BY <3>2, <3>3 DEF LogPresent
  <2>2. CASE ~setup.prefixed
    BY <1>1, <1>4, <1>5, <2>2 DEF LogPresent, IsLog, LogName
  <2> QED
    BY <2>1, <2>2
<1>14. Unmade'
  BY <1>4 DEF Unmade
<1> QED
  BY <1>10, <1>11, <1>12, <1>13, <1>14 DEF SegmentsInv

LEMMA StepSegments == Inv /\ RowsInv /\ SegmentsInv /\ [Next]_vars => SegmentsInv'
<1> SUFFICES ASSUME Inv, RowsInv, SegmentsInv, [Next]_vars PROVE SegmentsInv'
  OBVIOUS
<1>1. CASE OpenSources
  BY <1>1, OpenSourcesSegments
<1>2. ASSUME NEW c \in Clients, Start(c) \/ \E map \in Maps : Discover(c, map) PROVE SegmentsInv'
  BY <1>2, StartSegments, DiscoverSegments
<1>3. CASE \/ \E c \in Clients : Resolve(c) \/ ConnectFails(c)
           \/ Acquire
           \/ \E t \in Threads : Handle(t) \/ Emit(t)
  BY <1>3, OtherSegments
<1>4. CASE Release \/ Reopen \/ RestoreLog
  BY <1>4, ReleaseSegments, ReopenSegments, RestoreLogSegments
<1>5. CASE UNCHANGED vars
  BY <1>5, SegmentsStay DEF vars, sources, client
<1> QED
  BY <1>1, <1>2, <1>3, <1>4, <1>5 DEF Next, Rotation

\* Between two rotations, everything declared is on its source's segment again, as it was and
\* with what it has got since.
LEMMA SegmentsFit == Inv /\ RowsInv /\ SegmentsInv => SegmentsContinue
<1> SUFFICES ASSUME Inv, RowsInv, SegmentsInv PROVE SegmentsContinue
  OBVIOUS
<1>1. /\ setup \in Setups /\ started \subseteq Clients /\ Owned /\ Continuing /\ Present /\ LogPresent
  BY DEF Inv, Types, SegmentsInv
<1>2. ASSUME NEW d \in declared, NEW b \in declared, d.source = b.source, d.event = b.event
      PROVE  /\ d.seg = b.seg => d = b
             /\ \A f \in DOMAIN d.fields \cap DOMAIN b.fields : d.fields[f] = b.fields[f]
             /\ d.seg < b.seg => DOMAIN d.fields \subseteq DOMAIN b.fields
  <2>1. Continues(d, b)
    BY <1>1 DEF Continuing
  <2>2. \A f \in DOMAIN d.fields \cap DOMAIN b.fields : d.fields[f] = b.fields[f]
    <3>1. CASE IsLog(d)
      <4>1. IsLog(b)
        BY <1>2, <3>1 DEF IsLog
      <4>2. d.fields = LogFields /\ b.fields = LogFields
        BY <1>1, <3>1, <4>1, Apart DEF Owned, OwnedBy
      <4> QED
        BY <4>2
    <3>2. ASSUME NEW c \in started, NEW e \in DOMAIN fields[c], IsOf(d, c, e), Within(d.fields, fields[c][e])
          PROVE  \A f \in DOMAIN d.fields \cap DOMAIN b.fields : d.fields[f] = b.fields[f]
      <4>1. IsOf(b, c, e) /\ c \in Clients
        BY <1>1, <1>2, <3>2 DEF IsOf
      <4>2. ~IsLog(b) /\ \A y \in Clients : \A g : IsOf(b, y, g) => y = c /\ g = e
        BY <1>1, <4>1, Apart
      <4>3. Within(b.fields, fields[c][e])
        BY <1>1, <4>2 DEF Owned, OwnedBy
      <4> QED
        BY <3>2, <4>3 DEF Within
    <3> QED
      BY <1>1, <3>1, <3>2 DEF Owned, OwnedBy
  <2> QED
    BY <1>2, <2>1, <2>2 DEF Continues
<1>3. ASSUME loop = Free, NEW d \in declared
      PROVE  \E b \in declared : b.source = d.source /\ b.event = d.event /\ b.seg = source[d.source]
  <2>1. loop.step = "free"
    BY <1>3 DEF Free
  <2>2. CASE IsLog(d)
    <3>1. handler # 0
      BY <1>1, <1>3, <2>1 DEF LogPresent, Inv, Logging, Rotating
    <3>2. handler = source[LogName]
      BY <3>1 DEF Inv, Logging
    <3>3. PICK b \in declared : IsLog(b) /\ b.seg = handler
      BY <1>1, <3>1 DEF LogPresent
    <3> QED
      BY <2>2, <3>2, <3>3 DEF IsLog
  <2>3. ASSUME NEW c \in started, NEW e \in DOMAIN fields[c], IsOf(d, c, e)
        PROVE  \E b \in declared : b.source = d.source /\ b.event = d.event /\ b.seg = source[d.source]
    <3>1. PICK b \in declared : IsOf(b, c, e) /\ b.seg = source[SourceOf(c)]
      BY <1>1, <2>1 DEF Present
    <3> QED
      BY <2>3, <3>1 DEF IsOf
  <2> QED
    BY <1>1, <2>2, <2>3 DEF Owned, OwnedBy
<1> QED
  BY <1>2, <1>3 DEF SegmentsContinue

\* An event is declared once on a segment and by one writer, with the fields and datatypes it
\* had before, and no rotation leaves one behind.
THEOREM NothingIsLeftBehind == Spec => []SegmentsContinue
<1>1. Init => Inv /\ RowsInv /\ SegmentsInv
  BY InitInv, InitRows, InitSegments
<1>2. (Inv /\ RowsInv /\ SegmentsInv) /\ [Next]_vars => (Inv /\ RowsInv /\ SegmentsInv)'
  BY StepInv, StepRows, StepSegments
<1>3. Inv /\ RowsInv /\ SegmentsInv => SegmentsContinue
  BY SegmentsFit
<1> QED
  BY <1>1, <1>2, <1>3, PTL DEF Spec
=============================================================================
