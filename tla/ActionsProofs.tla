---------------------------- MODULE ActionsProofs ----------------------------
(***************************************************************************)
(* A write with a settled handle reaches the node it names, and its caller *)
(* is told what became of it, for any calls, timeouts, reconnects and      *)
(* restarts.                                                               *)
(***************************************************************************)
EXTENDS Actions, TLAPS

ConnStates == {"down", "checking", "setup", "resolving", "starting", "up"}
Settled == {"starting", "up"}
NodeHandles == [link : Nat, ns : Nat, at : ConnStates]

CallRecords ==
    [op : Operations \cup {CHOOSE op \in Operations : TRUE},
     step : Awaiting \cup {"idle", "queued", "over"}, goal : {"none", "access", "value"},
     node : NodeHandles, sent : BOOLEAN, flight : BOOLEAN, applied : {"no", "named", "other"},
     waited : Nat, asked : Nat,
     report : {"none", "ok", "failed", "timeout", "unknown"}, began : Nat, lost : BOOLEAN]

\* What the connection keeps of the server's array is current while the server is the same:
\* the array once read, the handles once resolved, and those of a session that can be kept.
Connections ==
    /\ conn \in ConnStates /\ link \in Nat /\ alive \in BOOLEAN /\ held \in BOOLEAN
    /\ ready \in BOOLEAN /\ ns \in Nat \ {0} /\ known \in Nat /\ handles \in Nat
    /\ alive => held /\ known \in {0, ns}
    /\ alive /\ conn \in Settled => known = ns /\ handles = ns
    /\ held /\ ready => handles = ns
    /\ conn \in {"setup", "resolving", "starting"} => ~ready
    /\ conn = "checking" => ready

\* A call before its write has written nothing.
Unwritten(call) == call.applied = "no" /\ ~call.flight

\* A handle in use has been resolved; one that is settled and of this connection is current.
Aimed(call) ==
    /\ call.node.link <= link
    /\ call.flight \/ call.step \in {"access", "value", "write"} => call.node.ns # 0
    /\ alive /\ call.node.link = link /\ call.node.at \in Settled /\ call.node.ns # 0 =>
          call.node.ns = ns

Proceeds(call) ==
    /\ call.step \in {"queued", "namespaces", "access", "value"} => Unwritten(call)
    /\ call.step = "namespaces" => call.goal \in {"access", "value"}
    /\ call.step = "access" => call.goal = "access"
    /\ call.step \in {"value", "write"} => call.goal = "value"
    /\ call.node.at \in Settled => call.applied # "other"

CallOK(call) == call \in CallRecords /\ Aimed(call) /\ Proceeds(call)

Inv == Connections /\ calls \in [Calls -> CallRecords] /\ \A c \in Calls : CallOK(calls[c])

-----------------------------------------------------------------------------
(* What the operators on a call keep *)

LEMMA OverOK ==
    \A call \in CallRecords : \A verdict \in {"ok", "failed", "timeout", "unknown"} :
        Aimed(call) /\ (call.node.at \in Settled => call.applied # "other")
            => CallOK(Over(call, verdict))
<1> SUFFICES ASSUME NEW call \in CallRecords,
                    NEW verdict \in {"ok", "failed", "timeout", "unknown"},
                    Aimed(call), call.node.at \in Settled => call.applied # "other"
             PROVE  CallOK(Over(call, verdict))
  OBVIOUS
<1> DEFINE after == Over(call, verdict)
<1>2. /\ after.node = call.node /\ after.flight = call.flight /\ after.step = "over"
      /\ after.applied = call.applied
  BY DEF CallRecords, Over
<1>3. after \in CallRecords
  BY DEF CallRecords, Over
<1> HIDE DEF after
<1>4. Aimed(after) /\ Proceeds(after)
  BY <1>2 DEF CallOK, Aimed, Proceeds
<1> QED
  BY <1>3, <1>4 DEF CallOK, after

LEMMA FailsOK ==
    \A call \in CallRecords :
        Aimed(call) /\ (call.node.at \in Settled => call.applied # "other")
            => CallOK(Fails(call)) /\ CallOK(Expires(call))
<1> SUFFICES ASSUME NEW call \in CallRecords, Aimed(call), call.node.at \in Settled => call.applied # "other"
             PROVE  CallOK(Fails(call)) /\ CallOK(Expires(call))
  OBVIOUS
<1> DEFINE marked == [call EXCEPT !.lost = call.sent]
<1>1. /\ marked \in CallRecords /\ marked.node = call.node /\ marked.flight = call.flight
      /\ marked.step = call.step /\ marked.applied = call.applied
  BY DEF CallRecords
<1> HIDE DEF marked
<1>2. Aimed(marked) /\ (marked.node.at \in Settled => marked.applied # "other")
  BY <1>1 DEF Aimed
<1>3. CallOK(Over(marked, "failed"))
  BY <1>1, <1>2, OverOK
<1>4. CallOK(Expires(call))
  BY OverOK DEF Expires
<1> QED
  BY <1>3, <1>4 DEF Fails, marked

LEMMA AskOK ==
    \A call \in CallRecords : \A step \in {"access", "value"} : \A node \in NodeHandles :
        Unwritten(call) /\ call.goal = step /\ node.link = link /\ node.ns # 0
          /\ (alive /\ node.at \in Settled => node.ns = ns) /\ link \in Nat
        => CallOK(Ask(call, step, node))
<1> SUFFICES ASSUME NEW call \in CallRecords, NEW step \in {"access", "value"}, NEW node \in NodeHandles,
                    Unwritten(call), call.goal = step, node.link = link, node.ns # 0,
                    alive /\ node.at \in Settled => node.ns = ns, link \in Nat
             PROVE  CallOK(Ask(call, step, node))
  OBVIOUS
<1> DEFINE after == Ask(call, step, node)
<1>1. /\ after.node = node /\ after.flight = call.flight /\ after.step = step
      /\ after.applied = call.applied /\ after.goal = call.goal
  BY DEF CallRecords, Ask
<1>2. after \in CallRecords
  BY DEF CallRecords, Ask, Awaiting
<1> HIDE DEF after
<1>3. Aimed(after)
  BY <1>1 DEF Aimed
<1>4. Proceeds(after)
  BY <1>1 DEF Proceeds, Unwritten
<1> QED
  BY <1>2, <1>3, <1>4 DEF CallOK, after

LEMMA TakeHandleOK ==
    Connections => \A call : \A goal \in {"access", "value"} :
        CallOK(call) /\ Unwritten(call) => CallOK(TakeHandle(call, goal))
<1> SUFFICES ASSUME Connections, NEW call, NEW goal \in {"access", "value"}, CallOK(call), Unwritten(call)
             PROVE  CallOK(TakeHandle(call, goal))
  OBVIOUS
<1> DEFINE aimed == [call EXCEPT !.goal = goal]
<1>1. call \in CallRecords
  BY DEF CallOK
<1>2. /\ aimed \in CallRecords /\ aimed.goal = goal /\ aimed.step = call.step /\ aimed.node = call.node
      /\ aimed.flight = FALSE /\ aimed.applied = "no"
  BY <1>1 DEF CallRecords, Unwritten
<1> HIDE DEF aimed
<1>3. CallOK(Fails(aimed))
  <2>1. Aimed(aimed)
    BY <1>2 DEF CallOK, Aimed
  <2> QED
    BY <1>2, <2>1, FailsOK
<1>4. ASSUME NEW version \in {handles, known}, version # 0, Connected
      PROVE  CallOK(Ask(aimed, goal, Handle(version)))
  <2> DEFINE node == Handle(version)
  <2>1. node \in NodeHandles /\ node.link = link /\ node.ns = version /\ node.at = conn
    BY DEF Handle, NodeHandles, Connections
  <2>2. alive /\ conn \in Settled => version = ns
    BY <1>4 DEF Connections
  <2> HIDE DEF node
  <2>3. CallOK(Ask(aimed, goal, node))
    BY <1>2, <1>4, <2>1, <2>2, AskOK DEF Unwritten, Connections
  <2> QED
    BY <2>3 DEF node
<1>5. CallOK(Ask(aimed, "namespaces", [Handle(0) EXCEPT !.ns = 0]))
  <2> DEFINE node == [Handle(0) EXCEPT !.ns = 0]
             after == Ask(aimed, "namespaces", node)
  <2>1. node \in NodeHandles /\ node.link = link /\ node.ns = 0
    BY DEF Handle, NodeHandles, Connections
  <2> HIDE DEF node
  <2>2. /\ after.node = node /\ after.flight = FALSE /\ after.step = "namespaces"
        /\ after.applied = "no" /\ after.goal = goal
    BY <1>2 DEF CallRecords, Ask
  <2>3. after \in CallRecords
    BY <1>2, <2>1 DEF CallRecords, Ask, Awaiting
  <2> HIDE DEF after
  <2>4. Aimed(after) /\ Proceeds(after)
    BY <2>1, <2>2 DEF Aimed, Proceeds, Unwritten, Connections
  <2>5. CallOK(after)
    BY <2>3, <2>4 DEF CallOK
  <2> QED
    BY <2>5 DEF after, node
<1> QED
  <2>1. CASE ~Connected
    BY <1>3, <2>1 DEF TakeHandle, aimed
  <2>2. CASE Connected /\ call.op.mapped /\ handles # 0
    BY <1>4, <2>2 DEF TakeHandle, aimed
  <2>3. CASE Connected /\ ~(call.op.mapped /\ handles # 0) /\ known # 0
    BY <1>4, <2>3 DEF TakeHandle, aimed
  <2>4. CASE Connected /\ ~(call.op.mapped /\ handles # 0) /\ known = 0
    BY <1>5, <2>4 DEF TakeHandle, aimed
  <2> QED
    BY <2>1, <2>2, <2>3, <2>4

-----------------------------------------------------------------------------
(* The steps *)

LEMMA InitInv == Init => Inv
<1> SUFFICES ASSUME Init PROVE Inv
  OBVIOUS
<1>1. Connections
  <2>1. ns = 1 /\ known = 0 /\ handles = 0 /\ link = 0 /\ conn = "down"
    BY DEF Init
  <2>2. alive = FALSE /\ held = FALSE /\ ready = FALSE
    BY DEF Init
  <2>3. /\ conn \in ConnStates /\ link \in Nat /\ ns \in Nat \ {0} /\ known \in Nat /\ handles \in Nat
    BY <2>1 DEF ConnStates
  <2>4. alive \in BOOLEAN /\ held \in BOOLEAN /\ ready \in BOOLEAN
    BY <2>2
  <2>5. conn # "checking"
    BY <2>1
  <2> HIDE DEF Init
  <2>6. ~alive /\ ~held /\ ~ready
    BY <2>2
  <2> QED
    BY <2>3, <2>4, <2>5, <2>6 DEF Connections
<1>2. /\ NotCalled \in CallRecords /\ NotCalled.step = "idle" /\ NotCalled.node = NoHandle
      /\ NotCalled.flight = FALSE /\ NotCalled.applied = "no"
  BY DEF NotCalled, NewCall, NoHandle, CallRecords, NodeHandles, ConnStates, Awaiting
<1>3. CallOK(NotCalled)
  BY <1>1, <1>2 DEF CallOK, Aimed, Proceeds, Unwritten, NoHandle, Settled, Connections
<1> QED
  BY <1>1, <1>2, <1>3 DEF Init, Inv

\* A step of one call, which leaves the connection and the server alone.
LEMMA OneCall ==
    ASSUME Inv, NEW c \in Calls, NEW call, CallOK(call), calls' = [calls EXCEPT ![c] = call],
           UNCHANGED <<alive, link, ns>>, Connections'
    PROVE  Inv'
<1>1. call \in CallRecords
  BY DEF CallOK
<1>2. calls' \in [Calls -> CallRecords]
  BY <1>1 DEF Inv
<1>3. \A d \in Calls : CallOK(calls'[d])
  BY DEF Inv
<1>4. \A d \in Calls : CallOK(calls[d])'
  BY <1>3 DEF CallOK, Aimed, Proceeds, Unwritten
<1> QED
  BY <1>2, <1>4 DEF Inv

LEMMA CallInv == ASSUME NEW c \in Calls, NEW op \in Operations, Inv, Call(c, op) PROVE Inv'
<1>1. /\ UNCHANGED <<server, client>> /\ link \in Nat
      /\ calls' = [calls EXCEPT ![c] = IF RefusedAtOnce(op) THEN Fails(NewCall(op)) ELSE NewCall(op)]
  BY DEF Call, Tell, Inv, Connections
<1>2. /\ NewCall(op) \in CallRecords /\ NewCall(op).step = "queued" /\ NewCall(op).node = NoHandle
      /\ NewCall(op).flight = FALSE /\ NewCall(op).applied = "no"
  BY DEF NewCall, NoHandle, CallRecords, NodeHandles, ConnStates, Awaiting
<1>3. Aimed(NewCall(op)) /\ Proceeds(NewCall(op))
  BY <1>1, <1>2 DEF Aimed, Proceeds, Unwritten, NoHandle, Settled
<1>4. CallOK(NewCall(op)) /\ CallOK(Fails(NewCall(op)))
  BY <1>2, <1>3, FailsOK DEF CallOK, Proceeds
<1>5. Connections'
  BY <1>1 DEF Inv, Connections, server, client
<1> QED
  BY <1>1, <1>4, <1>5, OneCall DEF server, client

LEMMA BeginInv == ASSUME NEW c \in Calls, Inv, Begin(c) PROVE Inv'
<1> DEFINE call == [calls[c] EXCEPT !.began = link]
           probe == call.op.write /\ call.op.byName /\ call.op.ask
<1>1. /\ UNCHANGED <<server, client>> /\ calls[c].step = "queued" /\ CallOK(calls[c])
      /\ calls' = [calls EXCEPT ![c] = IF probe /\ cache = "none" THEN TakeHandle(call, "access")
                                       ELSE IF probe /\ cache = "no" THEN Fails(call)
                                       ELSE TakeHandle(call, "value")]
  BY DEF Begin, Tell, Inv, CallOK, CallRecords
<1>2. /\ call \in CallRecords /\ call.step = "queued" /\ call.node = calls[c].node
      /\ call.flight = calls[c].flight /\ call.applied = calls[c].applied
  BY <1>1 DEF CallOK, CallRecords, Inv, Connections
<1> HIDE DEF call, probe
<1>3. CallOK(call) /\ Unwritten(call)
  BY <1>1, <1>2 DEF CallOK, Aimed, Proceeds, Unwritten
<1>4. CallOK(Fails(call)) /\ CallOK(TakeHandle(call, "access")) /\ CallOK(TakeHandle(call, "value"))
  BY <1>2, <1>3, FailsOK, TakeHandleOK DEF CallOK, Unwritten, Inv, Proceeds
<1>5. Connections'
  BY <1>1 DEF Inv, Connections, server, client
<1> QED
  BY <1>1, <1>4, <1>5, OneCall DEF server, client

LEMMA NamespacesReadInv == ASSUME NEW c \in Calls, Inv, NamespacesRead(c) PROVE Inv'
<1> DEFINE node == Handle(ns)
<1>1. /\ calls[c].step = "namespaces" /\ CallOK(calls[c]) /\ calls[c] \in CallRecords
      /\ UNCHANGED <<server, conn, link, ready, handles>> /\ known' = ns
      /\ calls' = [calls EXCEPT ![c] = Ask(calls[c], calls[c].goal, node)]
  BY DEF NamespacesRead, Tell, Inv, CallOK
<1>2. node \in NodeHandles /\ node.link = link /\ node.ns = ns /\ ns # 0
  BY DEF Handle, NodeHandles, Inv, Connections
<1> HIDE DEF node
<1>3. CallOK(Ask(calls[c], calls[c].goal, node))
  BY <1>1, <1>2, AskOK DEF CallOK, Proceeds, Inv, Connections
<1>4. Connections'
  BY <1>1 DEF Inv, Connections, server
<1> QED
  BY <1>1, <1>3, <1>4, OneCall DEF server, client

LEMMA AccessReadInv ==
    ASSUME NEW c \in Calls, NEW writable \in BOOLEAN, Inv, AccessRead(c, writable) PROVE Inv'
<1>1. /\ UNCHANGED <<server, client>> /\ calls[c].step = "access" /\ CallOK(calls[c])
      /\ calls' = [calls EXCEPT ![c] = IF writable THEN TakeHandle(calls[c], "value") ELSE Fails(calls[c])]
  BY DEF AccessRead, Tell, Inv
<1>2. Unwritten(calls[c])
  BY <1>1 DEF CallOK, Proceeds
<1>3. CallOK(Fails(calls[c])) /\ CallOK(TakeHandle(calls[c], "value"))
  BY <1>1, <1>2, FailsOK, TakeHandleOK DEF CallOK, Proceeds, Inv
<1>4. Connections'
  BY <1>1 DEF Inv, Connections, server, client
<1> QED
  BY <1>1, <1>3, <1>4, OneCall DEF server, client

LEMMA ValueReadInv == ASSUME NEW c \in Calls, Inv, ValueRead(c) PROVE Inv'
<1> DEFINE call == calls[c]
           after == [Ask(call, "write", call.node) EXCEPT !.sent = TRUE, !.flight = TRUE]
<1>1. /\ UNCHANGED <<server, client>> /\ call.step = "value" /\ CallOK(call) /\ call \in CallRecords
      /\ calls' = [calls EXCEPT ![c] = IF ~call.op.write THEN Over(call, "ok")
                                       ELSE IF ~call.op.parses THEN Fails(call) ELSE after]
  BY DEF ValueRead, Tell, Inv, CallOK
<1> HIDE DEF call
<1>2. /\ after \in CallRecords /\ after.step = "write" /\ after.goal = call.goal
      /\ after.node = call.node /\ after.applied = call.applied
  BY <1>1 DEF CallRecords, Ask, Awaiting
<1> HIDE DEF after
<1>3. CallOK(after)
  BY <1>1, <1>2 DEF CallOK, Aimed, Proceeds
<1>4. CallOK(Over(call, "ok")) /\ CallOK(Fails(call))
  BY <1>1, OverOK, FailsOK DEF CallOK, Proceeds
<1>5. Connections'
  BY <1>1 DEF Inv, Connections, server, client
<1> QED
  BY <1>1, <1>3, <1>4, <1>5, OneCall DEF server, client

\* The server applies a settled handle's write to the node it names.
LEMMA AppliesInv == ASSUME NEW c \in Calls, Inv, Applies(c) PROVE Inv'
<1> DEFINE call == calls[c]
           after == [call EXCEPT !.flight = FALSE, !.applied = IF call.node.ns = ns THEN "named" ELSE "other"]
<1>1. /\ UNCHANGED <<server, client>> /\ call.flight /\ alive /\ call.node.link = link
      /\ CallOK(call) /\ call \in CallRecords /\ calls' = [calls EXCEPT ![c] = after]
  BY DEF Applies, Tell, Inv, CallOK
<1> HIDE DEF call
<1>2. /\ after \in CallRecords /\ after.step = call.step /\ after.goal = call.goal
      /\ after.node = call.node /\ after.flight = FALSE
      /\ after.applied = IF call.node.ns = ns THEN "named" ELSE "other"
  BY <1>1 DEF CallRecords
<1> HIDE DEF after
<1>3. call.node.at \in Settled => call.node.ns = ns
  BY <1>1 DEF CallOK, Aimed
<1>4. CallOK(after)
  BY <1>1, <1>2, <1>3 DEF CallOK, Aimed, Proceeds, Unwritten
<1>5. Connections'
  BY <1>1 DEF Inv, Connections, server, client
<1> QED
  BY <1>1, <1>4, <1>5, OneCall DEF server, client

\* A refusal, an answer and an error end a call, or go on to its value.
LEMMA EndsInv ==
    ASSUME NEW c \in Calls, Inv, Refuses(c) \/ Written(c) \/ LinkFails(c) \/ RequestTimesOut(c)
    PROVE  Inv'
<1> DEFINE call == calls[c]
           landed == [call EXCEPT !.flight = FALSE]
<1>1. /\ UNCHANGED <<server, client>> /\ CallOK(call) /\ call \in CallRecords
  BY DEF Refuses, Written, LinkFails, RequestTimesOut, Error, Inv, CallOK
<1>2. /\ landed \in CallRecords /\ landed.node = call.node /\ landed.flight = FALSE
      /\ landed.applied = call.applied /\ landed.step = call.step
  BY <1>1 DEF CallRecords
<1>3. CallOK(Over(landed, "failed"))
  <2> HIDE DEF landed
  <2>1. Aimed(landed) /\ (landed.node.at \in Settled => landed.applied # "other")
    BY <1>1, <1>2 DEF CallOK, Aimed, Proceeds
  <2> QED
    BY <1>2, <2>1, OverOK
<1>4. CallOK(Over(call, "ok")) /\ CallOK(Fails(call)) /\ CallOK(Expires(call))
  BY <1>1, OverOK, FailsOK DEF CallOK, Proceeds
<1>5. call.step \in Awaiting /\ Probing(call) => CallOK(TakeHandle(call, "value"))
  BY <1>1, TakeHandleOK DEF CallOK, Proceeds, Probing, Awaiting, Inv
<1>6. \/ calls' = [calls EXCEPT ![c] = Over(landed, "failed")]
      \/ calls' = [calls EXCEPT ![c] = Over(call, "ok")]
      \/ calls' = [calls EXCEPT ![c] = Fails(call)]
      \/ calls' = [calls EXCEPT ![c] = Expires(call)]
      \/ calls' = [calls EXCEPT ![c] = TakeHandle(call, "value")] /\ call.step \in Awaiting /\ Probing(call)
  BY DEF Refuses, Written, LinkFails, RequestTimesOut, Error, Tell
<1> HIDE DEF call, landed
<1>7. Connections'
  BY <1>1 DEF Inv, Connections, server, client
<1>8. UNCHANGED <<alive, link, ns>>
  BY <1>1 DEF server, client
<1> QED
  BY <1>3, <1>4, <1>5, <1>6, <1>7, <1>8, OneCall

\* The caller leaves; the coroutine is cancelled.
LEMMA LeavesInv == ASSUME NEW c \in Calls, Inv, CallerTimesOut(c) \/ Cancelled(c) PROVE Inv'
<1> DEFINE call == calls[c]
<1>1. UNCHANGED <<server, client>> /\ CallOK(call) /\ call \in CallRecords
  BY DEF CallerTimesOut, Cancelled, Inv, CallOK
<1>2. PICK after : /\ calls' = [calls EXCEPT ![c] = after] /\ after \in CallRecords
                   /\ after.node = call.node /\ after.flight = call.flight
                   /\ after.applied = call.applied /\ after.goal = call.goal
                   /\ after.step = call.step \/ after.step = "over"
  <2>1. CASE CallerTimesOut(c)
    <3> DEFINE told == [call EXCEPT !.report = IF call.sent THEN "unknown" ELSE "timeout"]
    <3>1. calls' = [calls EXCEPT ![c] = told]
      BY <2>1 DEF CallerTimesOut, Tell
    <3>2. /\ told \in CallRecords /\ told.node = call.node /\ told.flight = call.flight
          /\ told.applied = call.applied /\ told.goal = call.goal /\ told.step = call.step
      BY <1>1 DEF CallRecords
    <3> QED
      BY <3>1, <3>2
  <2>2. CASE Cancelled(c)
    <3> DEFINE gone == [call EXCEPT !.step = "over"]
    <3>1. calls' = [calls EXCEPT ![c] = gone]
      BY <2>2 DEF Cancelled, Tell
    <3>2. /\ gone \in CallRecords /\ gone.node = call.node /\ gone.flight = call.flight
          /\ gone.applied = call.applied /\ gone.goal = call.goal /\ gone.step = "over"
      BY <1>1 DEF CallRecords
    <3> QED
      BY <3>1, <3>2
  <2> QED
    BY <2>1, <2>2
<1> HIDE DEF call
<1>3. CallOK(after)
  BY <1>1, <1>2 DEF CallOK, Aimed, Proceeds, Unwritten
<1>4. Connections'
  BY <1>1 DEF Inv, Connections, server, client
<1> QED
  BY <1>1, <1>2, <1>3, <1>4, OneCall DEF server, client

-----------------------------------------------------------------------------
(* The steps of the connection, the server and time *)

\* A write on its way is lost; nothing else of a call changes.
LEMMA LandedOK ==
    \A call : CallOK(call) =>
        /\ CallOK([call EXCEPT !.flight = FALSE])
        /\ CallOK(Fails([call EXCEPT !.flight = FALSE]))
<1> SUFFICES ASSUME NEW call, CallOK(call)
             PROVE  CallOK([call EXCEPT !.flight = FALSE]) /\ CallOK(Fails([call EXCEPT !.flight = FALSE]))
  OBVIOUS
<1> DEFINE landed == [call EXCEPT !.flight = FALSE]
<1>1. /\ landed \in CallRecords /\ landed.node = call.node /\ landed.flight = FALSE
      /\ landed.applied = call.applied /\ landed.step = call.step /\ landed.goal = call.goal
  BY DEF CallOK, CallRecords
<1> HIDE DEF landed
<1>2. CallOK(landed)
  BY <1>1 DEF CallOK, Aimed, Proceeds, Unwritten
<1>3. CallOK(Fails(landed))
  BY <1>1, <1>2, FailsOK DEF CallOK, Proceeds
<1> QED
  BY <1>2, <1>3 DEF landed

\* What is true of a call stays true when the connection ends, goes on or another begins.
LEMMA OutlivesOK ==
    ASSUME Connections, link' \in Nat, link <= link',
           alive' => link < link' \/ (alive /\ ns' = ns)
    PROVE  \A call : CallOK(call) => CallOK(call)'
<1> SUFFICES ASSUME NEW call, CallOK(call) PROVE CallOK(call)'
  OBVIOUS
<1> QED
  BY DEF CallOK, Aimed, Proceeds, Unwritten, CallRecords, NodeHandles, Connections

\* A step that leaves the calls alone.
LEMMA CallsKept ==
    ASSUME Inv, UNCHANGED calls, Connections', link <= link',
           alive' => link < link' \/ (alive /\ ns' = ns)
    PROVE  Inv'
<1>1. \A call : CallOK(call) => CallOK(call)'
  BY OutlivesOK DEF Inv, Connections
<1>2. \A c \in Calls : CallOK(calls[c])'
  BY <1>1 DEF Inv
<1> QED
  BY <1>2 DEF Inv

LEMMA EstablishInv == Inv /\ Establish => Inv'
<1> SUFFICES ASSUME Inv, Establish PROVE Inv'
  OBVIOUS
<1>1. /\ conn' \in {"checking", "setup"} /\ (conn' = "checking" <=> held /\ ready)
      /\ link' = link + 1 /\ alive' = TRUE /\ held' = TRUE /\ ready' = (held /\ ready) /\ known' = 0
      /\ UNCHANGED <<ns, handles, calls>>
  BY DEF Establish, Forgotten
<1>2. Connections'
  <2>1. /\ conn' \in ConnStates /\ link' \in Nat /\ ns' \in Nat \ {0} /\ known' \in Nat /\ handles' \in Nat
    BY <1>1 DEF Inv, Connections, ConnStates
  <2>2. alive' \in BOOLEAN /\ held' \in BOOLEAN /\ ready' \in BOOLEAN
    BY <1>1
  <2>3. conn' \notin Settled
    BY <1>1 DEF Settled
  <2>4. held' /\ ready' => handles' = ns'
    BY <1>1 DEF Inv, Connections
  <2>5. conn' = "checking" => ready'
    BY <1>1
  <2>6. conn' \in {"setup", "resolving", "starting"} => ~ready'
    BY <1>1
  <2>7. alive' => held' /\ known' \in {0, ns'}
    BY <1>1
  <2> QED
    BY <2>1, <2>2, <2>3, <2>4, <2>5, <2>6, <2>7 DEF Connections
<1>3. link < link'
  BY <1>1 DEF Inv, Connections
<1> QED
  BY <1>1, <1>2, <1>3, CallsKept DEF Inv, Connections

\* The steps of a connect on the connection it began.
LEMMA SetupInv == Inv /\ (Kept \/ Resolve \/ Resolved \/ Started \/ LinkNoticed) => Inv'
<1> SUFFICES ASSUME Inv, Kept \/ Resolve \/ Resolved \/ Started \/ LinkNoticed PROVE Inv'
  OBVIOUS
<1>1. UNCHANGED <<server, link, calls>>
  BY DEF Kept, Resolve, Resolved, Started, LinkNoticed
<1>2. Connections'
  <2>1. CASE Kept
    <3>1. /\ alive /\ held /\ ready /\ handles = ns /\ known' = ns /\ conn' = "up"
          /\ UNCHANGED <<ready, handles>>
      BY <2>1 DEF Kept, Inv, Connections
    <3> QED
      BY <1>1, <3>1 DEF Inv, Connections, ConnStates, server
  <2>2. CASE Resolve
    BY <1>1, <2>2 DEF Resolve, Inv, Connections, ConnStates, Settled, server
  <2>3. CASE Resolved
    <3>1. /\ alive /\ held /\ ~ready /\ known' = ns /\ handles' = ns /\ conn' = "starting"
          /\ UNCHANGED ready
      BY <2>3 DEF Resolved, Inv, Connections
    <3> QED
      BY <1>1, <3>1 DEF Inv, Connections, ConnStates, server
  <2>4. CASE Started
    <3>1. /\ alive /\ held /\ known = ns /\ handles = ns /\ conn' = "up" /\ ready' = TRUE
          /\ UNCHANGED <<known, handles>>
      BY <2>4 DEF Started, Inv, Connections, Settled
    <3> QED
      BY <1>1, <3>1 DEF Inv, Connections, ConnStates, server
  <2>5. CASE LinkNoticed
    <3>1. ~alive /\ conn' = "down" /\ UNCHANGED <<known, handles, ready>>
      BY <2>5 DEF LinkNoticed
    <3> QED
      BY <1>1, <3>1 DEF Inv, Connections, ConnStates, Settled, server
  <2> QED
    BY <2>1, <2>2, <2>3, <2>4, <2>5
<1> QED
  BY <1>1, <1>2, CallsKept DEF server, Inv, Connections

\* The link goes, with the server's restart, a shutdown or alone, and what was on its way.
LEMMA LinkGoesInv ==
    ASSUME Inv, alive' = FALSE, Connections', link' = link,
           calls' = [c \in Calls |-> calls'[c]],
           \A c \in Calls : calls'[c] \in {[calls[c] EXCEPT !.flight = FALSE],
                                           Fails([calls[c] EXCEPT !.flight = FALSE])}
    PROVE  Inv'
<1>1. \A c \in Calls : CallOK(calls'[c])
  BY LandedOK DEF Inv
<1>2. \A call : CallOK(call) => CallOK(call)'
  BY OutlivesOK DEF Inv, Connections
<1>3. \A c \in Calls : CallOK(calls[c])'
  BY <1>1, <1>2
<1>4. calls' \in [Calls -> CallRecords]
  BY <1>1 DEF CallOK
<1> QED
  BY <1>3, <1>4 DEF Inv

LEMMA CutInv == Inv /\ Cut => Inv'
<1> SUFFICES ASSUME Inv, Cut PROVE Inv'
  OBVIOUS
<1>1. alive' = FALSE /\ calls' = Lost /\ UNCHANGED <<held, ns, conn, link, ready, known, handles>>
  BY DEF Cut, client
<1>2. Connections'
  BY <1>1 DEF Inv, Connections
<1> QED
  BY <1>1, <1>2, LinkGoesInv DEF Lost

LEMMA RestartInv == Inv /\ Restart => Inv'
<1> SUFFICES ASSUME Inv, Restart PROVE Inv'
  OBVIOUS
<1>1. /\ alive' = FALSE /\ held' = FALSE /\ ns' = ns + 1 /\ calls' = Lost
      /\ UNCHANGED <<conn, link, ready, known, handles>>
  BY DEF Restart, client
<1>2. Connections'
  <2>1. ~alive' /\ ~held' /\ ns' \in Nat \ {0}
    BY <1>1 DEF Inv, Connections
  <2>2. /\ conn' \in ConnStates /\ link' \in Nat /\ alive' \in BOOLEAN /\ held' \in BOOLEAN
        /\ ready' \in BOOLEAN /\ known' \in Nat /\ handles' \in Nat
    BY <1>1 DEF Inv, Connections
  <2>3. /\ conn' \in {"setup", "resolving", "starting"} => ~ready'
        /\ conn' = "checking" => ready'
    BY <1>1 DEF Inv, Connections
  <2> QED
    BY <2>1, <2>2, <2>3 DEF Connections
<1> QED
  BY <1>1, <1>2, LinkGoesInv DEF Lost

LEMMA StopInv == Inv /\ Stop => Inv'
<1> SUFFICES ASSUME Inv, Stop PROVE Inv'
  OBVIOUS
<1>1. /\ alive' = FALSE /\ conn' = "down" /\ UNCHANGED <<held, ns, link, ready, known, handles>>
  BY DEF Stop
<1>2. PICK unheard \in SUBSET {c \in Calls : calls[c].step = "queued"} :
        calls' = [c \in Calls |->
                    IF calls[c].step \in Awaiting \cup {"queued"} /\ c \notin unheard
                    THEN Fails([calls[c] EXCEPT !.flight = FALSE]) ELSE [calls[c] EXCEPT !.flight = FALSE]]
  BY DEF Stop
<1>3. Connections'
  <2>1. /\ conn' \in ConnStates /\ conn' \notin Settled /\ conn' # "checking"
        /\ conn' \notin {"setup", "resolving", "starting"}
    BY <1>1 DEF ConnStates, Settled
  <2>2. ~alive'
    BY <1>1
  <2>3. /\ link' \in Nat /\ alive' \in BOOLEAN /\ held' \in BOOLEAN /\ ready' \in BOOLEAN
        /\ ns' \in Nat \ {0} /\ known' \in Nat /\ handles' \in Nat
    BY <1>1 DEF Inv, Connections
  <2>4. held' /\ ready' => handles' = ns'
    BY <1>1 DEF Inv, Connections
  <2> QED
    BY <2>1, <2>2, <2>3, <2>4 DEF Connections
<1>4. \A c \in Calls : calls'[c] \in {[calls[c] EXCEPT !.flight = FALSE],
                                      Fails([calls[c] EXCEPT !.flight = FALSE])}
  BY <1>2
<1>5. calls' = [c \in Calls |-> calls'[c]]
  BY <1>2
<1> QED
  BY <1>1, <1>3, <1>4, <1>5, LinkGoesInv

LEMMA TickInv == Inv /\ Tick => Inv'
<1> SUFFICES ASSUME Inv, Tick PROVE Inv'
  OBVIOUS
<1> DEFINE Older(call) == [call EXCEPT !.waited = @ + 1,
                                       !.asked = IF call.step \in Awaiting THEN @ + 1 ELSE @]
<1>1. /\ UNCHANGED <<server, client>>
      /\ calls' = [c \in Calls |-> IF calls[c].step = "idle" \/ calls[c].report # "none" THEN calls[c]
                                   ELSE Older(calls[c])]
  BY DEF Tick
<1>2. \A call : CallOK(call) => CallOK(Older(call))
  <2> SUFFICES ASSUME NEW call, CallOK(call) PROVE CallOK(Older(call))
    OBVIOUS
  <2> DEFINE after == Older(call)
             asked == IF call.step \in Awaiting THEN call.asked + 1 ELSE call.asked
  <2>1. call \in CallRecords /\ call.waited + 1 \in Nat /\ asked \in Nat
    BY DEF CallOK, CallRecords
  <2>2. after = [call EXCEPT !.waited = call.waited + 1, !.asked = asked]
    OBVIOUS
  <2> HIDE DEF after, asked
  <2>3. after \in CallRecords
    BY <2>1, <2>2 DEF CallRecords
  <2>4. /\ after.node = call.node /\ after.flight = call.flight
        /\ after.applied = call.applied /\ after.step = call.step /\ after.goal = call.goal
    BY <2>1, <2>2 DEF CallRecords
  <2>5. CallOK(after)
    BY <2>3, <2>4 DEF CallOK, Aimed, Proceeds, Unwritten
  <2> QED
    BY <2>5 DEF after
<1> HIDE DEF Older
<1>3. \A c \in Calls : CallOK(calls'[c])
  BY <1>1, <1>2 DEF Inv
<1>4. Connections' /\ UNCHANGED <<alive, link, ns>>
  BY <1>1 DEF Inv, Connections, server, client
<1>5. \A call : CallOK(call) => CallOK(call)'
  BY <1>4, OutlivesOK DEF Inv, Connections
<1>6. \A c \in Calls : CallOK(calls[c])'
  BY <1>3, <1>5
<1>7. calls' \in [Calls -> CallRecords]
  BY <1>1, <1>3 DEF CallOK
<1> QED
  BY <1>4, <1>6, <1>7 DEF Inv

-----------------------------------------------------------------------------
LEMMA StepInv == Inv /\ [Next]_vars => Inv'
<1> SUFFICES ASSUME Inv, [Next]_vars PROVE Inv'
  OBVIOUS
<1>1. ASSUME NEW c \in Calls, NEW op \in Operations, Call(c, op) PROVE Inv'
  BY <1>1, CallInv
<1>2. ASSUME NEW c \in Calls, Coroutine(c) PROVE Inv'
  BY <1>2, BeginInv, NamespacesReadInv, AccessReadInv, ValueReadInv, EndsInv, LeavesInv DEF Coroutine
<1>3. ASSUME NEW c \in Calls, CallerTimesOut(c) \/ Applies(c) \/ Refuses(c) PROVE Inv'
  BY <1>3, LeavesInv, AppliesInv, EndsInv
<1>4. CASE Connection
  BY <1>4, EstablishInv, SetupInv DEF Connection
<1>5. CASE Cut \/ Restart \/ Stop \/ Tick
  BY <1>5, CutInv, RestartInv, StopInv, TickInv
<1>6. CASE UNCHANGED vars
  <2>1. UNCHANGED <<server, client, calls>>
    BY <1>6 DEF vars
  <2>2. Connections' /\ UNCHANGED <<alive, link, ns>>
    BY <2>1 DEF Inv, Connections, server, client
  <2> QED
    BY <2>1, <2>2, CallsKept DEF Inv, Connections
<1> QED
  BY <1>1, <1>2, <1>3, <1>4, <1>5, <1>6 DEF Next

\* The invariant the theorem is drawn from: a handle that is in use is of an array that was
\* read, and a settled one of this connection is of the server's own.
THEOREM Invariant == Spec => []Inv
<1> QED
  BY InitInv, StepInv, PTL DEF Spec

\* A write whose handle _ua_node took once _resolve_nodes was done reaches the node its id
\* names, or none, for any callers, timeouts, reconnects and restarts.
THEOREM SettledHandlesHold == Spec => []SettledWritesTheNamed
<1>1. Inv => SettledWritesTheNamed
  BY DEF Inv, CallOK, Proceeds, Settled, SettledWritesTheNamed
<1> QED
  BY <1>1, Invariant, PTL
-----------------------------------------------------------------------------
(* What a caller is told: the invariant of the clock *)

\* Nothing is written before the write goes out, and what is on its way is not applied yet.
Sending(call) ==
    /\ ~call.sent => Unwritten(call)
    /\ call.sent => call.op.write /\ call.step \in {"write", "over"}
    /\ call.step = "write" => call.sent
    /\ call.flight => call.applied = "no"

\* A caller that left without `the server may have applied it' left no coroutine to write.
Told(call) ==
    /\ call.step = "over" => call.report # "none"
    /\ call.report \in {"ok", "failed"} => call.step = "over"
    /\ call.report = "failed" => Unwritten(call) \/ call.lost
    /\ call.report = "ok" /\ call.op.write => call.applied # "no"
    /\ call.report = "timeout" /\ call.op.write /\ call.node.link <= call.began =>
          Unwritten(call) /\ (call.step = "over" \/ (call.step = "queued" /\ ~running))

\* The array was read on the handle's connection, which does not forget it.
ArrayKept(call) == call.node.link = link => known # 0

\* On the connection it began on, a write has awaited no more than the start of its coroutine
\* and the requests before its step: two, of which the array is read at most once.
Punctual(call) ==
    /\ call.step = "queued" /\ running => call.waited <= Lag
    /\ call.step = "namespaces" =>
          call.waited <= Lag + call.asked + (IF call.goal = "access" THEN 0 ELSE Timeout)
    /\ call.step = "access" =>
          \/ call.waited <= Lag + call.asked
          \/ call.waited <= Lag + call.asked + Timeout /\ ArrayKept(call)
    /\ call.step = "value" => call.waited <= Lag + call.asked + Timeout + Timeout

Timed(call) ==
    /\ call.began <= link /\ call.asked <= Timeout
    /\ call.step \in Awaiting => call.began <= call.node.link
    /\ call.step = "queued" => call.node.link <= call.began
    /\ call.op.write /\ call.report = "none" /\ call.node.link <= call.began => Punctual(call)

Truthful(call) == Sending(call) /\ Told(call) /\ Timed(call)

AllTruthful == \A c \in Calls : Truthful(calls[c])

\* What ends a call tells its caller what happened.
LEMMA OverTrue ==
    ASSUME NEW call \in CallRecords, NEW verdict \in {"ok", "failed", "timeout", "unknown"},
           Truthful(call), verdict = "failed" => Unwritten(call) \/ call.lost,
           verdict = "timeout" => ~call.sent,
           verdict = "ok" /\ call.op.write => call.applied # "no"
    PROVE  Truthful(Over(call, verdict))
<1> DEFINE after == Over(call, verdict)
<1>1. /\ after.node = call.node /\ after.flight = call.flight /\ after.step = "over"
      /\ after.applied = call.applied /\ after.sent = call.sent /\ after.op = call.op
      /\ after.began = call.began /\ after.asked = call.asked /\ after.waited = call.waited
      /\ after.report = IF call.report = "none" THEN verdict ELSE call.report
      /\ after.lost = call.lost
  BY DEF CallRecords, Over
<1> HIDE DEF after
<1>2. Sending(after)
  BY <1>1 DEF Truthful, Sending, Unwritten, Awaiting
<1>3. Told(after)
  BY <1>1 DEF Truthful, Told, Sending, Unwritten
<1>4. Timed(after)
  BY <1>1 DEF Truthful, Timed, Punctual, Awaiting
<1> QED
  BY <1>2, <1>3, <1>4 DEF Truthful, after

LEMMA FailsTrue ==
    ASSUME NEW call \in CallRecords, Truthful(call)
    PROVE  Truthful(Fails(call)) /\ Truthful(Expires(call))
<1> DEFINE marked == [call EXCEPT !.lost = call.sent]
<1>1. /\ marked \in CallRecords /\ marked.node = call.node /\ marked.flight = call.flight
      /\ marked.step = call.step /\ marked.applied = call.applied /\ marked.sent = call.sent
      /\ marked.op = call.op /\ marked.began = call.began /\ marked.asked = call.asked
      /\ marked.waited = call.waited /\ marked.report = call.report /\ marked.goal = call.goal
      /\ marked.lost = call.sent
  BY DEF CallRecords
<1> HIDE DEF marked
<1>2. Sending(marked) /\ Told(marked)
  BY <1>1 DEF Truthful, Sending, Told, Unwritten
<1>3. Timed(marked)
  BY <1>1 DEF Truthful, Timed, Punctual, ArrayKept
<1>4. Unwritten(marked) \/ marked.lost
  BY <1>1, <1>2 DEF Sending
<1>5. Truthful(Over(marked, "failed"))
  BY <1>1, <1>2, <1>3, <1>4, OverTrue DEF Truthful
<1>6. Truthful(Expires(call))
  BY OverTrue DEF Expires
<1> QED
  BY <1>5, <1>6 DEF Fails, marked

\* What may take a handle: a coroutine that has not written, whose caller waits or left once
\* another connection had begun, with the time left for the requests to come.
MayTake(call, goal) ==
    /\ ~call.sent /\ Unwritten(call) /\ call.began <= link
    /\ call.report \notin {"ok", "failed"}
    /\ call.report = "timeout" /\ call.op.write => call.began < link
    /\ call.op.write /\ call.report = "none" /\ link <= call.began =>
          /\ goal = "access" => call.waited <= Lag
          /\ known = 0 => call.waited <= Lag + Timeout
          /\ call.waited <= Lag + Timeout + Timeout

LEMMA AskTrue ==
    ASSUME Inv, NEW call \in CallRecords, NEW goal \in {"access", "value"}, call.goal = goal,
           MayTake(call, goal), NEW node \in NodeHandles, node.link = link,
           NEW step \in {goal, "namespaces"}, step = "namespaces" => known = 0
    PROVE  Truthful(Ask(call, step, node))
<1> DEFINE after == Ask(call, step, node)
<1>1. /\ after.node = node /\ after.flight = call.flight /\ after.step = step
      /\ after.applied = call.applied /\ after.sent = call.sent /\ after.op = call.op
      /\ after.began = call.began /\ after.asked = 0 /\ after.waited = call.waited
      /\ after.report = call.report /\ after.lost = call.lost /\ after.goal = call.goal
  BY DEF CallRecords, Ask
<1>2. /\ link \in Nat /\ call.waited \in Nat /\ call.began \in Nat
      /\ call.sent \in BOOLEAN /\ Lag \in Nat /\ Timeout \in Nat
  BY ActionsAssumption DEF Inv, Connections, CallRecords
<1> HIDE DEF after
<1>3. Sending(after)
  BY <1>1 DEF MayTake, Sending, Unwritten
<1>4. Told(after)
  BY <1>1, <1>2 DEF MayTake, Told, Unwritten
<1>5. Punctual(after) \/ ~(call.op.write /\ call.report = "none" /\ link <= call.began)
  BY <1>1, <1>2 DEF MayTake, Punctual
<1>6. Timed(after)
  BY <1>1, <1>2, <1>5 DEF MayTake, Timed
<1> QED
  BY <1>3, <1>4, <1>6 DEF Truthful, after

LEMMA TakeHandleTrue ==
    ASSUME Inv, NEW call \in CallRecords, NEW goal \in {"access", "value"}, MayTake(call, goal),
           Truthful(call)
    PROVE  Truthful(TakeHandle(call, goal))
<1> DEFINE aimed == [call EXCEPT !.goal = goal]
<1>1. /\ aimed \in CallRecords /\ aimed.goal = goal /\ aimed.step = call.step /\ aimed.node = call.node
      /\ aimed.flight = call.flight /\ aimed.applied = call.applied /\ aimed.sent = call.sent
      /\ aimed.op = call.op /\ aimed.began = call.began /\ aimed.asked = call.asked
      /\ aimed.waited = call.waited /\ aimed.report = call.report /\ aimed.lost = call.lost
  BY DEF CallRecords
<1> HIDE DEF aimed
<1>2. MayTake(aimed, goal)
  BY <1>1 DEF MayTake, Unwritten
<1>3. ~Connected => Truthful(Fails(aimed))
  <2> DEFINE after == Fails(aimed)
  <2>1. /\ after.node = call.node /\ after.flight = call.flight /\ after.step = "over"
        /\ after.applied = call.applied /\ after.sent = call.sent /\ after.op = call.op
        /\ after.began = call.began /\ after.asked = call.asked
        /\ after.report = IF call.report = "none" THEN "failed" ELSE call.report
    BY <1>1 DEF CallRecords, Over, Fails, MayTake
  <2> HIDE DEF after
  <2>2. Sending(after) /\ Told(after) /\ Timed(after)
    BY <2>1 DEF MayTake, Truthful, Sending, Told, Timed, Punctual, Unwritten, Awaiting
  <2> QED
    BY <2>2 DEF Truthful, after
<1>4. ASSUME NEW version \in {handles, known} PROVE Truthful(Ask(aimed, goal, Handle(version)))
  <2>1. Handle(version) \in NodeHandles /\ Handle(version).link = link
    BY DEF Handle, NodeHandles, Inv, Connections
  <2> QED
    BY <1>1, <1>2, <2>1, AskTrue
<1>5. known = 0 => Truthful(Ask(aimed, "namespaces", [Handle(0) EXCEPT !.ns = 0]))
  <2> DEFINE node == [Handle(0) EXCEPT !.ns = 0]
  <2>1. node \in NodeHandles /\ node.link = link
    BY DEF Handle, NodeHandles, Inv, Connections
  <2> HIDE DEF node
  <2>2. known = 0 => Truthful(Ask(aimed, "namespaces", node))
    BY <1>1, <1>2, <2>1, AskTrue
  <2> QED
    BY <2>2 DEF node
<1> QED
  <2>1. CASE ~Connected
    BY <1>3, <2>1 DEF TakeHandle, aimed
  <2>2. CASE Connected /\ call.op.mapped /\ handles # 0
    BY <1>4, <2>2 DEF TakeHandle, aimed
  <2>3. CASE Connected /\ ~(call.op.mapped /\ handles # 0) /\ known # 0
    BY <1>4, <2>3 DEF TakeHandle, aimed
  <2>4. CASE Connected /\ ~(call.op.mapped /\ handles # 0) /\ known = 0
    BY <1>5, <2>4 DEF TakeHandle, aimed
  <2> QED
    BY <2>1, <2>2, <2>3, <2>4

\* What a caller was told stays true while the connection it is told of grows older.
LEMMA TruthOutlives ==
    ASSUME Inv, link' \in Nat, link <= link', running' => running,
           link' = link /\ known # 0 => known' # 0
    PROVE  \A call \in CallRecords : call.node.link <= link /\ Truthful(call) => Truthful(call)'
<1> SUFFICES ASSUME NEW call \in CallRecords, call.node.link <= link, Truthful(call)
             PROVE  Truthful(call)'
  OBVIOUS
<1>1. /\ link \in Nat /\ call.node.link \in Nat /\ call.began \in Nat
  BY DEF Inv, Connections, CallRecords, NodeHandles
<1>2. Sending(call)'
  BY DEF Truthful, Sending, Unwritten
<1>3. Told(call)'
  BY DEF Truthful, Told, Unwritten
<1>4. ArrayKept(call) => ArrayKept(call)'
  BY <1>1 DEF ArrayKept
<1>5. Punctual(call) => Punctual(call)'
  BY <1>4 DEF Punctual
<1>6. Timed(call)'
  BY <1>1, <1>5 DEF Truthful, Timed
<1> QED
  BY <1>2, <1>3, <1>6 DEF Truthful

\* A step of one call, which at most reads the array.
LEMMA OneCallTrue ==
    ASSUME Inv, AllTruthful, NEW c \in Calls, NEW call \in CallRecords, Aimed(call), Truthful(call)',
           calls' = [calls EXCEPT ![c] = call], UNCHANGED <<link, running>>, known # 0 => known' # 0
    PROVE  AllTruthful'
<1>1. \A d \in Calls : calls[d] \in CallRecords /\ calls[d].node.link <= link
  BY DEF Inv, CallOK, Aimed
<1>2. \A d \in Calls : Truthful(calls[d])'
  <2> SUFFICES ASSUME NEW d \in Calls PROVE Truthful(calls[d])'
    OBVIOUS
  <2>1. CASE d = c
    <3>1. calls'[d] = call
      BY <2>1 DEF Inv
    <3> QED
      BY <3>1 DEF Truthful, Sending, Told, Timed, Punctual, ArrayKept, Unwritten
  <2>2. CASE d # c
    <3>1. calls'[d] = calls[d]
      BY <2>2 DEF Inv
    <3>2. \A before \in CallRecords : before.node.link <= link /\ Truthful(before) => Truthful(before)'
      BY TruthOutlives DEF Inv, Connections
    <3>3. \A before \in CallRecords : before.node.link <= link /\ Truthful(before) =>
             (before = calls'[d] => Truthful(calls[d])')
      BY <3>2 DEF Truthful, Sending, Told, Timed, Punctual, ArrayKept, Unwritten
    <3> QED
      BY <1>1, <3>1, <3>3 DEF AllTruthful
  <2> QED
    BY <2>1, <2>2
<1> QED
  BY <1>2 DEF AllTruthful

\* _check_writable, answered or given up, leaves the time of the read and of the write.
LEMMA ProbeMayTake ==
    ASSUME Inv, NEW call \in CallRecords, CallOK(call), Truthful(call),
           call.step \in {"namespaces", "access"}, call.goal = "access"
    PROVE  MayTake(call, "value")
<1>1. /\ link \in Nat /\ Lag \in Nat /\ Timeout \in Nat /\ call.waited \in Nat /\ call.asked \in Nat
      /\ call.began \in Nat /\ call.node.link \in Nat
  BY ActionsAssumption DEF Inv, Connections, CallRecords, NodeHandles
<1>2. /\ ~call.sent /\ Unwritten(call) /\ call.began <= link /\ call.began <= call.node.link
      /\ call.node.link <= link /\ call.asked <= Timeout
  BY DEF CallOK, Proceeds, Aimed, Truthful, Sending, Timed, Awaiting
<1>3. /\ call.report \notin {"ok", "failed"}
      /\ call.report = "timeout" /\ call.op.write => call.began < link
  BY <1>1, <1>2 DEF Truthful, Told
<1>4. ASSUME call.op.write, call.report = "none", link <= call.began
      PROVE  /\ known = 0 => call.waited <= Lag + Timeout
             /\ call.waited <= Lag + Timeout + Timeout
  <2>1. call.node.link = link /\ Punctual(call)
    BY <1>1, <1>2, <1>4 DEF Truthful, Timed
  <2> QED
    BY <1>1, <1>2, <2>1 DEF Punctual, ArrayKept
<1> QED
  BY <1>2, <1>3, <1>4 DEF MayTake

\* The same for a step that leaves the connection alone.
LEMMA StepTrue ==
    ASSUME Inv, AllTruthful, NEW c \in Calls, NEW call \in CallRecords, Aimed(call), Truthful(call),
           calls' = [calls EXCEPT ![c] = call], UNCHANGED <<server, client, running>>
    PROVE  AllTruthful'
<1>1. UNCHANGED <<link, known, running>> /\ link' \in Nat /\ call.node.link <= link
  BY DEF server, client, Inv, Connections, Aimed
<1>2. Truthful(call)'
  <2>1. \A other \in CallRecords : other.node.link <= link /\ Truthful(other) => Truthful(other)'
    BY <1>1, TruthOutlives DEF Inv, Connections
  <2> QED
    BY <1>1, <2>1
<1> QED
  BY <1>1, <1>2, OneCallTrue

LEMMA CallTrue ==
    ASSUME NEW c \in Calls, NEW op \in Operations, Inv, AllTruthful, Call(c, op) PROVE AllTruthful'
<1> DEFINE new == NewCall(op)
<1>1. /\ UNCHANGED <<server, client, running>> /\ link \in Nat /\ Lag \in Nat /\ Timeout \in Nat
      /\ calls' = [calls EXCEPT ![c] = IF RefusedAtOnce(op) THEN Fails(new) ELSE new]
  BY ActionsAssumption DEF Call, Tell, Inv, Connections
<1>2. /\ new \in CallRecords /\ new.step = "queued" /\ new.node = NoHandle /\ new.sent = FALSE
      /\ new.flight = FALSE /\ new.applied = "no" /\ new.report = "none" /\ new.began = 0
      /\ new.waited = 0 /\ new.asked = 0
  BY DEF NewCall, NoHandle, CallRecords, NodeHandles, ConnStates, Awaiting
<1> HIDE DEF new
<1>3. Truthful(new)
  BY <1>1, <1>2 DEF Truthful, Sending, Told, Timed, Punctual, Unwritten, NoHandle, Awaiting
<1>4. Aimed(new)
  BY <1>1, <1>2 DEF Aimed, NoHandle, Settled
<1>5. Fails(new) \in CallRecords /\ Aimed(Fails(new)) /\ Truthful(Fails(new))
  BY <1>2, <1>3, <1>4, FailsOK, FailsTrue DEF CallOK
<1> QED
  BY <1>1, <1>2, <1>3, <1>4, <1>5, StepTrue

LEMMA BeginTrue == ASSUME NEW c \in Calls, Inv, AllTruthful, Begin(c) PROVE AllTruthful'
<1> DEFINE call == [calls[c] EXCEPT !.began = link]
           probe == call.op.write /\ call.op.byName /\ call.op.ask
<1>1. /\ UNCHANGED <<server, client, running>> /\ calls[c].step = "queued" /\ running
      /\ CallOK(calls[c]) /\ Truthful(calls[c]) /\ calls[c] \in CallRecords
      /\ calls' = [calls EXCEPT ![c] = IF probe /\ cache = "none" THEN TakeHandle(call, "access")
                                       ELSE IF probe /\ cache = "no" THEN Fails(call)
                                       ELSE TakeHandle(call, "value")]
  BY DEF Begin, Tell, Inv, CallOK, CallRecords, AllTruthful
<1>2. /\ call \in CallRecords /\ call.step = "queued" /\ call.node = calls[c].node
      /\ call.flight = calls[c].flight /\ call.applied = calls[c].applied /\ call.began = link
      /\ call.sent = calls[c].sent /\ call.op = calls[c].op /\ call.asked = calls[c].asked
      /\ call.waited = calls[c].waited /\ call.report = calls[c].report /\ call.lost = calls[c].lost
  BY <1>1 DEF CallOK, CallRecords, Inv, Connections
<1>3. link \in Nat /\ Lag \in Nat /\ Timeout \in Nat /\ calls[c].waited \in Nat /\ calls[c].node.link <= link
  BY <1>1, ActionsAssumption DEF Inv, Connections, CallRecords, CallOK, Aimed
<1> HIDE DEF call, probe
<1>4. CallOK(call) /\ Unwritten(call) /\ ~call.sent
  BY <1>1, <1>2 DEF CallOK, Aimed, Proceeds, Unwritten, Truthful, Sending
<1>5. call.report # "timeout" \/ ~call.op.write
  BY <1>1, <1>2 DEF Truthful, Told, Timed
<1>6. call.op.write /\ call.report = "none" => call.waited <= Lag
  BY <1>1, <1>2 DEF Truthful, Timed, Punctual
<1>7. MayTake(call, "access") /\ MayTake(call, "value")
  <2>1. call.report \notin {"ok", "failed"}
    BY <1>1, <1>2 DEF Truthful, Told
  <2> QED
    BY <1>2, <1>3, <1>4, <1>5, <1>6, <2>1 DEF MayTake
<1>8. Truthful(call)
  <2>1. Sending(call)
    BY <1>1, <1>2 DEF Truthful, Sending, Unwritten
  <2>2. Told(call)
    BY <1>1, <1>2, <1>4, <1>5 DEF Truthful, Told, Unwritten
  <2>3. Timed(call)
    BY <1>1, <1>2, <1>3, <1>6 DEF Truthful, Timed, Punctual, Awaiting
  <2> QED
    BY <2>1, <2>2, <2>3 DEF Truthful
<1>9. /\ Truthful(TakeHandle(call, "access")) /\ Truthful(TakeHandle(call, "value"))
      /\ CallOK(TakeHandle(call, "access")) /\ CallOK(TakeHandle(call, "value"))
  BY <1>2, <1>4, <1>7, <1>8, TakeHandleTrue, TakeHandleOK DEF Inv
<1>10. Truthful(Fails(call)) /\ CallOK(Fails(call))
  BY <1>2, <1>4, <1>8, FailsTrue, FailsOK DEF CallOK, Proceeds
<1> QED
  BY <1>1, <1>9, <1>10, StepTrue DEF CallOK

LEMMA NamespacesReadTrue ==
    ASSUME NEW c \in Calls, Inv, AllTruthful, NamespacesRead(c) PROVE AllTruthful'
<1>1. /\ calls[c].step = "namespaces" /\ CallOK(calls[c]) /\ calls[c] \in CallRecords
      /\ Truthful(calls[c]) /\ calls[c].node.link = link /\ calls[c].goal \in {"access", "value"}
      /\ UNCHANGED <<server, link, running>> /\ known' = ns /\ ns # 0
      /\ calls' = [calls EXCEPT ![c] = Ask(calls[c], calls[c].goal, Handle(ns))]
  BY DEF NamespacesRead, Answerable, Tell, Inv, Connections, CallOK, Proceeds, AllTruthful
<1>2. Handle(ns) \in NodeHandles /\ Handle(ns).link = link
  BY DEF Handle, NodeHandles, Inv, Connections
<1>3. CallOK(Ask(calls[c], calls[c].goal, Handle(ns)))
  BY <1>1, <1>2, AskOK DEF CallOK, Proceeds, Inv, Connections, Handle
<1>4. PICK call \in CallRecords : call = calls[c]
  BY <1>1
<1>5. PICK node, after : node = Handle(ns) /\ after = Ask(call, call.goal, node)
  OBVIOUS
<1>6. /\ after.node.link = link /\ after.flight = call.flight /\ after.step = call.goal
      /\ after.applied = call.applied /\ after.sent = call.sent /\ after.op = call.op
      /\ after.began = call.began /\ after.asked = 0 /\ after.waited = call.waited
      /\ after.report = call.report /\ after.lost = call.lost
  BY <1>2, <1>5 DEF CallRecords, Ask
<1>7. /\ link \in Nat /\ Lag \in Nat /\ Timeout \in Nat /\ call.waited \in Nat /\ call.asked \in Nat
      /\ call.began \in Nat
  BY ActionsAssumption DEF Inv, Connections, CallRecords
<1>8. Sending(after)
  BY <1>1, <1>4, <1>6 DEF Truthful, Sending, Unwritten
<1>9. Told(after)
  BY <1>1, <1>4, <1>6 DEF Truthful, Told
<1>10. Timed(after)'
  <2>1. Punctual(call) => Punctual(after)'
    <3>1. call.waited <= Lag + call.asked + (IF call.goal = "access" THEN 0 ELSE Timeout)
          /\ call.asked <= Timeout => Punctual(after)'
      BY <1>1, <1>4, <1>6, <1>7 DEF Punctual, ArrayKept
    <3> QED
      BY <1>1, <1>4, <3>1 DEF Punctual, Truthful, Timed
  <2>2. call.began <= link /\ call.asked <= Timeout /\ call.node.link = link
    BY <1>1, <1>4 DEF Truthful, Timed
  <2>3. call.op.write /\ call.report = "none" /\ link <= call.began => Punctual(call)
    BY <1>1, <1>4 DEF Truthful, Timed
  <2>4. after.began <= link' /\ after.asked <= Timeout /\ after.began <= after.node.link
    BY <1>1, <1>6, <1>7, <2>2
  <2> QED
    BY <1>1, <1>4, <1>6, <2>1, <2>3, <2>4 DEF Timed
<1>11. Truthful(after)'
  BY <1>1, <1>8, <1>9, <1>10 DEF Truthful, Sending, Told, Unwritten
<1>12. after \in CallRecords /\ Aimed(after) /\ calls' = [calls EXCEPT ![c] = after]
  BY <1>1, <1>3, <1>4, <1>5 DEF CallOK
<1> QED
  BY <1>1, <1>11, <1>12, OneCallTrue

LEMMA AccessReadTrue ==
    ASSUME NEW c \in Calls, NEW writable \in BOOLEAN, Inv, AllTruthful, AccessRead(c, writable)
    PROVE  AllTruthful'
<1> DEFINE call == calls[c]
<1>1. /\ UNCHANGED <<server, client, running>> /\ call.step = "access" /\ CallOK(call)
      /\ call \in CallRecords /\ Truthful(call) /\ call.goal = "access"
      /\ calls' = [calls EXCEPT ![c] = IF writable THEN TakeHandle(call, "value") ELSE Fails(call)]
  BY DEF AccessRead, Tell, Inv, CallOK, Proceeds, AllTruthful
<1> HIDE DEF call
<1>2. MayTake(call, "value")
  BY <1>1, ProbeMayTake
<1>3. CallOK(Fails(call)) /\ CallOK(TakeHandle(call, "value"))
  BY <1>1, FailsOK, TakeHandleOK DEF CallOK, Proceeds, Inv
<1>4. Truthful(Fails(call)) /\ Truthful(TakeHandle(call, "value"))
  BY <1>1, <1>2, FailsTrue, TakeHandleTrue
<1> QED
  BY <1>1, <1>3, <1>4, StepTrue DEF CallOK

LEMMA ValueReadTrue ==
    ASSUME NEW c \in Calls, Inv, AllTruthful, ValueRead(c) PROVE AllTruthful'
<1> DEFINE call == calls[c]
           after == [Ask(call, "write", call.node) EXCEPT !.sent = TRUE, !.flight = TRUE]
<1>1. /\ UNCHANGED <<server, client, running>> /\ call.step = "value" /\ CallOK(call)
      /\ call \in CallRecords /\ Truthful(call)
      /\ calls' = [calls EXCEPT ![c] = IF ~call.op.write THEN Over(call, "ok")
                                       ELSE IF ~call.op.parses THEN Fails(call) ELSE after]
  BY DEF ValueRead, Tell, Inv, CallOK, AllTruthful
<1> HIDE DEF call
<1>2. /\ after \in CallRecords /\ after.step = "write" /\ after.node = call.node /\ after.flight = TRUE
      /\ after.applied = call.applied /\ after.sent = TRUE /\ after.op = call.op
      /\ after.began = call.began /\ after.asked = 0 /\ after.waited = call.waited
      /\ after.report = call.report /\ after.lost = call.lost
  BY <1>1 DEF CallRecords, Ask, Awaiting
<1>3. Unwritten(call) /\ Timeout \in Nat
  BY <1>1, ActionsAssumption DEF CallOK, Proceeds
<1> HIDE DEF after
<1>4. call.op.write => Truthful(after)
  <2>1. call.op.write => Sending(after)
    BY <1>2, <1>3 DEF Sending, Unwritten
  <2>2. call.op.write => Told(after)
    BY <1>1, <1>2 DEF Truthful, Told
  <2>3. Timed(after)
    BY <1>1, <1>2, <1>3 DEF Truthful, Timed, Punctual, Awaiting
  <2> QED
    BY <2>1, <2>2, <2>3 DEF Truthful
<1>5. Aimed(after)
  BY <1>1, <1>2 DEF CallOK, Aimed
<1>6. ~call.op.write => CallOK(Over(call, "ok")) /\ Truthful(Over(call, "ok"))
  BY <1>1, OverOK, OverTrue DEF CallOK, Proceeds
<1>7. CallOK(Fails(call)) /\ Truthful(Fails(call))
  BY <1>1, FailsOK, FailsTrue DEF CallOK, Proceeds
<1> QED
  BY <1>1, <1>2, <1>4, <1>5, <1>6, <1>7, StepTrue DEF CallOK

LEMMA AppliesTrue == ASSUME NEW c \in Calls, Inv, AllTruthful, Applies(c) PROVE AllTruthful'
<1> DEFINE call == calls[c]
           after == [call EXCEPT !.flight = FALSE, !.applied = IF call.node.ns = ns THEN "named" ELSE "other"]
<1>1. /\ UNCHANGED <<server, client, running>> /\ call.flight /\ CallOK(call) /\ call \in CallRecords
      /\ Truthful(call) /\ calls' = [calls EXCEPT ![c] = after]
  BY DEF Applies, Tell, Inv, CallOK, AllTruthful
<1> HIDE DEF call
<1>2. /\ after \in CallRecords /\ after.step = call.step /\ after.node = call.node
      /\ after.flight = FALSE /\ after.applied # "no" /\ after.sent = call.sent /\ after.op = call.op
      /\ after.began = call.began /\ after.asked = call.asked /\ after.waited = call.waited
      /\ after.report = call.report /\ after.lost = call.lost /\ after.goal = call.goal
  BY <1>1 DEF CallRecords
<1> HIDE DEF after
<1>3. call.sent /\ (call.report = "failed" => call.lost)
  BY <1>1 DEF Truthful, Sending, Told, Unwritten
<1>4. Sending(after) /\ Told(after)
  BY <1>1, <1>2, <1>3 DEF Truthful, Sending, Told, Unwritten
<1>5. Timed(after)
  BY <1>1, <1>2 DEF Truthful, Timed, Punctual, ArrayKept
<1>6. Aimed(after)
  BY <1>1, <1>2 DEF CallOK, Aimed
<1> QED
  BY <1>1, <1>2, <1>4, <1>5, <1>6, StepTrue DEF Truthful

\* What is on its way is lost, or refused: nothing else of the call changes.
LEMMA LandedTrue ==
    ASSUME NEW call \in CallRecords, Truthful(call)
    PROVE  /\ Truthful([call EXCEPT !.flight = FALSE])
           /\ call.flight => Unwritten([call EXCEPT !.flight = FALSE])
<1> DEFINE after == [call EXCEPT !.flight = FALSE]
<1>1. /\ after.step = call.step /\ after.node = call.node
      /\ after.flight = FALSE /\ after.applied = call.applied /\ after.sent = call.sent
      /\ after.op = call.op /\ after.began = call.began /\ after.asked = call.asked
      /\ after.waited = call.waited /\ after.report = call.report /\ after.lost = call.lost /\ after.goal = call.goal
  BY DEF CallRecords
<1> HIDE DEF after
<1>2. Sending(after) /\ Told(after)
  BY <1>1 DEF Truthful, Sending, Told, Unwritten
<1>3. Timed(after)
  BY <1>1 DEF Truthful, Timed, Punctual, ArrayKept
<1>4. call.flight => Unwritten(after)
  BY <1>1 DEF Truthful, Sending, Unwritten
<1> QED
  BY <1>2, <1>3, <1>4 DEF Truthful, after

LEMMA EndsTrue ==
    ASSUME NEW c \in Calls, Inv, AllTruthful,
           Refuses(c) \/ Written(c) \/ LinkFails(c) \/ RequestTimesOut(c)
    PROVE  AllTruthful'
<1> DEFINE call == calls[c]
           landed == [call EXCEPT !.flight = FALSE]
<1>1. /\ UNCHANGED <<server, client, running>> /\ CallOK(call) /\ call \in CallRecords /\ Truthful(call)
  BY DEF Refuses, Written, LinkFails, RequestTimesOut, Error, Inv, CallOK, AllTruthful
<1>2. \/ calls' = [calls EXCEPT ![c] = Over(landed, "failed")] /\ call.flight
      \/ calls' = [calls EXCEPT ![c] = Over(call, "ok")] /\ call.applied # "no"
      \/ calls' = [calls EXCEPT ![c] = Fails(call)]
      \/ calls' = [calls EXCEPT ![c] = Expires(call)]
      \/ calls' = [calls EXCEPT ![c] = TakeHandle(call, "value")] /\ call.step \in Awaiting /\ Probing(call)
  BY DEF Refuses, Written, LinkFails, RequestTimesOut, Error, Tell
<1>3. call.flight => /\ Over(landed, "failed") \in CallRecords /\ Aimed(Over(landed, "failed"))
                     /\ Truthful(Over(landed, "failed"))
  <2>1. landed \in CallRecords /\ landed.node = call.node /\ landed.applied = call.applied
    BY <1>1 DEF CallRecords
  <2>2. CallOK(landed)
    BY <1>1, LandedOK
  <2>3. Truthful(landed) /\ (call.flight => Unwritten(landed))
    BY <1>1, LandedTrue
  <2> HIDE DEF landed, call
  <2>4. call.flight => Truthful(Over(landed, "failed"))
    BY <2>1, <2>3, OverTrue
  <2>5. CallOK(Over(landed, "failed"))
    BY <2>1, <2>2, OverOK DEF CallOK, Proceeds
  <2> QED
    BY <2>4, <2>5 DEF CallOK
<1> HIDE DEF call, landed
<1>4. CallOK(Over(call, "ok")) /\ CallOK(Fails(call)) /\ CallOK(Expires(call))
  BY <1>1, OverOK, FailsOK DEF CallOK, Proceeds
<1>5. Truthful(Fails(call)) /\ Truthful(Expires(call)) /\ (call.applied # "no" => Truthful(Over(call, "ok")))
  BY <1>1, FailsTrue, OverTrue
<1>6. call.step \in Awaiting /\ Probing(call) =>
         CallOK(TakeHandle(call, "value")) /\ Truthful(TakeHandle(call, "value"))
  <2> SUFFICES ASSUME call.step \in Awaiting, Probing(call)
               PROVE  CallOK(TakeHandle(call, "value")) /\ Truthful(TakeHandle(call, "value"))
    OBVIOUS
  <2>1. call.step \in {"namespaces", "access"} /\ call.goal = "access" /\ Unwritten(call)
    BY <1>1 DEF CallOK, Proceeds, Probing, Awaiting
  <2>2. MayTake(call, "value")
    BY <1>1, <2>1, ProbeMayTake
  <2> QED
    BY <1>1, <2>1, <2>2, TakeHandleOK, TakeHandleTrue DEF Inv
<1> QED
  BY <1>1, <1>2, <1>3, <1>4, <1>5, <1>6, StepTrue DEF CallOK

\* The caller's deadline has passed: a write that has not gone out met a reconnect on its way,
\* or is not run any more.
LEMMA CallerTimesOutTrue ==
    ASSUME NEW c \in Calls, Inv, AllTruthful, CallerTimesOut(c) PROVE AllTruthful'
<1> DEFINE call == calls[c]
           after == [call EXCEPT !.report = IF call.sent THEN "unknown" ELSE "timeout"]
<1>1. /\ UNCHANGED <<server, client, running>> /\ CallOK(call) /\ call \in CallRecords /\ Truthful(call)
      /\ call.report = "none" /\ call.step # "idle" /\ call.waited = Deadline(call.op)
      /\ calls' = [calls EXCEPT ![c] = after]
  BY DEF CallerTimesOut, TimesOut, Tell, Inv, CallOK, AllTruthful
<1> HIDE DEF call
<1>2. /\ after \in CallRecords /\ after.step = call.step /\ after.node = call.node
      /\ after.flight = call.flight /\ after.applied = call.applied /\ after.sent = call.sent
      /\ after.op = call.op /\ after.began = call.began /\ after.asked = call.asked
      /\ after.waited = call.waited /\ after.goal = call.goal
      /\ after.report = IF call.sent THEN "unknown" ELSE "timeout"
  BY <1>1 DEF CallRecords
<1> HIDE DEF after
<1>3. ASSUME call.op.write, call.node.link <= call.began, ~call.sent
      PROVE  call.step = "queued" /\ ~running
  <2>1. /\ Timeout \in Nat /\ Slack \in Nat /\ Lag \in Nat /\ Lag < Slack
        /\ call.waited \in Nat /\ call.asked \in Nat /\ call.asked <= Timeout
    BY <1>1, ActionsAssumption DEF CallRecords, Truthful, Timed
  <2>2. call.waited = 3 * Timeout + Slack /\ 3 * Timeout = Timeout + Timeout + Timeout
    BY <1>1, <1>3, <2>1 DEF Deadline, WriteTimeout
  <2>3. Punctual(call)
    BY <1>1, <1>3 DEF Truthful, Timed
  <2>4. call.step \in {"queued", "namespaces", "access", "value"}
    BY <1>1, <1>3 DEF CallRecords, Truthful, Sending, Told, Awaiting
  <2>5. call.step \notin {"namespaces", "access", "value"}
    BY <2>1, <2>2, <2>3 DEF Punctual
  <2>6. call.step = "queued" => ~running
    BY <2>1, <2>2, <2>3 DEF Punctual
  <2> QED
    BY <2>4, <2>5, <2>6
<1>4. Sending(after) /\ Told(after)
  BY <1>1, <1>2, <1>3 DEF Truthful, Sending, Told, Unwritten
<1>5. Timed(after)
  BY <1>1, <1>2 DEF Truthful, Timed, Punctual, ArrayKept
<1>6. Aimed(after)
  BY <1>1, <1>2 DEF CallOK, Aimed
<1> QED
  BY <1>1, <1>2, <1>4, <1>5, <1>6, StepTrue DEF Truthful

LEMMA CancelledTrue == ASSUME NEW c \in Calls, Inv, AllTruthful, Cancelled(c) PROVE AllTruthful'
<1> DEFINE call == calls[c]
           after == [call EXCEPT !.step = "over"]
<1>1. /\ UNCHANGED <<server, client, running>> /\ CallOK(call) /\ call \in CallRecords /\ Truthful(call)
      /\ call.report # "none" /\ calls' = [calls EXCEPT ![c] = after]
  BY DEF Cancelled, Tell, Inv, CallOK, AllTruthful
<1> HIDE DEF call
<1>2. /\ after \in CallRecords /\ after.step = "over" /\ after.node = call.node
      /\ after.flight = call.flight /\ after.applied = call.applied /\ after.sent = call.sent
      /\ after.op = call.op /\ after.began = call.began /\ after.asked = call.asked
      /\ after.report = call.report /\ after.lost = call.lost
  BY <1>1 DEF CallRecords
<1> HIDE DEF after
<1>3. Sending(after) /\ Told(after)
  BY <1>1, <1>2 DEF Truthful, Sending, Told, Unwritten
<1>4. Timed(after)
  BY <1>1, <1>2 DEF Truthful, Timed, Punctual, Awaiting
<1>5. Aimed(after)
  BY <1>1, <1>2 DEF CallOK, Aimed
<1> QED
  BY <1>1, <1>2, <1>3, <1>4, <1>5, StepTrue DEF Truthful

\* A connect, its steps and the end of the link: what was on its way may be lost.
LEMMA LinkTrue ==
    ASSUME Inv, AllTruthful, link' \in Nat, link <= link', running' => running,
           link' = link /\ known # 0 => known' # 0, calls' = calls \/ calls' = Lost
    PROVE  AllTruthful'
<1>1. ASSUME NEW c \in Calls PROVE Truthful(calls[c])'
  <2>1. calls[c] \in CallRecords /\ calls[c].node.link <= link /\ Truthful(calls[c])
    BY DEF Inv, CallOK, Aimed, AllTruthful
  <2>2. PICK after \in CallRecords : after = calls'[c] /\ after.node.link <= link /\ Truthful(after)
    <3>1. CASE calls' = calls
      BY <2>1, <3>1
    <3>2. CASE calls' = Lost
      <4>1. calls'[c] = [calls[c] EXCEPT !.flight = FALSE]
        BY <3>2 DEF Lost
      <4>2. [calls[c] EXCEPT !.flight = FALSE] \in CallRecords
            /\ [calls[c] EXCEPT !.flight = FALSE].node = calls[c].node
        BY <2>1 DEF CallRecords
      <4> QED
        BY <2>1, <4>1, <4>2, LandedTrue
    <3> QED
      BY <3>1, <3>2
  <2>3. Truthful(after)'
    BY <2>2, TruthOutlives
  <2> QED
    BY <2>2, <2>3 DEF Truthful, Sending, Told, Timed, Punctual, ArrayKept, Unwritten
<1> QED
  BY <1>1 DEF AllTruthful

LEMMA ConnectionTrue ==
    ASSUME Inv, AllTruthful, Connection \/ Cut \/ Restart \/ UNCHANGED vars PROVE AllTruthful'
<1>1. link \in Nat /\ ns # 0
  BY DEF Inv, Connections
<1>2. link' = link + 1 \/ (link' = link /\ (known # 0 => known' # 0))
  BY <1>1 DEF Connection, Establish, Kept, Resolve, Resolved, Started, LinkNoticed, Cut, Restart,
              vars, server, client
<1>3. running' = running /\ (calls' = calls \/ calls' = Lost)
  BY DEF Connection, Establish, Kept, Resolve, Resolved, Started, LinkNoticed, Cut, Restart, vars
<1>4. link' \in Nat /\ link <= link' /\ (link' = link /\ known # 0 => known' # 0)
  BY <1>1, <1>2
<1> QED
  BY <1>3, <1>4, LinkTrue

\* A shutdown: what it does not cancel is queued, and is never run.
LEMMA StopTrue == ASSUME Inv, AllTruthful, Stop PROVE AllTruthful'
<1>1. UNCHANGED <<link, known>> /\ running' = FALSE /\ link \in Nat /\ link' \in Nat
  BY DEF Stop, Inv, Connections
<1>2. PICK unheard \in SUBSET {c \in Calls : calls[c].step = "queued"} :
        calls' = [c \in Calls |->
                    IF calls[c].step \in Awaiting \cup {"queued"} /\ c \notin unheard
                    THEN Fails([calls[c] EXCEPT !.flight = FALSE]) ELSE [calls[c] EXCEPT !.flight = FALSE]]
  BY DEF Stop
<1>3. ASSUME NEW c \in Calls PROVE Truthful(calls[c])'
  <2> DEFINE landed == [calls[c] EXCEPT !.flight = FALSE]
  <2>1. calls[c] \in CallRecords /\ CallOK(calls[c]) /\ Truthful(calls[c])
    BY DEF Inv, CallOK, AllTruthful
  <2>2. landed \in CallRecords
    BY <2>1 DEF CallRecords
  <2>3. calls'[c] \in {landed, Fails(landed)}
    BY <1>2
  <2>4. CallOK(landed) /\ CallOK(Fails(landed))
    BY <2>1, LandedOK
  <2>5. Truthful(landed)
    BY <2>1, LandedTrue
  <2> HIDE DEF landed
  <2>6. Truthful(Fails(landed))
    BY <2>2, <2>5, FailsTrue
  <2>7. PICK after \in CallRecords : after = calls'[c] /\ after.node.link <= link /\ Truthful(after)
    BY <2>3, <2>4, <2>5, <2>6 DEF CallOK, Aimed
  <2>8. Truthful(after)'
    BY <1>1, <2>7, TruthOutlives DEF Inv, Connections
  <2> QED
    BY <2>7, <2>8 DEF Truthful, Sending, Told, Timed, Punctual, ArrayKept, Unwritten
<1> QED
  BY <1>3 DEF AllTruthful

\* Time passes for a caller and for the request of its coroutine alike.
LEMMA TickTrue == ASSUME Inv, AllTruthful, Tick PROVE AllTruthful'
<1>1. UNCHANGED <<server, client, running>>
  BY DEF Tick
<1>2. ASSUME NEW c \in Calls, calls[c].step # "idle", calls[c].report = "none"
      PROVE  Truthful(calls[c])'
  <2>1. PICK call \in CallRecords : call = calls[c] /\ call.node.link <= link /\ Truthful(call)
    BY DEF Inv, CallOK, Aimed, AllTruthful
  <2>2. /\ call.step \in Awaiting => call.asked < Timeout
        /\ call.step = "queued" /\ running => call.waited < Lag
        /\ call.report = "none" /\ call.step # "over"
    BY <1>2, <2>1 DEF Tick, Truthful, Told
  <2>3. /\ call.waited \in Nat /\ call.asked \in Nat /\ Lag \in Nat /\ Timeout \in Nat
        /\ call.began \in Nat /\ call.node.link \in Nat
    BY ActionsAssumption DEF CallRecords, NodeHandles
  <2>4. PICK waited \in Nat, asked \in Nat :
            /\ waited = call.waited + 1
            /\ asked = IF call.step \in Awaiting THEN call.asked + 1 ELSE call.asked
    BY <2>3
  <2>5. PICK after : after = [call EXCEPT !.waited = waited, !.asked = asked]
    OBVIOUS
  <2>6. calls'[c] = after
    BY <1>2, <2>1, <2>4, <2>5 DEF Tick
  <2>7. /\ after \in CallRecords /\ after.step = call.step /\ after.node = call.node
        /\ after.flight = call.flight /\ after.applied = call.applied /\ after.sent = call.sent
        /\ after.op = call.op /\ after.began = call.began /\ after.asked = asked
        /\ after.waited = waited /\ after.report = call.report /\ after.lost = call.lost /\ after.goal = call.goal
    BY <2>5 DEF CallRecords
  <2>8. Sending(after) /\ Told(after)
    BY <2>1, <2>7 DEF Truthful, Sending, Told, Unwritten
  <2>9. Punctual(call) => Punctual(after)
    BY <2>2, <2>3, <2>4, <2>7 DEF Punctual, ArrayKept, Awaiting
  <2>10. Timed(after)
    <3>1. asked <= Timeout
      BY <2>1, <2>2, <2>3, <2>4 DEF Truthful, Timed
    <3> QED
      BY <2>1, <2>7, <2>9, <3>1 DEF Truthful, Timed
  <2>11. Truthful(after)'
    BY <1>1, <2>1, <2>7, <2>8, <2>10, TruthOutlives DEF Truthful, Inv, Connections, server, client
  <2> QED
    BY <2>6, <2>11 DEF Truthful, Sending, Told, Timed, Punctual, ArrayKept, Unwritten
<1>3. ASSUME NEW c \in Calls, calls[c].step = "idle" \/ calls[c].report # "none"
      PROVE  Truthful(calls[c])'
  <2>1. PICK call \in CallRecords : call = calls[c] /\ call.node.link <= link /\ Truthful(call)
    BY DEF Inv, CallOK, Aimed, AllTruthful
  <2>2. calls'[c] = call
    BY <1>3, <2>1 DEF Tick
  <2>3. Truthful(call)'
    BY <1>1, <2>1, TruthOutlives DEF Inv, Connections, server, client
  <2> QED
    BY <2>2, <2>3 DEF Truthful, Sending, Told, Timed, Punctual, ArrayKept, Unwritten
<1> QED
  BY <1>2, <1>3 DEF AllTruthful

LEMMA InitTrue == Init => AllTruthful
<1> SUFFICES ASSUME Init PROVE Truthful(NotCalled)
  BY DEF Init, AllTruthful
<1>1. /\ NotCalled.step = "idle" /\ NotCalled.node = NoHandle /\ NotCalled.sent = FALSE
      /\ NotCalled.flight = FALSE /\ NotCalled.applied = "no" /\ NotCalled.report = "none"
      /\ NotCalled.began = 0 /\ NotCalled.asked = 0
  BY DEF NotCalled, NewCall
<1>2. link = 0 /\ Timeout \in Nat
  BY ActionsAssumption DEF Init
<1> QED
  BY <1>1, <1>2 DEF Truthful, Sending, Told, Timed, Punctual, Unwritten, NoHandle, Awaiting

LEMMA StepTruth == Inv /\ AllTruthful /\ [Next]_vars => AllTruthful'
<1> SUFFICES ASSUME Inv, AllTruthful, [Next]_vars PROVE AllTruthful'
  OBVIOUS
<1>1. ASSUME NEW c \in Calls, NEW op \in Operations, Call(c, op) PROVE AllTruthful'
  BY <1>1, CallTrue
<1>2. ASSUME NEW c \in Calls, Coroutine(c) PROVE AllTruthful'
  BY <1>2, BeginTrue, NamespacesReadTrue, AccessReadTrue, ValueReadTrue, EndsTrue, CancelledTrue
     DEF Coroutine
<1>3. ASSUME NEW c \in Calls, CallerTimesOut(c) \/ Applies(c) \/ Refuses(c) PROVE AllTruthful'
  BY <1>3, CallerTimesOutTrue, AppliesTrue, EndsTrue
<1>4. Connection \/ Cut \/ Restart \/ UNCHANGED vars => AllTruthful'
  BY ConnectionTrue
<1>5. CASE Stop \/ Tick
  BY <1>5, StopTrue, TickTrue
<1> QED
  BY <1>1, <1>2, <1>3, <1>4, <1>5 DEF Next

\* A caller told that its write timed out, without `the server may have applied it', or that it
\* failed, unless its connection or the loop went before the answer, is right: none of it is
\* applied, on its way or still to come.  So is one told of success.  The
\* deadline of actions.py (_write_timeout: a second past three timeouts) is what it rests on: of
\* a coroutine the loop starts within that second, no write is left to send when it is over.
THEOREM ReportsAreTrue == Spec => []ReportIsTrue
<1>1. Inv /\ AllTruthful => ReportIsTrue
  <2> SUFFICES ASSUME Inv, AllTruthful, NEW c \in Calls
               PROVE  /\ calls[c].report = "failed" /\ ~calls[c].lost
                           => ~calls[c].flight /\ calls[c].applied = "no"
                      /\ calls[c].report = "timeout" /\ calls[c].node.link \in {0, calls[c].began}
                           => ~calls[c].flight /\ calls[c].applied = "no"
                      /\ calls[c].report = "ok" /\ calls[c].op.write => calls[c].applied # "no"
    BY DEF ReportIsTrue
  <2>1. calls[c] \in CallRecords /\ Truthful(calls[c])
    BY DEF Inv, AllTruthful
  <2>2. calls[c].node.link \in {0, calls[c].began} => calls[c].node.link <= calls[c].began
    BY <2>1 DEF CallRecords
  <2>3. ~calls[c].op.write => Unwritten(calls[c])
    BY <2>1 DEF Truthful, Sending
  <2> QED
    BY <2>1, <2>2, <2>3 DEF Truthful, Told, Unwritten
<1>2. Init => Inv /\ AllTruthful
  BY InitInv, InitTrue
<1>3. Inv /\ AllTruthful /\ [Next]_vars => Inv' /\ AllTruthful'
  BY StepInv, StepTruth
<1> QED
  BY <1>1, <1>2, <1>3, PTL DEF Spec
=============================================================================
