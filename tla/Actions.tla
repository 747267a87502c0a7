------------------------------ MODULE Actions ------------------------------
(***************************************************************************)
(* Reads and writes asked of a running extension (actions.py, and the      *)
(* read / write section of client.py).  An action is called in a thread of *)
(* its own; its coroutine runs in the polling loop, on the client's        *)
(* session, between the steps of a connect (_run_coro).  The caller waits  *)
(* no longer than a deadline, each request no longer than a timeout.       *)
(*                                                                         *)
(* There is one server and one node of interest, whose id names its        *)
(* namespace by URI: the server's NamespaceArray is a version number, the  *)
(* handle of a node the version it was resolved with.  Time is a count of  *)
(* ticks since the call.  The array changes only when the server restarts, *)
(* which ends its sessions (Session has the change under a kept session).  *)
(***************************************************************************)
EXTENDS Naturals, FiniteSets

CONSTANTS
    Calls,          \* the threads that call
    MaxCalls,       \* bound: calls made
    Operations,     \* what they ask: [write, byName, mapped, ask, parses]
    Discovered,     \* the client's map was discovered
    Timeout,        \* ticks a request may take (client.timeout)
    Slack,          \* ticks of the one second _write_timeout adds
    Lag,            \* bound: ticks until the loop starts a coroutine
    MaxRestarts,    \* bound: restarts of the server
    MaxLinks        \* bound: connections

ASSUME ActionsAssumption ==
    /\ Timeout \in Nat /\ Slack \in Nat /\ Lag \in Nat /\ Lag < Slack
    /\ MaxRestarts \in Nat /\ MaxLinks \in Nat /\ MaxCalls \in Nat
    /\ Operations \subseteq [write : BOOLEAN, byName : BOOLEAN, mapped : BOOLEAN,
                             ask : BOOLEAN, parses : BOOLEAN]

VARIABLES
    conn,       \* where connect() is; _connected is true unless "down"
    link,       \* number of the client object, and of its connection
    alive,      \* the connection
    held,       \* the server holds the client's session
    ready,      \* _ready
    ns,         \* the server's NamespaceArray
    known,      \* _namespaces, 0 for None
    handles,    \* the array _ua_nodes was resolved with, 0 when it is empty
    running,    \* the polling loop
    cache,      \* _writable_cache of the node: "none", "yes", "no"
    calls,      \* the call each thread made last
    made

server == <<alive, held, ns>>
client == <<conn, link, ready, known, handles>>
vars == <<server, client, running, cache, calls, made>>

-----------------------------------------------------------------------------
(* A call: its coroutine's step and the request it awaits, what it may have done, and what *)
(* its caller was told. *)

NoHandle == [link |-> 0, ns |-> 0, at |-> "down"]

NewCall(op) ==
    [op |-> op, step |-> "queued", goal |-> "none", node |-> NoHandle, sent |-> FALSE,
     flight |-> FALSE, applied |-> "no", waited |-> 0, asked |-> 0, report |-> "none", began |-> 0,
     lost |-> FALSE]
NotCalled == [NewCall(CHOOSE op \in Operations : TRUE) EXCEPT !.step = "idle"]

Awaiting == {"namespaces", "access", "value", "write"}
Connected == conn # "down"

\* The write's deadline counts the requests before it: two reads and an AccessLevel probe.
WriteTimeout_TwoRequests == 2 * Timeout + Slack
WriteTimeout == 3 * Timeout + Slack
Deadline(op) == IF op.write THEN WriteTimeout ELSE Timeout

\* The coroutine ends; a caller that has left is not told.
Over(call, verdict) ==
    [call EXCEPT !.step = "over", !.report = IF @ = "none" THEN verdict ELSE @]

\* Any error but a timeout is told as a plain failure, past the write too.  `lost' is history: a
\* write was sent, and its connection or the loop went before the answer.
Fails(call) == Over([call EXCEPT !.lost = call.sent], "failed")
\* A timeout past the write says that the server may have applied it.
Expires(call) == Over(call, IF call.sent THEN "unknown" ELSE "timeout")

Ask(call, step, node) == [call EXCEPT !.step = step, !.node = node, !.asked = 0]

\* _ua_node: the cached handle, else one resolved with the array, which may have to be read.
Handle(version) == [link |-> link, ns |-> version, at |-> conn]
TakeHandle(call, goal) ==
    LET aimed == [call EXCEPT !.goal = goal]
    IN  CASE ~Connected -> Fails(aimed)
          [] Connected /\ call.op.mapped /\ handles # 0 -> Ask(aimed, goal, Handle(handles))
          [] Connected /\ ~(call.op.mapped /\ handles # 0) /\ known # 0 -> Ask(aimed, goal, Handle(known))
          [] OTHER -> Ask(aimed, "namespaces", [Handle(0) EXCEPT !.ns = 0])

\* _check_writable takes an error for a yes; the write goes on.
Probing(call) == call.goal = "access"

Tell(c, call) == calls' = [calls EXCEPT ![c] = call]

-----------------------------------------------------------------------------
Init ==
    /\ conn = "down" /\ link = 0 /\ alive = FALSE /\ held = FALSE /\ ready = FALSE
    /\ ns = 1 /\ known = 0 /\ handles = 0 /\ running = TRUE /\ cache = "none"
    /\ calls = [c \in Calls |-> NotCalled] /\ made = 0

\* A write by name is refused for a discovered node or a text that does not parse; every call
\* once the loop has ended.
RefusedAtOnce(op) ==
    ~running \/ (op.write /\ op.byName /\ (Discovered \/ ~op.parses))

Call(c, op) ==
    /\ calls[c].step \in {"idle", "over"} /\ ~calls[c].flight /\ (op.byName => op.mapped)
    /\ made < MaxCalls /\ made' = made + 1
    /\ Tell(c, IF RefusedAtOnce(op) THEN Fails(NewCall(op)) ELSE NewCall(op))
    /\ UNCHANGED <<server, client, running, cache>>

\* The loop runs the coroutine up to its first await.
Begin(c) ==
    LET call == [calls[c] EXCEPT !.began = link]
        probe == call.op.write /\ call.op.byName /\ call.op.ask
    IN  /\ call.step = "queued" /\ running
        /\ cache' = IF probe /\ cache = "none" /\ ~Connected THEN "yes" ELSE cache
        /\ Tell(c, IF probe /\ cache = "none" THEN TakeHandle(call, "access")
                   ELSE IF probe /\ cache = "no" THEN Fails(call)
                   ELSE TakeHandle(call, "value"))
        /\ UNCHANGED <<server, client, running, made>>

Answerable(c) ==
    calls[c].step \in Awaiting /\ alive /\ Connected /\ calls[c].node.link = link

NamespacesRead(c) ==
    /\ calls[c].step = "namespaces" /\ Answerable(c)
    /\ known' = ns
    /\ Tell(c, Ask(calls[c], calls[c].goal, Handle(ns)))
    /\ UNCHANGED <<server, conn, link, ready, handles, running, cache, made>>

AccessRead(c, writable) ==
    /\ calls[c].step = "access" /\ Answerable(c)
    /\ cache' = IF writable THEN "yes" ELSE "no"
    /\ Tell(c, IF writable THEN TakeHandle(calls[c], "value") ELSE Fails(calls[c]))
    /\ UNCHANGED <<server, client, running, made>>

\* The value's type coerces the text of a write by id; then the write goes out.
ValueRead(c) ==
    LET call == calls[c]
    IN  /\ call.step = "value" /\ Answerable(c)
        /\ Tell(c, IF ~call.op.write THEN Over(call, "ok")
                   ELSE IF ~call.op.parses THEN Fails(call)
                   ELSE [Ask(call, "write", call.node) EXCEPT !.sent = TRUE, !.flight = TRUE])
        /\ UNCHANGED <<server, client, running, cache, made>>

\* The server applies what its own array says the index names, whoever still waits.
Applies(c) ==
    /\ calls[c].flight /\ alive /\ calls[c].node.link = link
    /\ Tell(c, [calls[c] EXCEPT !.flight = FALSE,
                                !.applied = IF calls[c].node.ns = ns THEN "named" ELSE "other"])
    /\ UNCHANGED <<server, client, running, cache, made>>

Refuses(c) ==
    /\ calls[c].flight /\ Answerable(c)
    /\ Tell(c, Over([calls[c] EXCEPT !.flight = FALSE], "failed"))
    /\ UNCHANGED <<server, client, running, cache, made>>

Written(c) ==
    /\ calls[c].step = "write" /\ calls[c].applied # "no" /\ Answerable(c)
    /\ Tell(c, Over(calls[c], "ok"))
    /\ UNCHANGED <<server, client, running, cache, made>>

\* An error of a request ends the call, unless it was _check_writable's.
Error(c, ending) ==
    /\ cache' = IF Probing(calls[c]) THEN "yes" ELSE cache
    /\ Tell(c, IF Probing(calls[c]) THEN TakeHandle(calls[c], "value") ELSE ending)
    /\ UNCHANGED <<server, client, running, made>>

\* A dead link fails a request, or leaves it to its timeout.
LinkFails(c) == calls[c].step \in Awaiting /\ ~Answerable(c) /\ Error(c, Fails(calls[c]))
RequestTimesOut(c) ==
    calls[c].step \in Awaiting /\ calls[c].asked = Timeout /\ Error(c, Expires(calls[c]))

TimesOut_Never(call) == FALSE
TimesOut(call) == call.waited = Deadline(call.op)

\* The caller stops waiting; its cancel reaches the coroutine later, never the server.
CallerTimesOut(c) ==
    /\ calls[c].report = "none" /\ calls[c].step # "idle" /\ TimesOut(calls[c])
    /\ Tell(c, [calls[c] EXCEPT !.report = IF calls[c].sent THEN "unknown" ELSE "timeout"])
    /\ UNCHANGED <<server, client, running, cache, made>>

Cancelled(c) ==
    /\ calls[c].report # "none" /\ calls[c].step \in Awaiting \cup {"queued"}
    /\ Tell(c, [calls[c] EXCEPT !.step = "over"])
    /\ UNCHANGED <<server, client, running, cache, made>>

\* Shutdown cancels what runs; a coroutine handed to the loop as it ends is never run.
Stop ==
    /\ running /\ running' = FALSE
    /\ conn' = "down" /\ alive' = FALSE
    /\ \E unheard \in SUBSET {c \in Calls : calls[c].step = "queued"} :
        calls' = [c \in Calls |->
                    IF calls[c].step \in Awaiting \cup {"queued"} /\ c \notin unheard
                    THEN Fails([calls[c] EXCEPT !.flight = FALSE]) ELSE [calls[c] EXCEPT !.flight = FALSE]]
    /\ UNCHANGED <<link, held, ready, ns, known, handles, cache, made>>

-----------------------------------------------------------------------------
(* The connection, as far as it decides what a handle names *)

\* connect() up to its first request: the old handles stay until _resolve_nodes.
Forgotten_Kept == known
Forgotten == 0

Establish ==
    /\ running /\ conn = "down" /\ link < MaxLinks
    /\ conn' = IF held /\ ready THEN "checking" ELSE "setup"
    /\ link' = link + 1 /\ alive' = TRUE /\ held' = TRUE
    /\ ready' = (held /\ ready) /\ known' = Forgotten
    /\ UNCHANGED <<ns, handles, running, cache, calls, made>>

\* A resumed session is kept: its array is read again, and is the one it was resolved with.
Kept ==
    /\ conn = "checking" /\ alive /\ conn' = "up" /\ known' = (IF known = 0 THEN ns ELSE known)
    /\ UNCHANGED <<server, link, ready, handles, running, cache, calls, made>>

\* _resolve_nodes: the handles go, the array is read unless it is known, the handles come.
Resolve ==
    /\ conn = "setup" /\ alive /\ conn' = "resolving" /\ handles' = 0
    /\ UNCHANGED <<server, link, ready, known, running, cache, calls, made>>

Resolved ==
    /\ conn = "resolving" /\ alive /\ conn' = "starting"
    /\ known' = (IF known = 0 THEN ns ELSE known) /\ handles' = known'
    /\ UNCHANGED <<server, link, ready, running, cache, calls, made>>

Started ==
    /\ conn = "starting" /\ alive /\ conn' = "up" /\ ready' = TRUE
    /\ UNCHANGED <<server, link, known, handles, running, cache, calls, made>>

LinkNoticed ==
    /\ Connected /\ ~alive /\ conn' = "down"
    /\ UNCHANGED <<server, link, ready, known, handles, running, cache, calls, made>>

\* What was on its way is lost with the link.
Lost == [c \in Calls |-> [calls[c] EXCEPT !.flight = FALSE]]

Cut ==
    /\ alive /\ alive' = FALSE /\ calls' = Lost
    /\ UNCHANGED <<held, ns, client, running, cache, made>>

\* The server restarts, with another NamespaceArray.
Restart ==
    /\ ns <= MaxRestarts /\ ns' = ns + 1 /\ alive' = FALSE /\ held' = FALSE /\ calls' = Lost
    /\ UNCHANGED <<client, running, cache, made>>

Tick ==
    /\ \A c \in Calls : LET call == calls[c] IN
        /\ call.step \in Awaiting => call.asked < Timeout
        /\ call.step = "queued" /\ running => call.waited < Lag
        /\ call.step # "idle" /\ call.report = "none" => call.waited < Deadline(call.op)
        /\ call.report # "none" => call.step \notin Awaiting
    /\ \E c \in Calls : calls[c].step # "idle" /\ calls[c].report = "none"
    /\ calls' = [c \in Calls |->
                    IF calls[c].step = "idle" \/ calls[c].report # "none" THEN calls[c]
                    ELSE [calls[c] EXCEPT !.waited = @ + 1,
                            !.asked = IF calls[c].step \in Awaiting THEN @ + 1 ELSE @]]
    /\ UNCHANGED <<server, client, running, cache, made>>

-----------------------------------------------------------------------------
Coroutine(c) ==
    \/ Begin(c) \/ NamespacesRead(c) \/ (\E writable \in BOOLEAN : AccessRead(c, writable))
    \/ ValueRead(c) \/ Written(c) \/ LinkFails(c) \/ RequestTimesOut(c) \/ Cancelled(c)

Connection == Establish \/ Kept \/ Resolve \/ Resolved \/ Started \/ LinkNoticed

Next ==
    \/ \E c \in Calls :
        (\E op \in Operations : Call(c, op)) \/ Coroutine(c) \/ CallerTimesOut(c)
          \/ Applies(c) \/ Refuses(c)
    \/ Connection \/ Cut \/ Restart \/ Stop \/ Tick

Spec == Init /\ [][Next]_vars

\* Time passes, the loop runs what is due, a caller's wait ends at its deadline.
FairSpec ==
    /\ Spec /\ WF_vars(Tick)
    /\ \A c \in Calls : WF_vars(Coroutine(c)) /\ WF_vars(CallerTimesOut(c))

-----------------------------------------------------------------------------
(* Properties *)

\* A caller told that its write timed out, without `the server may have applied it', or that it
\* failed, is right: the write was not applied, is not on its way and never goes out -- although
\* its coroutine outlives the caller's wait until the cancel reaches it.  One told that it
\* succeeded is right too.  Two things it does not claim.  Only a timeout gets the caveat: a
\* write whose connection, or loop, went before its answer fails plainly, applied or not.  And
\* a call that a reconnect met on its way may await the NamespaceArray twice, which the deadline
\* does not count: its timeout is left out.
ReportIsTrue ==
    \A c \in Calls : LET call == calls[c] IN
        /\ \/ call.report = "failed" /\ ~call.lost
           \/ call.report = "timeout" /\ call.node.link \in {0, call.began}
           => ~call.flight /\ call.applied = "no"
        /\ call.report = "ok" /\ call.op.write => call.applied # "no"

\* What ReportIsTrue does not claim, and the code does not do: a caller told plainly that its
\* write failed may take it that nothing was written.
FailedUnwritten == \A c \in Calls : calls[c].report = "failed" => calls[c].applied = "no"

\* A write whose handle was taken once _resolve_nodes was done reaches the node it names, or
\* none: not across a restart that renumbers the namespaces, a reconnect or a late answer.
SettledWritesTheNamed ==
    \A c \in Calls : calls[c].node.at \in {"starting", "up"} => calls[c].applied # "other"

\* _resolve_nodes' docstring: handles and nsu= indexes are per session; a guessed index would
\* be another node's.  So a write never reaches another node than the one it names.
WritesTheNamedNode == \A c \in Calls : calls[c].applied # "other"

\* Every call is answered: none waits for a server, a reconnect or a loop that has ended.
Answered == \A c \in Calls : (calls[c].step = "queued") ~> (calls[c].report # "none")
=============================================================================
