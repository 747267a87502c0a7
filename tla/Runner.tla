------------------------------- MODULE Runner -------------------------------
(***************************************************************************)
(* OPCUARunner of client.py and the run loop of each of its clients        *)
(* (OPCUAClient._run_async), all tasks of one event loop.  The runner      *)
(* decides after every client's first connect whether the extension goes   *)
(* on, and every wait of every client is raced with the one stop event.    *)
(* What connect() and a job do is Session's; here they succeed or fail.    *)
(***************************************************************************)
EXTENDS Naturals, FiniteSets

CONSTANTS
    Clients,
    MaxFailures,    \* POLL_FAILURES_BEFORE_RECONNECT
    MaxFaults       \* bound: connects and jobs that fail, links that drop

ASSUME RunnerAssumption ==
    /\ Clients # {}     \* the configuration names a server
    /\ MaxFailures \in Nat \ {0}
    /\ MaxFaults \in Nat

VARIABLES
    \* each client
    loop,           \* the await its run loop is parked at
    atStart,        \* _at_start: in its first connect
    contacted,      \* _contacted
    connected,      \* _connected
    ever,           \* ever_connected
    losses,         \* connection losses since the last completed request: 0, 1 or more
    failures,       \* unclassified failures since the last completed request
    \* the runner
    main,           \* the await of OPCUARunner._run_async
    stop,           \* _stop_event
    failed,         \* failed_at_start
    \* history
    asked,          \* shutdown was asked for: a signal, or stop()
    faults

link  == <<connected, ever>>
tally == <<losses, failures>>
mine  == <<loop, atStart, contacted, link, tally>>
run   == <<main, stop, failed>>
vars  == <<mine, run, asked, faults>>

-----------------------------------------------------------------------------
Fault == faults < MaxFaults /\ faults' = faults + 1

At(c, here, there) == loop[c] = here /\ loop' = [loop EXCEPT ![c] = there]

\* The head of the loop: it goes round, unless the stop event is set.
Round_Forever == "connect"
Round == IF stop THEN "close" ELSE "connect"

Init ==
    /\ loop = [c \in Clients |-> "connect"] /\ atStart = [c \in Clients |-> TRUE]
    /\ contacted = [c \in Clients |-> FALSE] /\ connected = [c \in Clients |-> FALSE]
    /\ ever = [c \in Clients |-> FALSE]
    /\ losses = [c \in Clients |-> 0] /\ failures = [c \in Clients |-> 0]
    /\ main = "contact" /\ stop = FALSE /\ failed = {} /\ asked = FALSE /\ faults = 0

-----------------------------------------------------------------------------
(* OPCUAClient._run_async *)

\* The first connect is over, one way or the other.
FirstOver_StaysFirst(c) == contacted' = [contacted EXCEPT ![c] = TRUE] /\ UNCHANGED atStart
FirstOver(c) ==
    /\ contacted' = [contacted EXCEPT ![c] = TRUE]
    /\ atStart' = [atStart EXCEPT ![c] = FALSE]

\* _ensure_connected returned True: at once if nothing was lost, else after connect().
Connects(c) ==
    /\ At(c, "connect", "wait") /\ FirstOver(c)
    /\ connected' = [connected EXCEPT ![c] = TRUE] /\ ever' = [ever EXCEPT ![c] = TRUE]
    /\ UNCHANGED <<tally, run, asked, faults>>

\* connect() returned False: the loop ends if it was the first, else it backs off.
ConnectFails(c) ==
    /\ ~connected[c] /\ Fault
    /\ At(c, "connect", IF atStart[c] \/ stop THEN "close" ELSE "backoff") /\ FirstOver(c)
    /\ UNCHANGED <<link, tally, run, asked>>

\* The wait is over; without a connection (a subscription ended meanwhile) there is no job.
Due(c) ==
    /\ At(c, "wait", IF connected[c] THEN "job" ELSE Round)
    /\ UNCHANGED <<atStart, contacted, link, tally, run, asked, faults>>

BackedOff(c) ==
    /\ At(c, "backoff", Round)
    /\ UNCHANGED <<atStart, contacted, link, tally, run, asked, faults>>

\* Only a completed request proves the link.
JobDone(c) ==
    /\ At(c, "job", Round)
    /\ losses' = [losses EXCEPT ![c] = 0] /\ failures' = [failures EXCEPT ![c] = 0]
    /\ UNCHANGED <<atStart, contacted, link, run, asked, faults>>

\* A connection error: the first reconnects at once, a second one in a row backs off.
JobLosesLink(c) ==
    /\ Fault /\ connected' = [connected EXCEPT ![c] = FALSE]
    /\ At(c, "job", IF losses[c] > 0 THEN "backoff" ELSE Round)
    /\ losses' = [losses EXCEPT ![c] = 1]
    /\ UNCHANGED <<atStart, contacted, ever, failures, run, asked>>

\* Any other failure; after so many in a row the connection is given up.
JobFails(c) ==
    /\ Fault /\ At(c, "job", Round)
    /\ LET enough == failures[c] + 1 >= MaxFailures IN
       /\ failures' = [failures EXCEPT ![c] = IF enough THEN 0 ELSE @ + 1]
       /\ connected' = [connected EXCEPT ![c] = @ /\ ~enough]
    /\ UNCHANGED <<atStart, contacted, ever, losses, run, asked>>

\* The Publish loop of a connected client sees the link go.
LinkDrops(c) ==
    /\ connected[c] /\ loop[c] \in {"connect", "wait", "job"} /\ Fault
    /\ connected' = [connected EXCEPT ![c] = FALSE]
    /\ UNCHANGED <<loop, atStart, contacted, ever, tally, run, asked>>

\* _or_stop, _wait_or_stop: whatever the loop awaits, the stop event wins. A connect may be
\* cancelled with its session already open.
Raced == {"connect", "wait", "job", "backoff"}

Stopped(c) ==
    /\ stop /\ loop[c] \in Raced /\ loop' = [loop EXCEPT ![c] = "close"]
    /\ IF loop[c] = "connect" THEN FirstOver(c) ELSE UNCHANGED <<atStart, contacted>>
    /\ \/ UNCHANGED connected
       \/ loop[c] = "connect" /\ connected' = [connected EXCEPT ![c] = TRUE]
    /\ UNCHANGED <<ever, tally, run, asked, faults>>

\* finally: disconnect(), or SHUTDOWN_TIMEOUT ends it with `_connected' as it was.
Closes(c) ==
    /\ At(c, "close", "done") /\ FirstOver(c)
    /\ \/ connected' = [connected EXCEPT ![c] = FALSE] /\ UNCHANGED faults
       \/ Fault /\ UNCHANGED connected
    /\ UNCHANGED <<ever, tally, run, asked>>

-----------------------------------------------------------------------------
(* OPCUARunner *)

\* A signal handler, or stop() from any thread.
Stop ==
    /\ main # "done" /\ stop' = TRUE /\ asked' = TRUE
    /\ UNCHANGED <<mine, main, failed, faults>>

\* _failed_at_start waits for every client's first contact, or for the stop.
AllContacted == \A c \in Clients : contacted[c]

Named_OnlyEnded == {c \in Clients : ~connected[c] /\ loop[c] = "done"}
Named == {c \in Clients : ~connected[c]}

\* The servers named as failed stop the extension.
Decide ==
    /\ main = "contact"
    /\ AllContacted \/ stop
    /\ failed' = IF stop THEN {} ELSE Named
    /\ main' = IF failed' = {} THEN "serve" ELSE "finish"
    /\ stop' = (stop \/ failed' # {})
    /\ UNCHANGED <<mine, asked, faults>>

\* gather: every client's run loop has ended.
Finish ==
    /\ main \in {"serve", "finish"}
    /\ \A c \in Clients : loop[c] = "done"
    /\ main' = "done" /\ stop' = TRUE
    /\ UNCHANGED <<mine, failed, asked, faults>>

-----------------------------------------------------------------------------
Loop(c) ==
    \/ Connects(c) \/ ConnectFails(c) \/ Due(c) \/ BackedOff(c)
    \/ JobDone(c) \/ JobLosesLink(c) \/ JobFails(c) \/ Stopped(c) \/ Closes(c)

Main == Decide \/ Finish

Next == Main \/ Stop \/ \E c \in Clients : Loop(c) \/ LinkDrops(c)

Spec == Init /\ [][Next]_vars

\* Every await of the loops ends: a request has its timeout, a wait its length.
FairSpec == Spec /\ WF_vars(Main) /\ \A c \in Clients : WF_vars(Loop(c))

-----------------------------------------------------------------------------
(* Properties *)

\* The values every variable may take; a loop past its first connect is contacted, and one
\* that has ended was told to, or never connected.
TypeOK ==
    /\ loop \in [Clients -> {"connect", "backoff", "wait", "job", "close", "done"}]
    /\ atStart \in [Clients -> BOOLEAN] /\ contacted \in [Clients -> BOOLEAN]
    /\ connected \in [Clients -> BOOLEAN] /\ ever \in [Clients -> BOOLEAN]
    /\ losses \in [Clients -> 0 .. 1] /\ failures \in [Clients -> 0 .. MaxFailures - 1]
    /\ main \in {"contact", "serve", "finish", "done"} /\ stop \in BOOLEAN
    /\ failed \subseteq Clients /\ asked \in BOOLEAN /\ faults \in 0 .. MaxFaults
    /\ \A c \in Clients : (loop[c] # "connect" => contacted[c]) /\ (ever[c] => ~atStart[c])

\* First contact is a hard requirement: while the extension serves and nobody asked it to
\* stop, every server has connected at least once.
ServesTheContacted == main = "serve" /\ ~asked => \A c \in Clients : ever[c]

\* The extension never just ends: it was asked to stop, or it names a server that failed.
EndsForAReason == main = "done" => asked \/ failed # {}

\* _failed_at_start's docstring: only a first contact stops the extension; a server that
\* has connected once is never named, its drop goes through the backoff.
OnlyFirstContactsFail == \A c \in failed : ~ever[c]

\* Shutdown ends, whatever any client is waiting for: no server can keep the others up.
ShutsDown == stop ~> main = "done"

\* Without a shutdown every client keeps coming back to its jobs, whatever it lost.
KeepsServing == \A c \in Clients : []<>(stop \/ loop[c] = "job")
=============================================================================
