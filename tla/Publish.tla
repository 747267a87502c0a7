------------------------------- MODULE Publish -------------------------------
(***************************************************************************)
(* One subscription of client.py, from the server's retransmission queue   *)
(* to the trace: on_publish, which finds the gaps in the sequence numbers, *)
(* _republish, which closes them, and what the run loop does to it         *)
(* meanwhile (_rebind of a resumed session, _watch and _recreate, a new    *)
(* session).  asyncua's Publish loop sends one request at a time, awaits   *)
(* on_publish before the next one, and then acknowledges what it received. *)
(* A response lost with the link stays in the server's queue, if there is  *)
(* room.  One that is on its way when the subscription is replaced comes   *)
(* late, and belongs to none in _subs; acknowledgements of that one go to  *)
(* the server under its old id, where they change nothing.                 *)
(***************************************************************************)
EXTENDS Naturals, FiniteSets

CONSTANTS
    MaxRepublish,   \* MAX_REPUBLISH: Republish requests for one gap
    QueueSize,      \* notifications the server keeps until they are acknowledged
    MaxSeq,         \* bound: notifications of one subscription
    MaxFaults       \* bound: cuts, timeouts, and the server's own failures

ASSUME PublishAssumption ==
    /\ MaxRepublish \in Nat /\ QueueSize \in Nat \ {0}
    /\ MaxSeq \in Nat /\ MaxFaults \in Nat

VARIABLES
    \* the server
    alive,      \* it holds the subscription
    sseq,       \* the last sequence number it used
    held,       \* notifications kept for Republish
    \* the channel
    link,
    requested,  \* a Publish request waits at the server
    wire,       \* the Publish response on its way
    \* the client's _Sub, and what is acknowledged with the next Publish
    expected, stalled,
    acks,       \* _acks: what Republish recovered
    auto,       \* asyncua: what Publish returned
    \* on_publish, while it awaits _republish
    busy,
    mine,       \* `sub' is still the subscription in _subs
    msg,        \* the message that showed the gap
    start,      \* missing.start
    todo,       \* what is left to Republish
    got,        \* `recovered'
    \* history
    top,        \* the last notification delivered
    faults

server   == <<alive, sseq, held>>
channel  == <<link, requested, wire>>
acking   == <<acks, auto>>
gap      == <<busy, mine, msg, start, todo, got>>
vars     == <<server, channel, expected, stalled, acking, gap, top, faults>>

-----------------------------------------------------------------------------
NoMessage == [num |-> 0, data |-> FALSE, avail |-> {}, own |-> FALSE]

Fault == faults < MaxFaults /\ faults' = faults + 1

\* The newest QueueSize of the notifications.
Newest(ns) == {n \in ns : Cardinality({m \in ns : m > n}) < QueueSize}

\* The first MAX_REPUBLISH missing ones of those the server says it holds.
ToRepublish(missing, avail) ==
    LET here == missing \cap avail
    IN  {n \in here : Cardinality({m \in here : m < n}) < MaxRepublish}

\* The one `_republish' asks for next.
IsNext(seq) == seq \in todo /\ \A n \in todo : seq <= n

\* The message's samples are logged.
Deliver(m) == top' = IF m.data THEN m.num ELSE top

\* on_publish is done: asyncua's loop goes on to its next request.
Return_KeepsGap == busy' = FALSE /\ mine' = FALSE /\ msg' = NoMessage /\ start' = 0 /\ UNCHANGED <<todo, got>>
Return == busy' = FALSE /\ mine' = FALSE /\ msg' = NoMessage /\ start' = 0 /\ todo' = {} /\ got' = {}

\* A new subscription: it reports every item's value, from sequence number 1.
NewSubscription ==
    /\ alive' = TRUE /\ sseq' = 0 /\ held' = {} /\ expected' = 1 /\ stalled' = FALSE
    /\ acks' = {} /\ auto' = {} /\ top' = 0

Init ==
    /\ alive = TRUE /\ sseq = 0 /\ held = {}
    /\ link = TRUE /\ requested = FALSE /\ wire = NoMessage
    /\ expected = 1 /\ stalled = FALSE /\ acks = {} /\ auto = {}
    /\ busy = FALSE /\ mine = FALSE /\ msg = NoMessage /\ start = 0 /\ todo = {} /\ got = {}
    /\ top = 0 /\ faults = 0

-----------------------------------------------------------------------------
(* asyncua's Publish loop and the server *)

\* A Publish request with the acknowledgements due, those of _republish added by
\* _guard_publish; on a closed channel it takes them along and parks.
SendPublish ==
    /\ ~busy /\ ~requested /\ wire = NoMessage
    /\ acks' = {} /\ auto' = {}
    /\ \/ /\ link /\ requested' = TRUE
          /\ held' = held \ (acks \cup auto)
          /\ UNCHANGED <<link, faults>>
       \/ /\ link /\ Fault /\ link' = FALSE
          /\ UNCHANGED <<held, requested>>
       \/ /\ ~link /\ UNCHANGED <<held, link, requested, faults>>
    /\ UNCHANGED <<alive, sseq, wire, expected, stalled, gap, top>>

\* The server answers: a notification with its own number, a keep-alive with the next.
ServerSends ==
    /\ alive /\ link /\ requested /\ requested' = FALSE
    /\ \/ /\ sseq < MaxSeq /\ sseq' = sseq + 1
          /\ held' = Newest(held \cup {sseq + 1})
          /\ wire' = [num |-> sseq + 1, data |-> TRUE, avail |-> held', own |-> TRUE]
       \/ /\ wire' = [num |-> sseq + 1, data |-> FALSE, avail |-> held, own |-> TRUE]
          /\ UNCHANGED <<sseq, held>>
    /\ UNCHANGED <<alive, link, expected, stalled, acking, gap, top, faults>>

\* The subscription of the message is in _subs.
Known_Always(m) == TRUE
Known(m) == m.own

\* on_publish: `expected' moves past the message, and a gap is Republished first.
NextExpected_IgnoresKind(m) == m.num + 1
NextExpected(m) == IF m.data THEN m.num + 1 ELSE m.num

OnPublish ==
    /\ wire # NoMessage /\ ~busy /\ Known(wire)
    /\ wire' = NoMessage
    /\ expected' = NextExpected(wire)
    /\ auto' = IF wire.data THEN {wire.num} ELSE {}
    /\ LET missing == expected .. (wire.num - 1) IN
       IF missing = {} THEN Deliver(wire) /\ UNCHANGED gap
       ELSE /\ busy' = TRUE /\ mine' = TRUE /\ msg' = wire /\ start' = expected
            /\ todo' = ToRepublish(missing, wire.avail) /\ got' = {}
            /\ UNCHANGED top
    /\ UNCHANGED <<server, link, requested, stalled, acks, faults>>

\* The response of one that was replaced: its rows are late ones, and no gap is looked for.
OnLatePublish ==
    /\ wire # NoMessage /\ ~busy /\ ~Known(wire)
    /\ wire' = NoMessage
    /\ UNCHANGED <<server, link, requested, expected, stalled, acking, gap, top, faults>>

-----------------------------------------------------------------------------
(* _republish *)

\* The next notification comes back: acknowledged with the next Publish, and logged.
Republished(seq) ==
    /\ busy /\ mine /\ link /\ alive /\ IsNext(seq)
    /\ seq \in held
    /\ acks' = acks \cup {seq} /\ top' = seq
    /\ got' = got \cup {seq} /\ todo' = todo \ {seq}
    /\ UNCHANGED <<server, channel, expected, stalled, auto, busy, mine, msg, start, faults>>

\* What is not recovered below `end' is lost: _watch recreates the subscription.
Stalls(end) == stalled' = (stalled \/ ~(start .. (end - 1) \subseteq got))

\* The gap is closed, or the server does not return the next one; then the message.
Closed ==
    /\ busy /\ mine
    /\ \/ todo = {} /\ UNCHANGED faults
       \/ link /\ (\E seq \in todo : IsNext(seq) /\ (~alive \/ seq \notin held)) /\ UNCHANGED faults
       \/ todo # {} /\ link /\ Fault
    /\ Stalls(msg.num) /\ Deliver(msg) /\ Return
    /\ UNCHANGED <<server, channel, expected, acking>>

\* The link fails, or the request times out: the rest of the gap is expected again, and the
\* message is left for the resumed session to Republish with it.
Again(seq) == expected' = seq

RepublishFails(seq) ==
    /\ busy /\ mine /\ IsNext(seq)
    /\ (~link /\ UNCHANGED faults) \/ (link /\ Fault)
    /\ Again(seq) /\ Stalls(seq) /\ Return
    /\ UNCHANGED <<server, channel, acking, top>>

\* The subscription was replaced meanwhile: on_publish goes on with what it held of it.  The
\* server may still return a notification of it, and what comes back, or is expected or lost,
\* is that one's, under its own id.
RepublishedLate(seq) ==
    /\ busy /\ ~mine /\ link /\ IsNext(seq)
    /\ todo' = todo \ {seq}
    /\ UNCHANGED <<server, channel, expected, stalled, acking, busy, mine, msg, start, got, top, faults>>

Orphaned ==
    /\ busy /\ ~mine /\ Return
    /\ UNCHANGED <<server, channel, expected, stalled, acking, top, faults>>

-----------------------------------------------------------------------------
(* The run loop *)

\* The session is resumed on a new channel, and _rebind starts a new Publish loop. The
\* old one ended with its channel, after its Republish failed.
Resume ==
    /\ ~link /\ ~busy /\ link' = TRUE
    /\ auto' = {}
    /\ UNCHANGED <<server, requested, wire, expected, stalled, acks, gap, top, faults>>

\* The session was gone, or given up: a new one, with a new subscription.
Replaced ==
    /\ ~link /\ ~busy /\ link' = TRUE
    /\ IF alive THEN Fault ELSE UNCHANGED faults
    /\ NewSubscription
    /\ UNCHANGED <<requested, wire, gap>>

\* _watch: no keep-alive within the deadline.
Silent_NotLookedAt == FALSE /\ UNCHANGED vars
Silent ==
    /\ link /\ ~alive /\ ~stalled /\ wire = NoMessage /\ ~busy
    /\ stalled' = TRUE
    /\ UNCHANGED <<server, channel, expected, acking, gap, top, faults>>

\* _recreate: its Publish requests are the session's, and stay; so does a response on its way.
Recreate ==
    /\ link /\ stalled
    /\ NewSubscription /\ mine' = FALSE /\ wire' = [wire EXCEPT !.own = FALSE]
    /\ UNCHANGED <<link, requested, busy, msg, start, todo, got, faults>>

-----------------------------------------------------------------------------
(* The network and the server *)

Cut ==
    /\ link /\ Fault /\ link' = FALSE
    /\ requested' = FALSE /\ wire' = NoMessage
    /\ UNCHANGED <<server, expected, stalled, acking, gap, top>>

\* The server drops the subscription: its lifetime is over, or it restarted. A StatusChange
\* says so (on_publish marks it), or nothing does.
Dropped ==
    /\ alive /\ Fault /\ alive' = FALSE /\ held' = {}
    /\ \/ UNCHANGED stalled
       \/ link /\ stalled' = TRUE
    /\ UNCHANGED <<sseq, channel, expected, acking, gap, top>>

-----------------------------------------------------------------------------
Publisher   == SendPublish \/ OnPublish \/ OnLatePublish \/ Closed \/ Orphaned
                 \/ \E seq \in todo : Republished(seq) \/ RepublishFails(seq) \/ RepublishedLate(seq)
RunLoop     == Resume \/ Replaced \/ Silent \/ Recreate
Environment == Cut \/ Dropped

Next == Publisher \/ ServerSends \/ RunLoop \/ Environment

Spec == Init /\ [][Next]_vars

\* Both tasks and the server go on: keep-alives come while nothing changes.
FairSpec == Spec /\ WF_vars(Publisher) /\ WF_vars(ServerSends) /\ WF_vars(RunLoop)

-----------------------------------------------------------------------------
(* Properties *)

Message == [num : Nat, data : BOOLEAN, avail : SUBSET Nat, own : BOOLEAN]

FlagsOK ==
    /\ alive \in BOOLEAN /\ link \in BOOLEAN /\ requested \in BOOLEAN /\ stalled \in BOOLEAN
    /\ busy \in BOOLEAN /\ mine \in BOOLEAN

MessagesOK == wire \in Message /\ msg \in Message

NumbersOK ==
    /\ sseq \in Nat /\ expected \in Nat /\ start \in Nat /\ top \in Nat /\ faults \in Nat
    /\ held \subseteq 1 .. sseq /\ acks \subseteq Nat /\ auto \subseteq Nat
    /\ todo \subseteq Nat /\ got \subseteq Nat

\* The values every variable may take; locals of on_publish only while it awaits.
TypeOK == FlagsOK /\ MessagesOK /\ NumbersOK /\ (~busy => ~mine /\ todo = {} /\ got = {})

\* A loss _republish will note when it is done: a number below the next one it asks for was
\* not recovered.
Noted ==
    /\ busy /\ mine
    /\ \E n \in start .. (msg.num - 1) : n \notin got /\ \A m \in todo : n < m

\* Nothing is lost in silence: unless it is known to have lost some (and _watch recreates
\* it), every notification below `expected' was logged, whatever was cut, refused, purged or
\* timed out; while _republish runs, every one below the gap it is closing.
NoSilentLoss ==
    ~stalled => IF busy /\ mine THEN top + 1 >= start ELSE top + 1 = expected

\* The subscription keeps its promise to the trace: once, in order, without a gap, or known
\* to have lost some and replaced.
Promise == INSTANCE Delivery WITH sent <- sseq, lossy <- stalled \/ Noted

Keeps == Promise!Spec

\* However often the link is cut, in the middle of a Republish too, and whatever the server
\* drops: the trace ends up with everything a live subscription has sent.
CatchesUp == []<>(link /\ alive /\ ~stalled /\ ~busy /\ top = sseq)
=============================================================================
