------------------------------ MODULE Session ------------------------------
(***************************************************************************)
(* One OPCUAClient of client.py against one server: the connection, the    *)
(* session that outlives it, and the subscriptions the session carries.    *)
(*                                                                         *)
(* Two asyncio tasks share the client's fields.  The run loop connects     *)
(* (_ensure_connected, _detach, connect), sets the transport up            *)
(* (_start_transport, _subscribe), and recreates stalled subscriptions     *)
(* (_watch, _recreate).  asyncua's Publish loop runs _guard_publish and    *)
(* on_publish, and can end every subscription at any await of the run loop *)
(* (_poll_everything).  `pc' names the await the run loop is parked at; an *)
(* action runs from one await to the next.  The link may be cut, and the   *)
(* server may expire a session that has no channel, between any two steps. *)
(***************************************************************************)
EXTENDS Naturals, FiniteSets, Functions

CONSTANTS
    Targets,        \* _poll_targets: the mapped nodes to sample
    Intervals,      \* the distinct sampling intervals of the node map
    IntervalOf,     \* Targets -> Intervals: how _start_transport groups them
    Variant,        \* targets declared BaseDataType: polled, never subscribed
    Discovery,      \* whether connect() browses the server (no node map given)
    TokenStays,     \* asyncua: a session not closed stays with its detached client object
    MaxFaults,      \* bound: link cuts, timeouts, server refusals of a session, ...
    MaxRenumber     \* bound: changes of the server's NamespaceArray

ASSUME SessionAssumption ==
    /\ IntervalOf \in [Targets -> Intervals]
    /\ Variant \subseteq Targets
    /\ Discovery \in BOOLEAN /\ TokenStays \in BOOLEAN
    /\ MaxFaults \in Nat
    /\ MaxRenumber \in Nat

VARIABLES
    \* the run loop: where it is parked, and the locals it holds across awaits
    pc,             \* the await
    first,          \* _at_start: in the first connect
    taken,          \* resume(): the detached session being activated
    prior,          \* connect(): the NamespaceArray of the previous connection
    rebuild,        \* connect(): a resumed session's subscriptions are rebuilt
    todo,           \* _start_transport: intervals still to subscribe
    polling,        \* _start_transport: `polled', the targets its jobs will poll
    full,           \* _start_transport: the server takes no more items
    batch,          \* _subscribe: `items'
    cur,            \* _subscribe: the subscription it is filling (0: none)
    old,            \* _recreate: the subscription being replaced (0: in setup)
    \* fields of OPCUAClient
    connected, fresh, ready, resumed,
    token,          \* the session of `_client', 0 for none (has_session)
    detached,       \* _detached: [token, keep], token 0 for None
    subs,           \* _subs: id -> [items, stalled]
    monitored,      \* _monitored, as the set of subscribed targets
    polled,         \* the targets the poll jobs of `_jobs' read
    watched,        \* `_jobs' holds the _watch job
    subscribing, publishFailed,
    known,          \* _namespaces: a version of the array, 0 for None
    resolved,       \* the version _resolve_nodes took its indexes from
    \* the server and the link
    link,           \* the channel of `_client' is open
    live,           \* sessions the server holds
    nsess,          \* sessions ever created
    ssubs,          \* the subscriptions the server holds: id -> [session, items]
    nsub,           \* subscriptions ever created
    ended,          \* history: those it ended by itself
    ns,             \* version of the server's NamespaceArray
    \* history
    lost,           \* sessions no step of the client could still name
    shed,           \* subscriptions the client asked to delete, or never heard of
    abandoned,      \* sessions the client decided never to resume
    faults

control  == <<pc, first>>
opening  == <<taken, prior, rebuild>>
filling  == <<todo, polling, full, batch, cur, old>>
flags    == <<connected, fresh, ready>>
session  == <<resumed, token, detached>>
carried  == <<subs, monitored, polled, watched, subscribing, publishFailed>>
indexes  == <<known, resolved>>
client   == <<opening, filling, flags, session, carried, indexes>>
sessions == <<live, nsess>>
served   == <<ssubs, nsub, ended>>
server   == <<sessions, served, ns>>
history  == <<lost, shed, abandoned>>
vars     == <<control, client, link, server, history, faults>>

-----------------------------------------------------------------------------
(* Helpers *)

NoSession == [token |-> 0, keep |-> FALSE]
NoSubs    == [s \in {} |-> 0]

Group(i)        == {t \in Targets : IntervalOf[t] = i}
Extend(f, k, v) == [x \in DOMAIN f \cup {k} |-> IF x = k THEN v ELSE f[x]]
Without(f, x)   == Restrict(f, DOMAIN f \ {x})

\* The awaits of connect() once it has a session; those of _subscribe, whoever called it.
Preparing   == {"checking", "discovering", "clearing", "resolving"}
Subscribing == {"subscribe", "create", "items", "empty"}
Publishing  == Subscribing \cup {"idle", "dropOld"}   \* guarded Publish requests run

\* One more of the bounded environment faults.
Fault == faults < MaxFaults /\ faults' = faults + 1

\* The running request is not answered: the link is already gone, or goes now.
Unanswered ==
    /\ link' = FALSE
    /\ IF link THEN Fault ELSE UNCHANGED faults

\* The locals of _start_transport, _subscribe and _recreate go with the call.
Return_KeepsOld == todo' = {} /\ polling' = {} /\ full' = FALSE /\ batch' = {} /\ cur' = 0
                   /\ UNCHANGED old
Return == todo' = {} /\ polling' = {} /\ full' = FALSE /\ batch' = {} /\ cur' = 0 /\ old' = 0

\* connect() returns False, or the recreating job fails; _run_async breaks if it was the first.
Fails ==
    /\ pc' = IF first THEN "stopped" ELSE "idle"
    /\ first' = FALSE /\ connected' = FALSE
    /\ prior' = 0 /\ rebuild' = FALSE /\ Return

\* The server's subscriptions once `gone' are deleted; a session ends with all of its own.
Deleted(gone) == Restrict(ssubs, DOMAIN ssubs \ gone)

EndSession(x) ==
    /\ live' = live \ {x}
    /\ ssubs' = Deleted({s \in DOMAIN ssubs : ssubs[s].session = x})

\* Best effort delete of `ids': this session's go, or the request was lost.
DeleteBestEffort(ids) ==
    /\ \/ link /\ ssubs' = Deleted({s \in ids \cap DOMAIN ssubs : ssubs[s].session = token})
       \/ UNCHANGED ssubs
    /\ shed' = shed \cup (ids \cap DOMAIN ssubs')

NewSubscription(s) ==
    /\ nsub' = s /\ UNCHANGED ended
    /\ ssubs' = Extend(ssubs, s, [session |-> token, items |-> {}])

\* The next connect must not resume this session.
Abandon_StaysConnected == fresh' = TRUE /\ abandoned' = abandoned \cup {token} /\ UNCHANGED connected
Abandon == connected' = FALSE /\ fresh' = TRUE /\ abandoned' = abandoned \cup {token}

-----------------------------------------------------------------------------
Init ==
    /\ pc = "idle" /\ first = TRUE /\ taken = NoSession /\ prior = 0 /\ rebuild = FALSE
    /\ todo = {} /\ polling = {} /\ full = FALSE /\ batch = {} /\ cur = 0 /\ old = 0
    /\ connected = FALSE /\ fresh = FALSE /\ ready = FALSE
    /\ resumed = FALSE /\ token = 0 /\ detached = NoSession
    /\ subs = NoSubs /\ monitored = {} /\ polled = {} /\ watched = FALSE
    /\ subscribing = FALSE /\ publishFailed = FALSE /\ known = 0 /\ resolved = 0
    /\ link = FALSE /\ live = {} /\ nsess = 0 /\ ssubs = NoSubs /\ nsub = 0 /\ ended = {} /\ ns = 1
    /\ lost = {} /\ shed = {} /\ abandoned = {} /\ faults = 0

-----------------------------------------------------------------------------
(* _ensure_connected and connect(), up to a session *)

\* _ensure_connected: the session is resumed unless a fresh one was asked for.
Keep_Always == TRUE
Keep == ~fresh

\* The session is still detached, once _create_client has raised: the client object is the one
\* before, and if it has its token yet, it is detached once more, with what `fresh' says now.
DetachedAgain == IF TokenStays /\ detached.token # 0 THEN {[detached EXCEPT !.keep = Keep]} ELSE {}

\* _detach: a kept session's channel is dropped unsent; else CloseSession, if it is open.
Detach ==
    /\ pc = "idle" /\ ~connected /\ pc' = "opening"
    /\ \/ /\ token # 0 /\ fresh /\ link /\ EndSession(token)
          /\ UNCHANGED <<detached, faults>>
       \/ /\ token # 0 /\ detached' = [token |-> token, keep |-> Keep]
          /\ IF fresh /\ link THEN Fault ELSE UNCHANGED faults
          /\ UNCHANGED <<live, ssubs>>
       \/ /\ token = 0 /\ detached' \in {detached} \cup DetachedAgain
          /\ UNCHANGED <<live, ssubs, faults>>
    /\ link' = FALSE /\ token' = 0 /\ fresh' = FALSE /\ resumed' = FALSE
    /\ UNCHANGED <<first, opening, filling, connected, ready, carried, indexes, nsess, nsub, ended, ns,
                   history>>

\* The socket and the secure channel open; resume() takes the detached session.
Open ==
    /\ pc = "opening" /\ link' = TRUE
    /\ taken' = detached /\ detached' = NoSession
    /\ \/ detached.token # 0 /\ pc' = "activating" /\ UNCHANGED ready
       \/ detached.token = 0 /\ pc' = "creating" /\ ready' = FALSE
    /\ UNCHANGED <<first, prior, rebuild, filling, connected, fresh, resumed, token, carried,
                   indexes, server, history, faults>>

\* _create_client raises, and the client object stays as it was, or its channel does not open.
Unreachable ==
    /\ pc = "opening" /\ Fault /\ Fails
    /\ UNCHANGED <<taken, fresh, ready, session, carried, indexes, link, server,
                   history>>

\* Client.connect returned: _connected is set and _namespaces will be read anew.
Established ==
    /\ pc' = "checking" /\ connected' = TRUE
    /\ prior' = known /\ known' = 0

\* ActivateSession moves the kept session to the new channel: resumed.
Resume ==
    /\ pc = "activating" /\ link /\ taken.keep /\ taken.token \in live
    /\ resumed' = TRUE /\ token' = taken.token /\ taken' = NoSession
    /\ Established
    /\ UNCHANGED <<first, rebuild, filling, fresh, ready, detached, carried, resolved, link,
                   server, history, faults>>

\* Not kept: activated only to be closed before CreateSession.
ActivateToClose ==
    /\ pc = "activating" /\ link /\ ~taken.keep /\ taken.token \in live
    /\ pc' = "closing"
    /\ UNCHANGED <<first, client, link, server, history, faults>>

\* The channel failed, not the session: it stays detached.
PutBack_Forgets == taken' = NoSession /\ UNCHANGED detached
PutBack == taken' = NoSession /\ detached' = taken

ActivateCut ==
    /\ pc = "activating" /\ taken.keep /\ Unanswered /\ Fails /\ PutBack
    /\ UNCHANGED <<fresh, ready, resumed, token, carried, indexes,
                   server, history>>

\* The resume hook is done with the old session: a new one follows.
Dropped_StaysReady == pc' = "creating" /\ taken' = NoSession /\ UNCHANGED ready
Dropped == pc' = "creating" /\ taken' = NoSession /\ ready' = FALSE

\* The session is gone or refused; one not kept is dropped whatever the failure.
NotActivated ==
    /\ pc = "activating" /\ Dropped
    /\ \/ link /\ taken.token \notin live /\ UNCHANGED <<link, lost, faults>>
       \/ link /\ Fault /\ lost' = lost \cup {taken.token} /\ UNCHANGED link
       \/ ~taken.keep /\ Unanswered /\ lost' = lost \cup {taken.token}
    /\ UNCHANGED <<first, prior, rebuild, filling, connected, fresh, session, carried, indexes,
                   server, shed, abandoned>>

\* CloseSession of the session not kept; a failure is suppressed.
CloseOld ==
    /\ pc = "closing" /\ Dropped
    /\ \/ link /\ EndSession(taken.token) /\ UNCHANGED <<link, lost, faults>>
       \/ Unanswered /\ lost' = lost \cup {taken.token} /\ UNCHANGED <<live, ssubs>>
    /\ UNCHANGED <<first, prior, rebuild, filling, connected, fresh, session, carried, indexes,
                   nsess, nsub, ended, ns, shed, abandoned>>

\* CreateSession and ActivateSession; the new session holds no subscription.
CreateSession ==
    /\ pc = "creating" /\ link
    /\ nsess' = nsess + 1 /\ live' = live \cup {nsess + 1}
    /\ token' = nsess + 1 /\ subs' = NoSubs
    /\ Established
    /\ UNCHANGED <<first, taken, rebuild, filling, fresh, ready, resumed, detached, monitored,
                   polled, watched, subscribing, publishFailed, resolved, link, served, ns,
                   history, faults>>

\* Cut before the request, before its reply, or between its reply and the activation.
CreateSessionCut ==
    /\ pc = "creating" /\ Unanswered /\ Fails
    /\ \/ UNCHANGED <<sessions, lost, token>>
       \/ /\ link /\ nsess' = nsess + 1 /\ live' = live \cup {nsess + 1}
          /\ \/ lost' = lost \cup {nsess + 1} /\ UNCHANGED token
             \/ token' = nsess + 1 /\ UNCHANGED lost
    /\ UNCHANGED <<taken, fresh, ready, resumed, detached, carried, indexes, served, ns, shed,
                   abandoned>>

-----------------------------------------------------------------------------
(* connect() once it has a session *)

\* The resumed subscriptions are kept, or everything is set up anew.
Rebind  == pc' = "idle" /\ first' = FALSE /\ rebuild' = FALSE /\ UNCHANGED ready
Rebuild_StaysReady ==
    /\ rebuild' = FALSE /\ UNCHANGED <<ready, first>>
    /\ pc' = IF resumed /\ subs # NoSubs THEN "clearing" ELSE "resolving"
Rebuild_KeepsSlots ==
    /\ ready' = FALSE /\ rebuild' = FALSE /\ UNCHANGED first
    /\ pc' = "resolving"
Rebuild ==
    /\ ready' = FALSE /\ rebuild' = FALSE /\ UNCHANGED first
    /\ pc' = IF resumed /\ subs # NoSubs THEN "clearing" ELSE "resolving"

ArrayChanged_Ignored == FALSE
ArrayChanged == ns # prior

\* `rebuild' is `why'; discovery comes before it is acted on.
Decide(why) ==
    IF Discovery THEN pc' = "discovering" /\ rebuild' = why /\ UNCHANGED <<first, ready>>
    ELSE IF resumed /\ ~why THEN Rebind ELSE Rebuild

\* A resumed session is rebuilt if its setup was incomplete or its NamespaceArray changed.
Check ==
    /\ pc = "checking" /\ prior' = 0
    /\ \/ ~resumed /\ link /\ Decide(FALSE) /\ UNCHANGED known
       \/ resumed /\ ~ready /\ Decide(TRUE) /\ UNCHANGED known
       \/ resumed /\ ready /\ prior = 0 /\ Decide(FALSE) /\ UNCHANGED known
       \/ resumed /\ ready /\ prior # 0 /\ link /\ known' = ns /\ Decide(ArrayChanged)
    /\ UNCHANGED <<taken, filling, connected, fresh, session, carried, resolved, link, server,
                   history, faults>>

\* _discover browses the server; the nodes it finds may have changed.
Discover ==
    /\ pc = "discovering" /\ link
    /\ known' = IF known = 0 THEN ns ELSE known
    /\ IF resumed /\ ~rebuild THEN (Rebind /\ UNCHANGED faults) \/ (Rebuild /\ Fault)
       ELSE Rebuild /\ UNCHANGED faults
    /\ UNCHANGED <<taken, prior, filling, connected, fresh, session, carried, resolved, link,
                   server, history>>

\* A resumed session's subscriptions hold server slots: deleted before the rebuild.
Clear ==
    /\ pc = "clearing" /\ pc' = "resolving"
    /\ DeleteBestEffort(DOMAIN subs)
    /\ UNCHANGED <<first, client, link, sessions, nsub, ended, ns, lost, abandoned, faults>>

\* _resolve_nodes, then _start_transport up to its first request.
Resolve ==
    /\ pc = "resolving" /\ link /\ pc' = "subscribe"
    /\ known' = IF known = 0 THEN ns ELSE known
    /\ resolved' = known'
    /\ subs' = NoSubs /\ monitored' = {} /\ subscribing' = TRUE /\ publishFailed' = FALSE
    /\ todo' = {IntervalOf[t] : t \in Targets}
    /\ UNCHANGED <<first, opening, polling, full, batch, cur, old, flags, session, polled, watched, link, server, history, faults>>

\* Any request of connect() or _subscribe that changes nothing when it is not answered.
RequestCut ==
    /\ pc \in {"checking", "discovering", "resolving", "items", "empty"} /\ Unanswered /\ Fails
    /\ UNCHANGED <<taken, fresh, ready, session, carried, indexes, server, history>>

-----------------------------------------------------------------------------
(* _start_transport, _subscribe and _recreate *)

\* One interval's group: its variants are polled, and all of it once the server is full.
NextGroup ==
    /\ pc = "subscribe"
    /\ \E i \in todo :
          LET items == IF full THEN {} ELSE Group(i) \ Variant IN
          /\ todo' = todo \ {i}
          /\ polling' = polling \cup (Group(i) \ items)
          /\ batch' = items
          /\ pc' = IF items = {} THEN "subscribe" ELSE "create"
    /\ UNCHANGED <<first, opening, full, cur, old, flags, session, carried, indexes, link, server,
                   history, faults>>

\* Back in _start_transport: what was refused is polled for the connection.
Subscribed_DropsRefused(tracked, refused) ==
    /\ old = 0 /\ pc' = "subscribe"
    /\ subs' = tracked /\ UNCHANGED polling
    /\ full' \in (IF refused = {} THEN {full} ELSE BOOLEAN)
    /\ UNCHANGED todo /\ batch' = {} /\ cur' = 0 /\ old' = 0
    /\ UNCHANGED <<connected, fresh, ready, abandoned>>
Subscribed(tracked, refused) ==
    /\ old = 0 /\ pc' = "subscribe"
    /\ subs' = tracked /\ polling' = polling \cup refused
    /\ full' \in (IF refused = {} THEN {full} ELSE BOOLEAN)
    /\ UNCHANGED todo /\ batch' = {} /\ cur' = 0 /\ old' = 0
    /\ UNCHANGED <<connected, fresh, ready, abandoned>>

\* Back in _recreate: a refusal reconnects afresh, to poll what the server refuses. `del' of
\* the old id raises KeyError if _poll_everything emptied _subs: _ready stays false.
Recreated(tracked, refused) ==
    /\ old # 0 /\ pc' = "idle" /\ Return
    /\ subs' = Without(tracked, old)
    /\ IF old \notin DOMAIN tracked THEN UNCHANGED <<connected, fresh, ready, abandoned>>
       ELSE IF refused # {} THEN Abandon /\ UNCHANGED ready
       ELSE ready' = TRUE /\ UNCHANGED <<connected, fresh, abandoned>>

\* CreateSubscription is answered: registered, and its items registered and requested.
CreateSubscription ==
    /\ pc = "create" /\ link /\ pc' = "items"
    /\ NewSubscription(nsub + 1) /\ cur' = nsub + 1
    /\ subs' = Extend(subs, nsub + 1, [items |-> batch, stalled |-> FALSE])
    /\ monitored' = monitored \cup batch
    /\ UNCHANGED <<first, opening, todo, polling, full, batch, old, flags, session, polled,
                   watched, subscribing, publishFailed, indexes, link, sessions, ns, history,
                   faults>>

CreateRefused ==
    /\ pc = "create" /\ link
    /\ Subscribed(subs, batch) \/ Recreated(subs, batch)
    /\ UNCHANGED <<first, opening, session, monitored, polled, watched,
                   subscribing, publishFailed, indexes, link, server, lost, shed, faults>>

\* The server may have created a subscription the client never hears of.
CreateCut ==
    /\ pc = "create" /\ Unanswered /\ Fails
    /\ \/ UNCHANGED <<served, shed>>
       \/ link /\ NewSubscription(nsub + 1) /\ shed' = shed \cup {nsub + 1}
    /\ UNCHANGED <<taken, fresh, ready, session, carried, indexes, sessions, ns, lost, abandoned>>

\* CreateMonitoredItems is answered item by item: the refused ones are unregistered.
CreateItems(refused) ==
    /\ pc = "items" /\ link /\ (cur \in DOMAIN ssubs \/ refused = batch)
    /\ ssubs' = [s \in DOMAIN ssubs |->
                    IF s = cur THEN [ssubs[s] EXCEPT !.items = batch \ refused] ELSE ssubs[s]]
    /\ monitored' = monitored \ refused
    /\ LET kept    == batch \cap (monitored \ refused)
           tracked == IF cur \in DOMAIN subs THEN [subs EXCEPT ![cur].items = kept] ELSE subs
       IN  IF refused = batch /\ cur \in DOMAIN subs
           THEN pc' = "empty" /\ UNCHANGED <<filling, subs, flags, abandoned>>
           ELSE Subscribed(tracked, refused) \/ Recreated(tracked, refused)
    /\ UNCHANGED <<first, opening, session, polled, watched, subscribing, publishFailed, indexes,
                   link, sessions, nsub, ended, ns, lost, shed, faults>>

\* All refused: the empty subscription is deleted and forgotten, unless that is refused too.
DeleteEmpty ==
    /\ pc = "empty" /\ link
    /\ \/ /\ ssubs' = Deleted({cur})
          /\ Subscribed(Without(subs, cur), batch) \/ Recreated(Without(subs, cur), batch)
       \/ /\ UNCHANGED ssubs
          /\ Subscribed(subs, batch) \/ Recreated(subs, batch)
    /\ UNCHANGED <<first, opening, session, monitored, polled, watched,
                   subscribing, publishFailed, indexes, link, sessions, nsub, ended, ns, lost, shed,
                   faults>>

\* _poll_everything up to its request, the best effort delete of every subscription.
PollEverything ==
    /\ monitored' = {} /\ subs' = NoSubs
    /\ polled' = Targets /\ watched' = FALSE
    /\ DeleteBestEffort(DOMAIN subs)

\* The end of _start_transport: its jobs, then what was deferred while subscribing.
TransportReady ==
    /\ pc = "subscribe" /\ todo = {} /\ pc' = "idle"
    /\ subscribing' = FALSE /\ ready' = TRUE /\ first' = FALSE /\ Return
    /\ IF publishFailed /\ monitored # {} THEN PollEverything
       ELSE /\ polled' = polling /\ watched' = (subs # NoSubs)
            /\ UNCHANGED <<monitored, subs, ssubs, shed>>
    /\ UNCHANGED <<opening, connected, fresh, session, publishFailed, indexes, link,
                   sessions, nsub, ended, ns, lost, abandoned, faults>>

\* _watch finds a stalled subscription, or one that is silent past its keep-alive because the
\* server no longer has it: _recreate asks to delete it.
Overdue(s) == subs[s].stalled \/ s \notin DOMAIN ssubs
Watch(s) ==
    /\ pc = "idle" /\ connected /\ watched /\ Overdue(s)
    /\ ready' = FALSE /\ pc' = "dropOld"
    /\ old' = s /\ batch' = subs[s].items
    /\ subs' = [subs EXCEPT ![s].stalled = TRUE]
    /\ UNCHANGED <<first, opening, todo, polling, full, cur, connected, fresh, session, monitored,
                   polled, watched, subscribing, publishFailed, indexes, link, server, history,
                   faults>>

DropOld ==
    /\ pc = "dropOld" /\ pc' = "create"
    /\ DeleteBestEffort({old})
    /\ UNCHANGED <<first, client, link, sessions, nsub, ended, ns, lost, abandoned, faults>>

-----------------------------------------------------------------------------
(* The run loop's jobs, as far as they end the connection *)

\* A request of a job times out, or is answered with a connection error.
RequestTimesOut ==
    /\ pc = "idle" /\ connected /\ link /\ Fault
    /\ connected' = FALSE
    /\ UNCHANGED <<control, opening, filling, fresh, ready, session, carried, indexes, link,
                   server, history>>

\* The fifth unclassified failure in a row: the session may be what fails.
FailuresInARow ==
    /\ pc = "idle" /\ connected /\ link /\ Fault /\ Abandon
    /\ UNCHANGED <<control, opening, filling, ready, session, carried, indexes, link, server,
                   lost, shed>>

-----------------------------------------------------------------------------
(* asyncua's Publish loop *)

\* A response that asyncua cannot decode, caught by _guard_publish.
PublishUndecodable ==
    /\ pc \in Publishing /\ link /\ Fault
    /\ \E s \in DOMAIN ssubs : ssubs[s].session = token /\ ssubs[s].items # {}
    /\ publishFailed' = TRUE
    /\ IF subscribing \/ monitored = {}
       THEN UNCHANGED <<monitored, subs, polled, watched, ssubs, shed>>
       ELSE PollEverything
    /\ UNCHANGED <<control, opening, filling, flags, session, subscribing, indexes, link, sessions,
                   nsub, ended, ns, lost, abandoned>>

Stalls(s) ==
    /\ pc \in Publishing /\ link /\ ~subs[s].stalled
    /\ subs' = [subs EXCEPT ![s].stalled = TRUE]
    /\ UNCHANGED <<control, opening, filling, flags, session, monitored, polled, watched,
                   subscribing, publishFailed, indexes, link, server, history>>

\* A notification is lost, or the keep-alives are late, of a subscription still served.
Stall(s) == Stalls(s) /\ Fault

\* The server says, if it does, that it ended the subscription.
StatusChange(s) == s \in ended /\ Stalls(s) /\ UNCHANGED faults

\* The supervisor's BadShutdown, or the next request on the closed channel.
LinkNoticed ==
    /\ pc \in Preparing \cup Publishing /\ ~link /\ connected
    /\ connected' = FALSE
    /\ UNCHANGED <<control, opening, filling, fresh, ready, session, carried, indexes, link,
                   server, history, faults>>

-----------------------------------------------------------------------------
(* The network and the server *)

Cut ==
    /\ link /\ Fault /\ link' = FALSE
    /\ UNCHANGED <<control, client, server, history>>

\* A session without a channel times out.
Expire(x) ==
    /\ ~(link /\ x = token) /\ EndSession(x)
    /\ UNCHANGED <<control, client, link, nsess, nsub, ended, ns, history, faults>>

\* The server ends a subscription by itself, with or without a channel: the client learns of it
\* from a StatusChange, or from the silence.
Drop(s) ==
    /\ Fault /\ ssubs' = Deleted({s}) /\ ended' = ended \cup {s}
    /\ UNCHANGED <<control, client, link, sessions, nsub, ns, history>>

\* The NamespaceArray changes, never under an open channel.
Renumber ==
    /\ ns <= MaxRenumber /\ ~link /\ ns' = ns + 1
    /\ UNCHANGED <<control, client, link, sessions, served, history, faults>>

-----------------------------------------------------------------------------
Connecting ==
    \/ Detach \/ Open \/ Unreachable \/ Resume \/ ActivateToClose \/ ActivateCut \/ NotActivated
    \/ CloseOld \/ CreateSession \/ CreateSessionCut
    \/ Check \/ Discover \/ Clear \/ Resolve \/ RequestCut

Transport ==
    \/ NextGroup \/ CreateSubscription \/ CreateRefused \/ CreateCut \/ DeleteEmpty
    \/ (\E refused \in SUBSET batch : CreateItems(refused))
    \/ TransportReady \/ (\E s \in DOMAIN subs : Watch(s)) \/ DropOld

RunLoop     == Connecting \/ Transport
Jobs        == RequestTimesOut \/ FailuresInARow
Publisher   == PublishUndecodable \/ LinkNoticed \/ \E s \in DOMAIN subs : Stall(s) \/ StatusChange(s)
Environment == Cut \/ (\E x \in live : Expire(x)) \/ (\E s \in DOMAIN ssubs : Drop(s)) \/ Renumber

Next == RunLoop \/ Jobs \/ Publisher \/ Environment

Spec == Init /\ [][Next]_vars

\* The event loop runs every ready task, and a dead channel fails the next request.
FairSpec == Spec /\ WF_vars(RunLoop) /\ WF_vars(LinkNoticed)

-----------------------------------------------------------------------------
(* Properties *)

PCs == {"idle", "opening", "activating", "closing", "creating", "stopped", "dropOld"}
         \cup Preparing \cup Subscribing

Tracked == [items : SUBSET Targets, stalled : BOOLEAN]
Served  == [session : Nat, items : SUBSET Targets]

FlagsOK ==
    /\ first \in BOOLEAN /\ rebuild \in BOOLEAN /\ full \in BOOLEAN /\ connected \in BOOLEAN
    /\ fresh \in BOOLEAN /\ ready \in BOOLEAN /\ resumed \in BOOLEAN /\ watched \in BOOLEAN
    /\ subscribing \in BOOLEAN /\ publishFailed \in BOOLEAN /\ link \in BOOLEAN

ControlOK ==
    /\ pc \in PCs /\ todo \subseteq Intervals /\ polling \subseteq Targets /\ batch \subseteq Targets
    /\ cur \in Nat /\ old \in Nat
    /\ pc \notin Subscribing \cup {"dropOld"} => old = 0 /\ cur = 0 /\ batch = {} /\ todo = {}

SessionOK ==
    /\ taken \in [token : Nat, keep : BOOLEAN] /\ detached \in [token : Nat, keep : BOOLEAN]
    /\ token \in Nat /\ nsess \in Nat /\ live \subseteq Nat
    /\ lost \subseteq Nat /\ abandoned \subseteq Nat
    /\ prior \in Nat /\ known \in Nat /\ resolved \in Nat /\ ns \in Nat /\ faults \in Nat

CarriedOK ==
    /\ DOMAIN subs \subseteq Nat /\ subs \in [DOMAIN subs -> Tracked]
    /\ DOMAIN ssubs \subseteq Nat /\ ssubs \in [DOMAIN ssubs -> Served]
    /\ nsub \in Nat /\ ended \subseteq Nat /\ shed \subseteq Nat /\ monitored \subseteq Targets /\ polled \subseteq Targets

\* The values every variable may take; a call that has returned left no locals behind.
TypeOK == FlagsOK /\ ControlOK /\ SessionOK /\ CarriedOK

\* The session whose subscriptions `subs' are: held, being activated, or detached.
Home == IF token # 0 THEN token ELSE IF taken.token # 0 THEN taken.token ELSE detached.token

\* A target is sampled: polled, or in a tracked subscription the watch looks at.
Sampled(t) ==
    \/ t \in polled
    \/ t \in monitored /\ watched /\ \E s \in DOMAIN subs : t \in subs[s].items

\* No target is ever silently dropped: while _ready (the state a resumed session is
\* allowed to keep), and whenever jobs run, every mapped target is polled, or monitored
\* by a subscription that _watch looks at -- whatever was refused, stalled, cut or moved
\* to polling on the way.
Covered == ready \/ (pc = "idle" /\ connected) => \A t \in Targets : Sampled(t)

\* What the client believes it subscribed is what the server serves, up to what it has not
\* heard of yet: while _ready, a tracked subscription is served by the client's own session
\* (never an earlier one) with every monitored item it is tracked with, or the server ended it
\* by itself and the job that notices its silence is there -- over resumes, rebuilds, refused
\* and interrupted recreates, and drops at any time, the detached ones too.  The session itself
\* may have expired.
BeliefTrue ==
    ready /\ Home \in live => \A s \in DOMAIN subs :
        \/ s \in ended /\ s \notin DOMAIN ssubs /\ watched
        \/ /\ s \in DOMAIN ssubs /\ ssubs[s].session = Home
           /\ subs[s].items \cap monitored \subseteq ssubs[s].items

\* No subscription slot is forgotten: once jobs run, every subscription the server still
\* holds in the client's session is tracked in _subs, or its deletion was requested and not
\* answered (or its creation never was).
NothingForgotten ==
    pc = "idle" /\ connected => \A s \in DOMAIN ssubs :
        ssubs[s].session = token => s \in DOMAIN subs \cup shed

\* No session slot is forgotten: a session the server holds is the client's own, the one
\* it detached and will resume or close, or one whose creation, activation or closing was
\* cut or refused.
SlotsAccounted == live \subseteq lost \cup {token, taken.token, detached.token}

\* A session given up for a fresh one (failures in a row, a refused recreate) is never the
\* client's session again, whatever cut the CloseSession short.
AbandonedForGood == [][token' # token => token' \notin abandoned]_vars

\* _poll_everything's docstring: it deletes this connection's subscriptions and polls every
\* target, so after a Publish failed to decode nothing stays subscribed.
PolledAlone == pc = "idle" /\ connected /\ publishFailed => monitored = {}

\* Resolved indexes follow the server: a resumed session keeps its subscriptions only if
\* the NamespaceArray is the one their indexes were resolved with.
ResumedIndexesCurrent ==
    [][(pc \in {"checking", "discovering"} /\ pc' = "idle" /\ connected')
          => resolved' = ns]_vars

\* Every target is being sampled in truth: by a poll job or by a running subscription.
Collecting ==
    /\ pc = "idle" /\ connected /\ link
    /\ \A t \in Targets :
          \/ t \in polled
          \/ \E s \in DOMAIN ssubs : ssubs[s].session = token /\ t \in ssubs[s].items

\* However the link is cut and whatever the server refuses or ends, a client whose first
\* connect succeeded ends up sampling every target again.
Recovers == []<>(pc = "stopped" \/ Collecting)
=============================================================================
