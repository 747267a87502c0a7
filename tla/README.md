# A model of the OPC-UA extension

TLA+ modules for `zelos-extension-opcua`: how a client connects to an OPC-UA server, keeps its
session and subscriptions across lost links, delivers what the server publishes, logs it as
trace rows; how its address space is discovered and named; how actions read and write it from other
threads; how the form becomes secure sessions; and how the clients of one process are run, share a
trace source, and are stopped. TLC checks small instances, TLAPS proves the theorems listed below for
every value of the constants.

All sources are under `src/zelos_extension_opcua/`; line numbers are of `client.py` unless another
file is named.

## The system

| Component | Code | State | Operations | What makes it correct |
|---|---|---|---|---|
| Connection and session lifecycle | `_ensure_connected`, `_detach`, `_resume_on_open`, `connect`, `_rebind` (1291-1490) | `_client`, `_connected`, `_detached`, `_resumed`, `_fresh`, `_ready`, `_namespaces` | connect, detach, resume, close the old session, rebuild or keep | no session slot is forgotten on the server; a resumed session is kept only if its setup was complete and its node ids are still right; a session given up is not taken back |
| Transport setup and recreation | `_start_transport`, `_subscribe`, `_watch`, `_recreate`, `_poll_everything`, `_delete_subscriptions` (1604-1824, 1932-1978) | `_subs`, `_monitored`, `_groups`, `_jobs`, `_subscribing`, `_publish_failed` | group by interval, subscribe, fall back to polling, recreate | every mapped target is sampled whatever the server refuses; what the client tracks is what the server holds |
| Publish delivery | `_guard_publish`, `_publish_callback`, `_republish` (1776-1930) | `_Sub.expected/stalled/heard`, `_acks` | receive, find a gap, Republish, acknowledge | nothing is lost in silence, nothing is logged twice or out of order |
| Reads and staleness sweep | `_schedule`, `_poll_chunk`, `_sweep`, `_read_targets` (1980-2070) | `_jobs`, `_stale` | periodic Reads | a silent node is read again, in order |
| Row logging | `_decode`, `_log_samples`, `sample_time_ns` (657, 2087-2142) | `_last` | log one row per event and stamp | a row holds what was true at its stamp |
| Run loop and runner | `_run_async`, `_or_stop`, `_wait_or_stop`, `OPCUARunner` (2196-2478) | `_at_start`, `_contacted`, backoff, losses, failures; `_stop_event`, `failed_at_start` | connect, wait, job, back off, stop | a failed first contact stops the extension and nothing else does; a shutdown always ends |
| Trace source and rotation | `_declare_events`, `_rotate_source`, `_discover` (1136-1249) | `_events`, `_fields`, `_schemas`, `SharedSource` | declare, add a field, rotate | no client logs to an ended segment; a declared schema is fixed |
| Actions | `actions.py`, `_run_coro`, `_ua_node`, `write_node` | the runner, `sent`, `_ua_nodes` | read, write, browse, trust | a caller is answered, and told the truth of its write; a write reaches the node it names |
| Discovery | `discovery.py` | frontier, visited, continuation points | walk, describe, name, filter | every variable is found once or its absence reported, described by its own attributes, and named uniquely; the walk ends |
| Node map | `node_map.py` | - | parse, validate, save, look up | ids and names are unambiguous, and still name the same nodes when namespaces are renumbered |
| Security and trust list | 331-473 | files in `trusted/` and `rejected/` | trust, reject, create a certificate | a certificate is trusted only by decision |
| Value codecs | `decode_value`, `encode_value` | - | convert, scale, check ranges | a value is in range of its type or refused |
| Auto-configuration | `autoconfig.py` | the form and its report | probe, name, fill in | names are unique; what is filled in is never weaker than asked for; what is reported clean can connect |
| Configuration and CLI | `cli/app.py`, `main.py` | - | resolve, inherit, start | each server gets its own or the shared settings; names are unique |
| Diagnostics, demo simulator, packaging | `diagnostics.py`, `demo/`, build files | - | - | - |

One asyncio event loop runs it all. A client has two tasks: its run loop, which awaits connect, setup
and one job at a time, and asyncua's Publish loop, which awaits `on_publish` and, through
`_guard_publish`, can call `_poll_everything` at any await of the run loop. The tasks share the
client's fields without locks; every await is a point where the other may run, the link may go or
the server may forget something. The session and its subscriptions live on the server and outlast
the channel. Clients share the runner's stop event and, with a prefix, the trace source; actions
come from other threads through `_run_coro`.

## Modules

| Module | Models | Composes / implements |
|---|---|---|
| `Session` | connection, session, transport setup and recreation of one client against one server | - |
| `Publish` | one subscription: server queue, channel, `on_publish`, `_republish`, `_rebind`, `_watch`, `_recreate` | implements `Delivery` |
| `Delivery` | the promise to the trace: once, in order, no gap that is not known | abstract |
| `Reads` | the jobs of one connection and the staleness sweep, against `_poll_everything` | - |
| `RowLog` | `_log_samples` for one event | - |
| `Codec` | `coerce_text`, `decode_value`, `encode_value` of integer nodes | operators; checked through `MCRowLog` |
| `Sources` | `open_sources`, `SharedSource`, `_declare_events`, `_discover`'s rotation, the log handler | several clients and threads on one source |
| `Runner` | the run loop of every client and `OPCUARunner` | - |
| `Actions` | reads and writes of other threads, on a client that reconnects | callers, coroutines, connection and server |
| `Discovery` | `walk`, `_browse_batch`, `describe`, `assign_names` against a server chosen in `Init` | extends `NodeMap` |
| `NodeMap` | node ids, unique names, `to_dict` / `from_dict`, lookup by name | operators |
| `Config` | `_inherit`, `resolve_servers`, `validate_security`, Auto-configure's report | operators |
| `Setup` | from the form to secure sessions: starts, trust list, certificates that are renewed | extends `Config` |
| `MC...` | the instances for TLC | |
| `SessionProofs`, `PublishProofs`, `RunLoopProofs`, `RowLogProofs`, `SourcesProofs`, `ActionsProofs`, `DiscoveryProofs`, `SetupProofs` | the theorems | `RunLoopProofs` extends `Runner` and `Reads`, whose names are disjoint |

A definition named `X_Something`, just before `X`, is `X` with a plausible mistake in it (a dropped guard, a
missing reset): `PROJECT.json` pairs it with the property that catches it. No specification uses it.

### Session

`pc` names the await the run loop is parked at, and an action is the code from one await to the next:

| `pc` | await | actions leaving it |
|---|---|---|
| `idle` | between jobs | `Detach` (`_ensure_connected`, `_detach`), `Watch` (of what is `Overdue`), `RequestTimesOut`, `FailuresInARow` |
| `opening` | socket and secure channel | `Open`, `Unreachable` |
| `activating` | ActivateSession in `resume()` | `Resume`, `ActivateToClose`, `ActivateCut`, `NotActivated` |
| `closing` | CloseSession of a session not kept | `CloseOld` |
| `creating` | CreateSession and its activation | `CreateSession`, `CreateSessionCut` |
| `checking` | NamespaceArray, operation limits | `Check`, `RequestCut` |
| `discovering` | `_discover` | `Discover`, `RequestCut` |
| `clearing` | delete of a rebuilt session's subscriptions | `Clear` |
| `resolving` | `_resolve_nodes` | `Resolve`, `RequestCut` |
| `subscribe` | no await: the group loop of `_start_transport` | `NextGroup`, `TransportReady` |
| `create`, `items`, `empty` | the requests of `_subscribe` | `CreateSubscription`, `CreateRefused`, `CreateCut`, `CreateItems`, `DeleteEmpty` |
| `dropOld` | the delete in `_recreate` | `DropOld` |
| `stopped` | the first connect failed: the client's loop is over | - |

The second task contributes `PublishUndecodable`, `Stall` (a notification lost, or late keep-alives), `StatusChange` and
`LinkNoticed`, the environment `Cut`, `Expire`, `Drop` and `Renumber`. `Drop` is the server ending a subscription by itself, at
any time and with or without a channel. The client knows nothing of it until a `StatusChange` arrives, which may be never, or
until `_watch` finds it silent past its keep-alive (`Overdue`): between the two it is still in `_subs`, not stalled, under a true
`_ready`. `subs`, `monitored`, `polled`, `watched` are `_subs`, `_monitored` and what
`_jobs` reads; `live`, `ssubs`, `ns` are the server's. `_delete_subscriptions` and the delete in
`_poll_everything` swallow every failure, so `DeleteBestEffort` either takes effect or does not, and
their bookkeeping is done before the request: they are one step. A request of the recreating job that
fails on a dead link is `Fails`, like a failed connect: `_run_async` clears `_connected` and goes round.
The sets `lost`, `shed`, `abandoned`, `ended` are history.

When `_create_client` raises, `_client` is still the object that was detached, and the next `_ensure_connected` detaches it
once more, with `_fresh` already cleared (`DetachedAgain`). Whether that finds a session depends on asyncua: on
`has_session` staying true of a client it has disconnected. `TokenStays` says whether it does; `Session_recovery` runs with
it, the other runs without.

Data left out: certificates and security, node values, request chunks (one CreateMonitoredItems per
subscription), publishing parameters, `transport = "poll"`. `_connected` is tested together with
`_client`, which only `_create_client` sets.

### Publish and Delivery

The server numbers its notifications, keeps the newest `QueueSize` of them until they are acknowledged
and answers one Publish request at a time; a keep-alive carries the number the next notification
will have. `busy` is `on_publish` awaiting `_republish`; `mine` says its `sub` is still the one in
`_subs`. `auto` are the acknowledgements asyncua sends by itself, `acks` those of `_acks`. A message that
`on_publish` did not deliver because its Republish failed with the link is not acknowledged on a new
channel (the loop that would have ended with the old one), and is Republished with the gap. The
channel's end fails a Republish before the next connect resumes the session.

`Recreate` replaces the subscription but not the session, so a response of the old one may still arrive (`own` says whose it is,
`Known` is the lookup in `_subs`): `OnLatePublish` logs its late rows and looks for no gap. An `on_publish` that was awaiting
`_republish` when its subscription was replaced goes on (`RepublishedLate`, `Orphaned`): it may get notifications and acknowledge them under
the old id, and whatever it writes, it writes into the old `_Sub`. A new session comes with a new channel, on which no response
of the old client arrives.

`Keeps` is `Promise!Spec`, with `Delivery`'s `lossy` the subscription's `stalled`, or a loss that
`_republish` will write into it when it is done (`Noted`).

### Reads

`jobs` is `_jobs`, in its order; `job` is the one the run loop has picked, which it keeps while
`_poll_everything` replaces the list under it (`listed = 0`). `RunJob` sends a job's Read (`reading`),
`HealthRead`, `ChunkRead`, `SweepRead` and `ReadFails` end it; `Deliver` is a notification, `PollEverything`
an undecodable one, at any step. Time is relative: due dates and updates are counted from now, so that
the state space is finite; ages are told apart up to `Horizon`. `Again` is the line that restarts a job
which fell behind from now on, and `Touched` the `move_to_end` that keeps `_stale` in the order of updates, which
`SilentFront` relies on.

### RowLog

A sample is its node, whether it decodes, its stamp and its value. A batch is one call of
`_log_samples`; batches come in any order of stamps, because a Republished message, a sweep and a poll
stamp their samples by different clocks. `since` and `bad` are history: what was read of a node since
its last failure, and the nodes whose latest sample had no value. With `Queued = FALSE` a node comes
once in a batch, which is what the requested queue size of 1 asks for; `Queued = TRUE` is a server that
revised it.

### Runner

`loop[c]` is the await of a client's run loop: `connect` (`_or_stop(_ensure_connected())`), `backoff`,
`wait` (for a job to be due), `job`, `close` (the `finally` clause), `done`. `main` is the runner's:
`contact` (`_failed_at_start`), `serve` (`gather`), `finish`, `done`. Connecting and jobs succeed or
fail; `LinkDrops` is the Publish loop clearing `_connected`. The backoff's length is abstracted to
whether the loop waits. Exceptions other than those of a job, which the runner treats as a bug of
its own, are left out.

### Sources

A segment is a number; `source[n]` is the one a `SharedSource` holds now, 0 between two. `events[c]` holds the
segment each of a client's events was declared on, `fields` and `schemas` what the client believes of them,
`targets` what its jobs and subscriptions may log. A start is one step, because nothing else runs before the
first await; a discovery declares new events and, when one has new fields, enters a rotation. The
rotation is one coroutine without an await, yet it is four steps here (`Acquire`, `Release`, `Reopen`,
`RestoreLog`): a thread that logs runs between any two, and only the handler's lock, which the prefix
source takes, keeps it out. `Handle` and `Emit` are such a thread inside `logging`'s `handle`.

### Actions

A call is a record with its coroutine's `step` (the request it awaits, or `queued`, `over`), the handle it took
(`node`: the connection and the NamespaceArray it was resolved with, and where `connect` was then), whether its
write was `sent`, is in `flight` or was `applied` by the server, and what its caller was told (`report`). The
caller's thread and the coroutine share only `sent`, as in the code: `CallerTimesOut` reads it while
`Cancelled`, which reaches the coroutine later, may still let a request go out. The connection is `Session`'s reduced
to what decides a handle: `connect` up to its first request, `_resolve_nodes` in two steps, the end of the setup. The server
applies what its own array says the index means. `WriteTimeout` counts three requests, as `_write_timeout`.

A call whose connection goes, or which a shutdown cancels, is reported as `failed`, whether or not its write was sent: `_run` adds "the
server may have applied it" to a timeout only. `lost` is history: the failure took the answer of a write that was sent.

### Discovery and NodeMap

`frontier`, `upcoming`, `visited`, `found`, `failed`, `filtered`, `kept` are `walk`'s locals, `call` those of
`_browse_batch`: the indices of the batch still `pending` a page, and those `refused` a continuation point.
`BrowseBatch`, `BrowseNext`, `BrowseAlone` are its requests, and each answers per node by a choice of the
server, which holds at most `points` continuation points; `Take` follows the references that came back;
`Raises` is a request that fails. Then `Describe` reads what was found, in requests that a single undecodable value
forces to be read again item by item, and `NameNodes` makes the node map.

Names are sequences of tokens, so that a hash is a token appended; `Match` and `Below` are `PathFilter`'s pattern
and its prefix test. An id written with its URI is resolved against the array of the session that reads it.

### Config and Setup

`Config` is pure: what the form comes to, and what Auto-configure makes of the replies. `Setup` runs it: the user
enters a form (`Situations`), perhaps asks for Auto-configure, starts the extension, trusts certificates; the servers stop,
return with another certificate, and learn to trust the client. A connect is four steps: `Contact`
(GetEndpoints, the match of transport, mode and policy, the certificate and its period), `Judge` (pinned, on the trust list, in its
period as `Contact` found it), `Reject` (saved for review, which the trust action of another process may have overtaken) and `Open`, which
is to the certificate that was judged. A certificate is its server and its number, and it may run out at any time (`Expires`):
a connect looks at that once, and a session that is up never again.

An offer has a transport. The connect takes an `opc.tcp` endpoint only (`Offered`), Auto-configure's `Offers` any: the difference is
the code's. An entry that Auto-configure makes has the host that answered and the path the server publishes (`AtPath`, which
`Situations` may lead to that server or to nothing). `entered` keeps the form as the user left it, `vouched` the servers the last report
found without a problem.

### Codec

A value is a fraction, so that truncation, the division by a scale and the check of the range are exact. The two
statements about them (what is written is read back, up to a step of the scale; a read never invents size or sign)
are assumptions of the module, evaluated on every pair of `MCRowLog`'s numbers and scales.

## What TLC checks

| Run | Checks | Shows |
|---|---|---|
| `Session_safety` | `TypeOK`, `Covered`, `BeliefTrue`, `NothingForgotten`, `SlotsAccounted`, `AbandonedForGood` | three faults at any await: every target sampled or watched, the client's belief true of the server up to what it has not heard of, every session and subscription slot accounted for |
| `Session_recovery` | `Recovers` | with discovery and a polled variant target, after two faults and a renumbering every target is sampled again |
| `Publish_delivery` | `TypeOK`, `NoSilentLoss`, `Keeps`, `CatchesUp` | the refinement of `Delivery`, with gaps longer than both the queue and the Republish limit; the trace catches up, through cuts in the middle of a Republish; what comes late of a replaced subscription changes nothing |
| `Reads_sweep` | `SampledOneWay`, `RefreshedInTime`, `KeepsReading` | no item is sampled twice or not at all when everything moves to polling in the middle of a sweep; a silent item is read within a bound; no job starves another when requests are slower than the periods |
| `RowLog_safety` | `RowsAsOf`, `EveryFieldCarried`, `NullUntilReadAgain`, and `Codec`'s assumptions | a row holds each field known as of its stamp, at its newest such value, and nothing from before a failure |
| `Sources_rotation` | `TypeOK`, `OneSegment`, `RowsFit`, `NoRecordLost`, `SegmentsContinue` | clients sharing a source and rotating it under each other and a logging thread: one segment is referred to at a time, what a client may log next fits what was declared, no record is lost, a field keeps its datatype |
| `Runner_loops` | `TypeOK`, `ServesTheContacted`, `EndsForAReason`, `ShutsDown`, `KeepsServing` | the runner's decision, and the only two ways it ends; a shutdown ends; otherwise every client keeps returning to its jobs |
| `Actions_writes` | `ReportIsTrue`, `SettledWritesTheNamed`, `Answered` | a write is not sent once its caller was told, and what the caller was told is true through timeouts, reconnects, restarts and a shutdown, but for a plain failure of a write already sent; a write with a settled handle never reaches another node; every caller is answered |
| `Discovery_complete` | `FoundOrReported`, `FoundOnce`, `OnlyFaultsFail`, `DescribedAsServed`, `NamesApart`, `PinsAsFile`, `WalkEnds`, and the assumption `BelowIsExact` | 2,441 servers: a Variable on a kept path is found once or its absence reported, described by its own reads, named apart, and still named after the server renumbers |
| `Setup_secure` | `AsSecureAsAsked`, `ReportedFits`, `Reconnects` | no session is less secure than asked for, whatever Auto-configure filled in; a clean report starts, and no client of it is refused for an offer the server has on `opc.tcp`; what was wrong is made good without a restart |

Two more runs show where the code does something other than its own text says. Each expects a violation:

- `Session_indexes` (`ResumedIndexesCurrent`). `connect` sets `_namespaces` to None before it has read the
  new array (1306). A resume cut during that read leaves None, the next resume skips the comparison at
  1319, and subscriptions resolved with the old array survive a change of it. Two cuts are needed.
- `Actions_stale` (`WritesTheNamedNode`). `connect` sets `_connected` (1303) before it empties `_ua_nodes`: until
  `_resolve_nodes` has run, two or more requests later, an action's write takes a handle resolved with the last session's
  array. After a restart that renumbered the namespaces it goes to another node. `SettledWritesTheNamed`, which
  holds, says where the window ends.

Other disagreements met while modelling, with no run of their own. The first six are violated properties
kept in the modules, and the sentence says how to see them; the last four are the premises that a property of a
passing run needs:

- `Session!PolledAlone`, under `Session_indexes`'s constants. `_recreate` does not set `_subscribing`; an undecodable
  Publish between its delete and its create runs `_poll_everything` at once, after which the recreate still
  registers a subscription, and `del self._subs[...]` (1954) raises. The items are then both polled and subscribed.
- `RowLog!NullUntilReadAgain` with `Queued = TRUE`. A good and then a Bad sample of one node in one message: the
  Bad one is applied first (2128), and the row of the good one puts the value back into `_last` (2141).
- `Runner!OnlyFirstContactsFail`. `_failed_at_start` reads `_connected` after the slowest first contact (2395): a
  server that connected and dropped meanwhile is reported as "cannot connect" and stops the extension.
- `Reads!RefreshedWithinAStep`, with three subscribed items of one chunk each, every period 4, no faults and requests that take no
  time. The comment at 98-99 promises a refresh within one step after `_stale_after`; items that fell silent together are swept one chunk per
  step, so the third waits two more. `RefreshedInTime` states the bound that holds: a sweep for each chunk of the subscribed items and one
  more for each Read that failed, each a period and one run of every job after the last, and the item's own Read. (Without the
  last term it fails for one item, `ReadChunk` 1, `StaleAfter` 3 and `Longest` 2: the item is due, and its own answer takes two ticks.)
- `Session!AbandonedForGood` with `TokenStays = TRUE` and three faults. `_fresh` is cleared before the reconnect (1391): a session given
  up, whose CloseSession failed and after which `_create_client` raised, is detached a second time as one to resume. `_detach`
  says "Else CloseSession here, or on the next channel". It rests on what asyncua does, which this repository does not show.
- `Setup!ReportedConnects`, under `Setup_secure`'s constants. `_offers` (`autoconfig.py` 139) looks at an endpoint on any transport, the connect
  at those of `opc.tcp` (1028): a server with the mode and policy on `opc.https` alone is reported as found, and then
  refused. `_Report.check` promises "False with the reason when it cannot connect as set". `ReportedFits` states the exception.
- `Discovery!FoundOrReported` has the premise `Agree`: a node reached on one path whose filters keep only part of what is below
  is marked visited, and what another parent's filters keep of it is neither found nor counted (`discovery.py` 452).
- `Setup!ReportedFits` leaves out an entry with a policy of its own under the default mode, which
  `_Report.check` does not look at (`autoconfig.py` 224).
- `NodeMap!ToDict` has no scale (`node_map.py` 264): `MCDiscovery`'s assumption `ToDictDropsScale` states it, `PinsAsFile` is
  about discovered maps, which have none.
- `Actions!ReportIsTrue` leaves out the timeout of a call that a reconnect met on its way: it may read the
  NamespaceArray twice, which `_write_timeout` (`actions.py` 101) does not count.

And a limit of the code that no text of it denies: `Actions!FailedUnwritten` is false. A write that the server applied, and whose
answer the connection or a shutdown took, is reported to its caller as a plain failure (`actions.py` 84-92: only a timeout gets "may have
applied it"). So `ReportIsTrue` says nothing of whether such a write was applied.

### Bounds

- `MaxFaults` of `Session` bounds everything the environment may do to a client: link cuts, timeouts, refused
  activations, stalls, dropped subscriptions, undecodable Publish responses, failures of jobs; refusals of subscriptions and items
  are not counted, and sessions may expire at any time. Three faults (`Session_safety`, 3.6 million
  states, up to exchanging the two targets and their intervals) let a resume of a resume be cut, and a recreate fail on a session that was itself resumed
  half-way. `Session_recovery` uses two.
- `Targets` are two or three at two intervals: one group refused and the other not, a second group that finds the
  server full, a group partly of variant targets. That a group is refused in part is left to the proofs, which hold for groups of any size. `MaxRenumber` is one: enough for a stale index.
- `MaxRepublish`, `QueueSize`, `MaxSeq`: gaps of more than `MaxRepublish`, and of more than `QueueSize`
  notifications, occur within `MaxSeq`. `MaxRepublish` is 10 in the code; the proofs hold for any.
- `Reads`: three items of one per Read, two of them subscribed; periods shorter than `Longest`, so that the loop is
  always behind; one failed Read; `Horizon` is beyond every age reached (`RefreshedInTime` bounds it, and is proved for any constants). 242,730 states.
- `RowLog`: three stamps give a value before, at and after a row's; two nodes, two values. 7,412 states.
- `Sources`: two clients, one of them discovering, with a map of its own or raw, with and without the prefix; three
  discoveries of seven maps that add, drop and retype fields; one thread. 142,422 states.
- `MaxFailures` of `Runner` is `POLL_FAILURES_BEFORE_RECONNECT` (5 in the code), two here. Two clients: the one that
  decides late and the one that dropped.
- `Actions`: two calls one after the other on two connections with one restart between; ticks of the request timeout (one),
  of the slack (two) and of the loop's lag (one) keep the order of the deadlines. 624,462 states.
- `Discovery`: two objects and two Variables with any references among them (the cycle, the shared node, the
  Variable below a Variable), pages of one with one continuation point and unpaged with none, one fault; all pairs of reads
  of two Variables; all collisions of three names, with and without a hash-like one. 65,010 states.
- `Setup`: two servers, one or two entries, a renewal, a lost connection, two starts. 764,930 states, with an Advanced mode that lacks its policy among
  them, and a server that has its secure endpoint on `https` only. A certificate runs out in the situations of one server that turn on it.

Every configuration sets `CHECK_DEADLOCK FALSE` where the system really may stop: a client whose first connect failed
(`pc = "stopped"`), a runner that ended, a discovery that is done; and the bounded models run out of faults or
numbers. `Reads_sweep` checks it.

### Fairness

Safety alone is checked under `Spec`. `Session!FairSpec`, `Publish!FairSpec` and `Reads!FairReadsSpec` take weak fairness
of the run loop, of the Publish loop and of time: asyncio runs every ready task, every request has a timeout, and
a closed channel fails the next request. In `Session` that includes the deadline of `_watch`: a subscription
that the server no longer has is silent, and the watch job comes round. It holds of the run loop as a whole and of no single
action, so that a nondeterministic outcome (refused or not) is never forced. `Publish!FairSpec` also
assumes that a live server answers a Publish request, with a keep-alive if nothing else, which OPC-UA
requires of it. `Runner!FairSpec` takes weak fairness of each client's loop and of the runner's: every
wait it parks at ends. `Actions!FairSpec`: time passes, the loop runs a coroutine that is due, and a caller's
`future.result(timeout)` returns. `Discovery!FairSpec`: the coroutine goes on and the server answers or the request fails.
`Setup!FairSpec`: each client's loop goes on and the runner looks at the first contacts; nothing is asked of the user or the servers.
The network is under no obligation but to be cut only finitely often (`MaxFaults`, `MaxDrops`).

## What is proved

For every value of the constants (any sets of targets and intervals, any grouping, number of faults, queue size, limit,
set of clients, threads, maps, servers, forms, batches), from assumptions that only state what the constants are:

- `SessionAssumption`, `PublishAssumption`, `RunnerAssumption`, `RowLogAssumption`: bounds are naturals, flags are Booleans, a target has an interval, there is a client;
- `ReadsAssumption`: items are numbered, finitely many, those subscribed are among them, and periods and sizes are not zero;
- `SourcesAssumption`: no map has an event of the extension's own name;
- `ActionsAssumption`: the slack of an action's timeout is longer than the loop's lag;
- `NodeMapAssumption`: ten digits of SHA-1 tell the nodes apart, from each other and from any name, and no name is empty;
- `DiscoveryAssumption`: a server's nodes are finitely many, its references, names and limits are of their types, no namespace's URI is empty,
  and a read returns something, if only None, for each attribute that is asked for;
- `ConfigAssumption`: what is probed are URLs, not blank; a sanitised name stays as it is when sanitised again and is not blank,
  and so is that name with a number, a different one for each number (`Labelled`: of every label that can be met); no policy is called "default" or "None";
- `PathAssumption`: a probed URL with another path is a URL, not blank, and names a user only if the probed one did;
- `SetupAssumption`: a form is one `config.schema.json` admits: Advanced has a mode and policy of their enumerations, a server a URL, a mode and a
  policy; a secure endpoint has a secure policy; a server's label is blank or sanitises as above; a server that answers at a probed URL has not another of the servers
  at the path it publishes.

| Theorem | Says |
|---|---|
| `SessionProofs!TypeCorrect` | `Spec => []TypeOK` |
| `SessionProofs!NoTargetDropped` | `Spec => []Covered` |
| `SessionProofs!NoSessionForgotten` | `Spec => []SlotsAccounted` |
| `SessionProofs!NeverTakenBack` | with `~TokenStays`, `Spec => AbandonedForGood` |
| `SessionProofs!BeliefHolds`, `NoSubscriptionForgotten` | `Spec => []BeliefTrue`, `[]NothingForgotten` |
| `PublishProofs!TypeCorrect` | `Spec => []TypeOK` |
| `PublishProofs!NothingLostSilently` | `Spec => []NoSilentLoss` |
| `PublishProofs!KeepsPromise` | `Spec => Keeps`: `Publish` implements `Delivery` |
| `RunLoopProofs!TypeCorrect`, `FirstContactIsHard`, `NeverJustEnds` | `Runner`'s `Spec => []TypeOK`, `[]ServesTheContacted`, `[]EndsForAReason` |
| `RunLoopProofs!ItemsSampledOneWay` | `ReadsSpec => []SampledOneWay` |
| `RunLoopProofs!RefreshedOnTime` | `ReadsSpec => []RefreshedInTime` |
| `RowLogProofs!RowsAreTrue`, `RowsAreWhole`, `FailuresStayNull` | with `~Queued`, `Spec => []RowsAsOf`, `[]EveryFieldCarried`, `[]NullUntilReadAgain` |
| `SourcesProofs!TypeCorrect`, `EveryRowFits` | `Spec => []TypeOK`, `[]RowsFit` |
| `SourcesProofs!RecordsKept`, `OneSegmentAtATime` | `Spec => []NoRecordLost`, `[]OneSegment` |
| `SourcesProofs!NothingIsLeftBehind` | `Spec => []SegmentsContinue` |
| `ActionsProofs!SettledHandlesHold`, `ReportsAreTrue` | `Spec => []SettledWritesTheNamed`, `[]ReportIsTrue` |
| `DiscoveryProofs!OnlyFaults`, `FoundOnceEach` | `Spec => []OnlyFaultsFail`, `[]FoundOnce` |
| `DiscoveryProofs!NothingIsMissed` | `Spec => []FoundOrReported` |
| `DiscoveryProofs!DescribedLikeServed` | `Spec => []DescribedAsServed` |
| `DiscoveryProofs!NamesStayApart`, `PinsLikeAFile` | `Spec => []NamesApart`, `[]PinsAsFile` |
| `SetupProofs!SecureSessions`, `SecureUnlessAsked` | `Spec => []SecureAsConfigured` (its first half) and `[]AsSecureAsAsked` |
| `SetupProofs!WhatIsReportedFits` | `Spec => []ReportedFits` |

Each module proves an inductive invariant (`Inv`, which its later parts extend), in lemmas of one step per action,
and draws its theorems from it.

- Session. `Covered` is not inductive: in the middle of a setup a target is in no job yet. The
  invariant says where each one is at every await: still in a group of `todo`, in `batch`, in `polling`, or
  monitored in a tracked subscription, and which of the two subscriptions a recreate is between holds it.
  `_ready` false at those awaits is what lets `Covered` speak of a session that may be resumed. For the
  sessions, the client names at most one at a time, `pc` tells in which of its three fields (`OneHandle`), and
  one it gave up is never in a field that is kept (`AbandonedUnkept`).
- Session, as the server sees it. `BeliefTrue` and `NothingForgotten` relate `subs` to the server's `ssubs`, which
  change at different awaits. `Remembered`: a subscription of the client's session is tracked or was asked to be deleted, and
  every one of them the latter once a rebuild has cleared them. `Apart`: no target is in two tracked subscriptions but
  for the one a recreate is replacing. `Believed` says at which await of a set-up or a recreate the belief is not true yet (the
  items just being requested) or no more (the one being replaced), and of every other subscription that the server serves it or ended it
  by itself (`Vouched`); then the watch job is there, whenever a tracked subscription is (`Watching`).
  `NeverTakenBack` assumes that asyncua's client object does not keep its token (`~TokenStays`), which only the second detach needs.
- Publish. `NoSilentLoss` and the refinement need to know, while `_republish` runs, that what is left to ask
  for lies above everything logged and below the message (`InGap`), and outside it that the log ends just
  below `expected` (`LogEnd`); `OneAtATime` says that no second message is under way. A step of `Publish`
  is a step of `Delivery` or leaves it alone.
- Runner. `StopReason` (the stop event is set for a reason) and `OwnEnd` (a loop that ends without being
  told to never connected) close the two properties under every step.
- Reads. `Ways`: the subscribed items are in `_stale` once each, every other item is in one chunk or was given up (`Shared`), what
  is read is what the job that is run names (`Running`), and `_stale` is in the order of the ages (`InOrder`, from `TouchedKeeps`).
  A chunk names no subscribed item (`ChunkApart`), so its answer, which also restarts their ages, leaves the order alone; after `_poll_everything` a sweep's
  answer finds none of its items in `_stale`. `SampledOneWay` follows by counting.
- Reads, in time. `RefreshedInTime` is a bound over histories, made inductive by two accounts that every step keeps. `OnTime`: an overdue sweep starts
  within one run of each job, because the loop takes the job due first (`First`) and one that was run is put off to now (`Again`), behind it:
  what is left of the request under way and a full run of each job that still goes before the sweep fit into what is left of that
  time. `AllInTime`: a silent item is among so many at least as old; the sweeps that hold them all (`Read`) end before the bound. A tick takes
  from the waiting what it adds to the age. A sweep's Read is full, and then of items at least as old (`ReadOneSweep`), or takes every silent item; an update
  only takes items from before it; a Read that fails puts back at most one Read (`ReadOnceMore`), which the bound's term for
  it pays for. Sooner or later the item's own Read is under way (`BeingRead`). TLC checked this invariant on eight
  instances first.
- RowLog. A batch is one step that loops over its stamps, so there is an induction inside the step. `AfterHas` says what
  `_last` holds of a node after stamp `t` of the loop: what it held, or the batch's one sample if that is due and newer.
  `NodeNewest` and `NodeRows` then relate `_last` and each row to the history of what was read. The hypothesis `~Queued` (one
  sample of a node in a batch) is what the client asks of the server; without it `NullUntilReadAgain` is false.
- Sources. `Rotating` and `Logging`: the lock is the loop's exactly from `Acquire` to `RestoreLog`, the handler's event is
  gone only then, and a thread that holds an event holds the lock. `Current`: every event is of its source's segment. For
  the rows, `Schemed`: the schemas fix the fields; `Fitting`: what a client logs, or is about to log, fits its fields;
  `Matching`: events lag behind the fields only within the rotation that brings them up. For `SegmentsContinue`, `Owned`: a
  declaration is a client's or the log's, and within what its client knows; `Present`: the current segment has every
  event its clients know, except inside the rotation that brings them up; so a new one can leave nothing behind (`Continuing`).
- Actions. What the connection keeps of the server's array (`known`, `handles`) is current while the server is the
  same (`Connections`); so a settled handle of this connection is of the server's own array (`Aimed`), and one of an earlier
  connection has no connection to be written on. What a caller is told rests on the clock: `Punctual` bounds how long a write
  can have waited at each of its requests, so that, unless it was sent, its coroutine's own timeouts end it before
  the caller's does and nothing can go out after the caller was told (`Told`). It holds while the call stays on
  the connection it began on, where the array is read at most once (`ArrayKept`).
- Discovery. `Asking` and `Batched`: what the batch has answered so far, and that exactly the nodes that are pending hold a
  continuation point; so a node browsed alone finds one free (`AloneIsServed`) and `Blamed` follows. `Sound`: what is
  found is visited, was traced and is there once; `TakeRef` keeps it (`Accumulated`), so the loops of `TakeRefs` and
  `Taken` do, by induction over the references and the batch. `FoundOrReported` needs the walk to be complete: `Covers` says
  that what waits in either queue is on a path whose nodes were all visited (`On`), what is found and what is visited was reached
  on a path (`Reaching`), and every node visited still waits or was browsed: on some path to it it failed, or each of its
  children was visited or left out there (`Done`). `Fetched` is about the pages: the references of a node that is neither failed nor
  refused are those taken in and those its continuation point still holds. When the walk ends both queues are empty, and `AllReached` follows by
  induction over the length of a path. What is described: `ReadManyIs`, that however the items are split into requests and
  whichever answers do not decode, the i-th answer is the i-th item's, by induction over the requests (`Gathers`); `PlaceIs`,
  that the values read for some of the Variables only come back in their order; `SubtypesAre`, that the levels of
  `integer_subtypes` say of a type what its own lineage does, whatever other types are asked about with it. So `Rowed`: once
  described, the rows are those of the Variables that can be read and typed, and the others are counted. For the names, `NamesDiffer`: two rows of one event that
  share their short name both get ten digits, which tell them apart from each other and from any short name. `PinsAsFile` rests on `FirstOf` (the first
  index with a URI is found by the search) and on the saved map having the same nodes (`SavedIsSame`).
- Setup. `Judged` is what `Judge` and `Open` rely on at their awaits: the endpoint was offered over `opc.tcp`, and the certificate
  shown was accepted and in its period as this connect found it; certificates are renewed and run out in between, and the trust list only grows. `Asks`: the form keeps the user's
  Advanced settings and no entry has a None the user did not give it, which `Probe` keeps by induction over the probed URLs;
  so a client without security was asked for. `ReportedFits` adds what else the form comes to (`FormFits`): an entry whose URL the last
  report vouches for leads to a server that offers the mode and policy it inherits, on some transport, or to none (`LeadsOnlyTo`, `Fits`, from `CheckFits`); and in a form the user left empty the
  entries are Auto-configure's own (`AllMade`): their names apart, since more numbers are tried than names are taken (`UniqueIs`, by the
  pigeonhole principle), their URLs free of credentials, their security complete. `ClientsFit`: the clients are the form's of the last start, and
  one refused for its server's offers is of a server without an `opc.tcp` one for it (`TurnedAway`), now as then: what `Fits` says it has is on
  another transport.

The library's induction theorems take an operator, which the provers cannot instantiate. The inductions above use
`NatSetInduction` instead, which states induction for a set and is proved from the library's well-foundedness of finite
subsets; recursive definitions that a proof opens are recursive functions, shown to exist up to each bound (`RefsExist`,
`BatchExists`, `PathsExist`, `LineagesExist`).

Only model-checked, and why:

- every liveness property: they need fairness and ENABLED;
- `ResumedIndexesCurrent` and `WritesTheNamedNode`, which are violated.

## Not modelled

- Diagnostics (`diagnostics.py`: the loop-stall watchdog and the array guard), the demo simulator and packaging: no state
  the rest depends on.
- Actions: `get_status`, the lists and `browse_children`, which only report.
- Discovery: display names, descriptions, `EURange`, the builtin types beyond two integers.
- Node map: the syntax of ids, the intervals of events, the CSV form.
- Security: key and certificate generation, the cryptography and the file formats, an ApplicationUri mismatch (which only warns).
- Codecs: a float's 53 bits, bools, strings, `render_text`.
- Auto-configuration: the sockets, the LDS and mDNS exchanges, the wording of the report.
- Configuration: reading and refusing old files, log levels, the command line.
- Session: `transport = "poll"`, request chunking, a connect cancelled by a shutdown.

asyncua, the SDK and the server are modelled only as far as the code uses them. Known to be outside the
model's reach: whether a client object that asyncua has disconnected keeps its authentication token (`TokenStays` is either), the order in which asyncua fails the requests of a
channel it closes (a Publish loop cancelled by `_detach` inside a Republish would lose the gap, because
`expected` is already past it; `Publish` lets the closed channel fail the Republish first), and sequence
numbers that wrap or restart.

## Plan

Done, in this order, the most important behaviour first: `Session` with its runs and proofs; `Delivery`,
`Publish` and the refinement; `RowLog`; `Runner`; then `Reads`, `Sources`, `Discovery` with `NodeMap`, `Actions`,
`Config` with `Setup`, `Codec`; the proofs about `Sources`, `Actions`, `Setup` and what `Session`'s server holds; then those of
`SegmentsContinue`, `ReportIsTrue`, `AsSecureAsAsked` and `ReportedFits`, the rows of `RowLog`, and the walk, its completeness and the names of `Discovery`;
last, the two invariants of `Reads` and what `Discovery` describes.

Left, to model more: the durations of the backoff in `Runner`, and losses seen by
the Publish loop during a wait; `transport = "poll"` and request chunks in `Session`; the node map's files.
