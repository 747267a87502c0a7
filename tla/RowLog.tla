------------------------------- MODULE RowLog -------------------------------
(***************************************************************************)
(* The rows of one trace event (_log_samples of client.py).  Samples come  *)
(* in batches -- a Publish message, a Republished one, a poll chunk, a     *)
(* sweep, a recreated subscription's read -- in any order of their stamps. *)
(* A batch is logged as one row per stamp, and every row carries the       *)
(* event's other fields at their last value.  A sample is reduced to what  *)
(* the rows depend on: its node, whether it decodes (_decode returns None  *)
(* for Bad, empty or undecodable), the stamp of sample_time_ns, its value. *)
(***************************************************************************)
EXTENDS Naturals, Sequences, SequencesExt, Functions, FiniteSetsExt

CONSTANTS
    Nodes,      \* the nodes mapped to the event
    Values,
    MaxStamp,   \* bound: stamps are 1 .. MaxStamp
    MaxBatch,   \* bound: samples of a batch
    Queued      \* the server revised the queue size: a node may come twice in a message

ASSUME RowLogAssumption == MaxStamp \in Nat /\ MaxBatch \in Nat /\ Queued \in BOOLEAN

VARIABLES
    last,       \* _last of the event: node -> [at, val]
    rows,       \* the rows the last call logged: stamp -> fields
    \* history
    sampled,    \* the nodes the last call had a value of
    since,      \* node -> stamp -> value: what was read since its last failure, or the session
    bad         \* the nodes whose latest sample has no value

vars == <<last, rows, sampled, since, bad>>

-----------------------------------------------------------------------------
Stamps == 1 .. MaxStamp
Nothing == [x \in {} |-> x]

Sample == [node : Nodes, ok : {TRUE}, at : Stamps, val : Values] \cup [node : Nodes, ok : {FALSE}]

\* A server with the queue size asked for (1) reports a node once.
Batches ==
    {b \in SeqOf(Sample, MaxBatch) :
        Queued \/ \A i, j \in 1 .. Len(b) : b[i].node = b[j].node => i = j}

\* f with g's values where both have one.
Over(g, f) == [x \in DOMAIN f \cup DOMAIN g |-> IF x \in DOMAIN g THEN g[x] ELSE f[x]]

\* The samples at stamp t: the fields of its row, the later sample of a node winning.
Fields(b, t) ==
    LET here(n)  == {i \in 1 .. Len(b) : b[i].node = n /\ b[i].ok /\ b[i].at = t}
    IN  [n \in {m \in Nodes : here(m) # {}} |-> b[Max(here(n))].val]

\* `last' once the nodes that failed are dropped: before any row of the batch is logged.
Kept_Failed(b) == last
Kept(b) == Restrict(last, {n \in DOMAIN last : \A i \in 1 .. Len(b) : b[i].node = n => b[i].ok})

\* A row carries what was last read as of its stamp.
Carried_Before(l, t) == [n \in {m \in DOMAIN l : l[m].at < t} |-> l[n].val]
Carried_Always(l, t) == [n \in DOMAIN l |-> l[n].val]
Carried(l, t) == [n \in {m \in DOMAIN l : l[m].at <= t} |-> l[n].val]

\* A sample replaces an older one, or one of the same stamp.
Update(l, fields, t) ==
    Over([n \in {m \in DOMAIN fields : m \notin DOMAIN l \/ l[m].at <= t}
             |-> [at |-> t, val |-> fields[n]]], l)

\* The stamps of a batch's rows, and `last' once those up to each stamp are logged, in order.
RowStamps(b) == {b[i].at : i \in {j \in 1 .. Len(b) : b[j].ok}}
After(b) ==
    LET after[t \in 0 .. MaxStamp] ==
            IF t = 0 THEN Kept(b) ELSE Update(after[t - 1], Fields(b, t), t)
    IN  after

\* What has been read of a node since its last failure, after the batch.
History(b, n) ==
    LET own     == {i \in 1 .. Len(b) : b[i].node = n}
        after   == {i \in own : \A j \in own : j >= i => b[j].ok}
        here(t) == {i \in after : b[i].at = t}
        old     == IF after = own THEN DOMAIN since[n] ELSE {}
    IN  [t \in old \cup {b[i].at : i \in after} |->
            IF here(t) = {} THEN since[n][t] ELSE b[Max(here(t))].val]

Failed(b, n) ==
    LET own == {i \in 1 .. Len(b) : b[i].node = n}
    IN  IF own = {} THEN n \in bad ELSE ~b[Max(own)].ok

-----------------------------------------------------------------------------
Init ==
    /\ last = Nothing /\ rows = Nothing /\ sampled = {}
    /\ since = [n \in Nodes |-> Nothing] /\ bad = {}

\* The rows are logged in the order of their stamps: each carries `last', then updates it.
LogSamples(b) ==
    /\ rows' = [t \in RowStamps(b) |-> Over(Fields(b, t), Carried(After(b)[t - 1], t))]
    /\ last' = After(b)[MaxStamp]
    /\ sampled' = {b[i].node : i \in {j \in 1 .. Len(b) : b[j].ok}}
    /\ since' = [n \in Nodes |-> History(b, n)]
    /\ bad' = {n \in Nodes : Failed(b, n)}

\* connect(): a new session's values start unknown.
NewSession ==
    /\ last' = Nothing
    /\ rows' = Nothing /\ sampled' = {} /\ since' = [n \in Nodes |-> Nothing] /\ bad' = {}

\* _resolve_nodes: a node no longer mapped stops riding its event's rows.
Unmap(n) ==
    /\ last' = Restrict(last, DOMAIN last \ {n})
    /\ rows' = Nothing /\ sampled' = {} /\ since' = [since EXCEPT ![n] = Nothing]
    /\ bad' = bad \ {n}

Next == (\E b \in Batches : LogSamples(b)) \/ NewSession \/ (\E n \in Nodes : Unmap(n))

Spec == Init /\ [][Next]_vars

-----------------------------------------------------------------------------
(* Properties *)

\* A row holds what was true at its stamp: each field is the newest value read so far with a
\* stamp not after the row's, never a later one -- however the batches, Republished or swept,
\* came out of order -- and never one from before a failure or an earlier session.
RowsAsOf ==
    \A t \in DOMAIN rows : \A n \in DOMAIN rows[t] :
        LET known == {s \in DOMAIN since[n] : s <= t}
        IN  known # {} /\ rows[t][n] = since[n][Max(known)]

\* Every row carries every field: one read at or before the row's stamp, and not since at a
\* later one, is in it, whichever batch read it.
EveryFieldCarried ==
    \A t \in DOMAIN rows : \A n \in Nodes :
        DOMAIN since[n] # {} /\ Max(DOMAIN since[n]) <= t => n \in DOMAIN rows[t]

\* _log_samples' docstring: a node Bad, empty or undecodable leaves its field null until it
\* reads again, so a call without a value of it logs no row with its field.
NullUntilReadAgain ==
    [][\A t \in DOMAIN rows' : DOMAIN rows'[t] \cap bad \subseteq sampled']_vars
=============================================================================
