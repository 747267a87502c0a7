-------------------------------- MODULE Reads --------------------------------
(***************************************************************************)
(* The periodic requests of one connection of client.py: _schedule's jobs, *)
(* which the run loop takes one at a time, the earliest due first; the     *)
(* staleness sweep, which re-reads the subscribed items that have been     *)
(* silent, in the order of _stale; and _poll_everything, which a Publish   *)
(* that cannot be decoded runs at any await of the others.                 *)
(*                                                                         *)
(* Time is relative: `wait' of a job is its due date less now, `age' of an *)
(* item how long ago it was last updated.  A read that loses the link ends *)
(* the connection, which is Session's, as are the _watch job and its       *)
(* recreation (here a touch of its items, as by Deliver); what the samples *)
(* read do to the trace is RowLog's.  No name here is one of Runner's.     *)
(***************************************************************************)
EXTENDS Integers, FiniteSets, Sequences, Functions

CONSTANTS
    Items,          \* handles of _poll_targets, numbered in its order
    Subscribed,     \* those _start_transport subscribed; it polls the others
    ReadChunk,      \* _read_chunk: targets one Read may name
    PollInterval,   \* poll_interval: the period of _poll_health
    Interval,       \* the sampling interval of the polled group
    StaleAfter,     \* _stale_after
    SweepSteps,     \* SWEEP_STEPS
    Longest,        \* bound: ticks a job's requests take in all
    MaxFailedReads, \* bound: reads that fail without losing the link
    Horizon         \* bound: ages and delays are told apart up to it

ASSUME ReadsAssumption ==
    /\ Items \subseteq Nat \ {0} /\ IsFiniteSet(Items) /\ Subscribed \subseteq Items
    /\ {ReadChunk, PollInterval, Interval, StaleAfter, SweepSteps} \subseteq Nat \ {0}
    /\ {Longest, MaxFailedReads, Horizon} \subseteq Nat

VARIABLES
    monitored,      \* _monitored
    stale,          \* _stale: its handles, least recently updated first
    age,            \* since the last update of an item: _stale's times, for the polled too
    jobs,           \* _jobs
    job,            \* the job the run loop waits for or runs
    listed,         \* its place in _jobs, 0 once _poll_everything replaced them
    wanted,         \* the targets of the Read under way, <<>> while the loop waits
    reading,        \* a job's requests are under way
    spent,          \* ticks they have taken
    dropped,        \* targets a job gave up as undecodable
    failedReads

schedule == <<jobs, job, listed>>
request  == <<wanted, reading, spent>>
readsVars == <<monitored, stale, age, schedule, request, dropped, failedReads>>

-----------------------------------------------------------------------------
Least(a, b) == IF a < b THEN a ELSE b
Most(a, b)  == IF a < b THEN b ELSE a
CeilDiv(n, d) == (n + d - 1) \div d

\* The members of a set of naturals in increasing order, and those of a sequence in its own.
Sorted(T) == CHOOSE s \in [1..Cardinality(T) -> T] : \A i, j \in DOMAIN s : i < j => s[i] < s[j]
Kept(s, T) ==
    LET at == Sorted({i \in DOMAIN s : s[i] \in T})
    IN  [n \in DOMAIN at |-> s[at[n]]]

Chunks(T) == [i \in 1..CeilDiv(Cardinality(T), ReadChunk) |->
                 SubSeq(Sorted(T), (i - 1) * ReadChunk + 1, Least(i * ReadChunk, Cardinality(T)))]

\* _schedule: the sweep's period, for m monitored items.
SweepPeriod(m) == Most(1, StaleAfter \div Most(SweepSteps, CeilDiv(m, ReadChunk)))

Job(kind, targets, wait, period) ==
    [kind |-> kind, targets |-> targets, wait |-> wait, period |-> period]

Schedule(polled, m) ==
    LET chunks == Chunks(polled)
        apart  == Interval \div Most(1, Len(chunks))
    IN  <<Job("health", <<>>, 0, PollInterval)>>
        \o [i \in 1..Len(chunks) |-> Job("chunk", chunks[i], (i - 1) * apart, Interval)]
        \o IF m = {} THEN <<>>
           ELSE <<Job("sweep", <<>>, SweepPeriod(Cardinality(m)), SweepPeriod(Cardinality(m)))>>

\* min() of the jobs by due date: the first of them in a tie.
Earliest(js) == CHOOSE i \in DOMAIN js : \A j \in DOMAIN js :
    js[i].wait < js[j].wait \/ (js[i].wait = js[j].wait /\ i <= j)

\* The loop comes round and picks its next job.
Turn(js) == jobs' = js /\ listed' = Earliest(js) /\ job' = js[Earliest(js)]

\* Updated now: age 0 and moved to the end of _stale.
Touched_InPlace(hs) ==
    /\ stale' = stale
    /\ age' = [i \in Items |-> IF i \in Range(hs) THEN 0 ELSE age[i]]
Touched(hs) ==
    /\ stale' = Kept(stale, Items \ Range(hs)) \o hs
    /\ age' = [i \in Items |-> IF i \in Range(hs) THEN 0 ELSE age[i]]

ReadFault == failedReads < MaxFailedReads /\ failedReads' = failedReads + 1

ReadsInit ==
    /\ monitored = Subscribed /\ stale = Sorted(Subscribed) /\ age = [i \in Items |-> 0]
    /\ jobs = Schedule(Items \ Subscribed, Subscribed)
    /\ listed = 1 /\ job = jobs[1]
    /\ wanted = <<>> /\ reading = FALSE /\ spent = 0 /\ dropped = {} /\ failedReads = 0

-----------------------------------------------------------------------------
(* The run loop *)

\* _sweep: the silent items are the front run of _stale, one Read of them at most.
Silent(h) == age[h] >= StaleAfter
SilentFront ==
    LET front == CHOOSE n \in 0..Len(stale) :
            /\ \A i \in 1..n : Silent(stale[i])
            /\ n = Len(stale) \/ ~Silent(stale[n + 1])
    IN  SubSeq(stale, 1, Least(front, ReadChunk))

\* Behind schedule, the next run starts from now.
Again_NotMovedOn(j) == [j EXCEPT !.wait = Most(@, 0)]
Again(j) == [j EXCEPT !.wait = Most(@ + j.period, 0)]

Rescheduled == [i \in DOMAIN jobs |-> IF i = listed THEN Again(jobs[i]) ELSE jobs[i]]

\* The job's wait is over: it sends its Read, or has nothing to read.
RunJob ==
    /\ ~reading /\ job.wait <= 0
    /\ LET targets == CASE job.kind = "sweep" -> SilentFront [] OTHER -> job.targets
       IN  IF targets = <<>> /\ job.kind # "health"
           THEN Turn(Rescheduled) /\ UNCHANGED request
           ELSE /\ jobs' = Rescheduled /\ job' = Again(job) /\ UNCHANGED listed
                /\ wanted' = targets /\ reading' = TRUE /\ spent' = 0
    /\ UNCHANGED <<monitored, stale, age, dropped, failedReads>>

Finished == wanted' = <<>> /\ reading' = FALSE /\ spent' = 0

HealthRead ==
    /\ reading /\ job.kind = "health"
    /\ Turn(jobs) /\ Finished /\ UNCHANGED <<monitored, stale, age, dropped, failedReads>>

\* _poll_chunk, _read_targets: what cannot be decoded leaves the chunk for good.
ChunkRead ==
    /\ reading /\ job.kind = "chunk"
    /\ \E bad \in SUBSET Range(wanted) :
        /\ Turn([i \in DOMAIN jobs |-> IF i # listed THEN jobs[i]
                ELSE [jobs[i] EXCEPT !.targets = Kept(@, Items \ bad)]])
        /\ dropped' = dropped \cup (IF listed = 0 THEN {} ELSE bad)
    /\ age' = [i \in Items |-> IF i \in Range(wanted) THEN 0 ELSE age[i]]
    /\ Finished /\ UNCHANGED <<monitored, stale, failedReads>>

\* _sweep: every item it read is up to date, unless all moved to polling meanwhile.
StillStale_All == wanted
StillStale == Kept(wanted, Range(stale))
SweepRead ==
    /\ reading /\ job.kind = "sweep"
    /\ Touched(StillStale)
    /\ Turn(jobs) /\ Finished /\ UNCHANGED <<monitored, dropped, failedReads>>

\* The Read fails otherwise than by the link: the job is over and nothing is updated.
ReadFails ==
    /\ reading /\ ReadFault
    /\ Turn(jobs) /\ Finished /\ UNCHANGED <<monitored, stale, age, dropped>>

-----------------------------------------------------------------------------
(* asyncua's Publish loop, between any two steps of the run loop *)

Deliver ==
    /\ \E h \in monitored : age[h] > 0 /\ Touched(<<h>>)
    /\ UNCHANGED <<monitored, schedule, request, dropped, failedReads>>

\* The run loop keeps the job it waits for or runs, which is no longer of _jobs.
PollEverything ==
    /\ monitored # {}
    /\ monitored' = {} /\ stale' = <<>>
    /\ jobs' = Schedule(Items, {}) /\ listed' = 0 /\ dropped' = {}
    /\ UNCHANGED <<age, job, request, failedReads>>

-----------------------------------------------------------------------------
\* A tick passes while the loop waits for a job to be due, or for an answer.
Sooner(j) == [j EXCEPT !.wait = Most(@ - 1, -Horizon)]
Tick ==
    /\ IF reading THEN spent < Longest /\ spent' = spent + 1 ELSE job.wait > 0 /\ spent' = spent
    /\ jobs' = [i \in DOMAIN jobs |-> Sooner(jobs[i])] /\ job' = Sooner(job)
    /\ age' = [i \in Items |-> IF i \in dropped THEN 0 ELSE Least(age[i] + 1, IF i \in monitored THEN Horizon ELSE 1)]
    /\ UNCHANGED <<monitored, stale, listed, wanted, reading, dropped, failedReads>>

RunLoop == RunJob \/ HealthRead \/ ChunkRead \/ SweepRead \/ ReadFails
ReadsNext == RunLoop \/ Deliver \/ PollEverything \/ Tick

ReadsSpec == ReadsInit /\ [][ReadsNext]_readsVars

\* The loop's task is scheduled, a request is answered, and time passes.
FairReadsSpec == ReadsSpec /\ WF_readsVars(RunLoop) /\ WF_readsVars(Tick)

-----------------------------------------------------------------------------
\* Every item is sampled in exactly one way: monitored, and then in _stale once, or in one
\* chunk of the jobs, unless a job gave it up.  Holds across _poll_everything in the middle
\* of a sweep, whose answer must not put its handles back.
Polled == {i \in DOMAIN jobs : jobs[i].kind = "chunk"}
SampledOneWay ==
    /\ Range(stale) = monitored /\ Len(stale) = Cardinality(monitored)
    /\ \A i \in Items :
        Cardinality({k \in Polled : i \in Range(jobs[k].targets)})
            = IF i \in monitored \cup dropped THEN 0 ELSE 1
    /\ \A k \in DOMAIN jobs : jobs[k].kind = "sweep" => monitored # {}

\* A subscribed item is refreshed in time: once silent for StaleAfter it waits for no more
\* sweeps than there are chunks, each a period and one run of every job after the last, and
\* for its own Read.  It needs _stale to be in the order of the updates, whoever made them.
Delay == SweepPeriod(Cardinality(Subscribed)) + Len(jobs) * Longest
RefreshedInTime ==
    \A h \in monitored :
        age[h] <= StaleAfter + (CeilDiv(Cardinality(Subscribed), ReadChunk) + failedReads) * Delay + Longest

\* The bound the comment on SWEEP_STEPS gives.
RefreshedWithinAStep ==
    \A h \in monitored : age[h] <= StaleAfter + StaleAfter \div SweepSteps + Longest

\* No job starves another, however far the requests fall behind the periods: every item is
\* updated again and again, or was given up.
KeepsReading == \A i \in Items : []<>(age[i] = 0)
=============================================================================
