---------------------------- MODULE RowLogProofs ----------------------------
(***************************************************************************)
(* Every row of an event holds exactly what was known as of its stamp, for *)
(* any nodes, values, stamps and batches of a server that queues one sample *)
(* of a node.  A batch is a loop over its stamps, so the proof is by        *)
(* induction over them.                                                    *)
(***************************************************************************)
EXTENDS RowLog, WellFoundedInduction, FiniteSetTheorems, TLAPS

\* The stamps at which a node was read since its last failure.
Read(n) == DOMAIN since[n]

\* `last' is the newest of what was read of the node, whatever the order it came in, and nothing
\* of a node that failed.
NodeNewest(n) ==
    /\ Read(n) \subseteq Stamps
    /\ n \in DOMAIN last <=> Read(n) # {}
    /\ n \in DOMAIN last => /\ last[n].at \in Read(n) /\ last[n].val = since[n][last[n].at]
                            /\ \A s \in Read(n) : s <= last[n].at

\* A row's field is the newest as of the row's stamp, and the newest of all is in it if it can be.
NodeRows(n) ==
    \A t \in DOMAIN rows :
        /\ n \in DOMAIN rows[t] => \E m \in Read(n) :
              /\ m <= t /\ \A s \in Read(n) : s <= t => s <= m
              /\ rows[t][n] = since[n][m]
        /\ n \in DOMAIN last /\ last[n].at <= t => n \in DOMAIN rows[t]

Within == DOMAIN last \subseteq Nodes /\ DOMAIN since = Nodes /\ \A t \in DOMAIN rows : DOMAIN rows[t] \subseteq Nodes
Unread == \A n \in bad : n \notin DOMAIN last

Inv == Within /\ Unread /\ \A n \in Nodes : NodeNewest(n) /\ NodeRows(n)

-----------------------------------------------------------------------------
(* Induction over the naturals *)

LEMMA SmallestSet ==
    ASSUME NEW S, NEW F, F \subseteq FiniteSubsetsOf(S), F # {}
    PROVE  \E A \in F : \A B \in F : B \subseteq A => B = A
<1> DEFINE R == StrictSubsetOrdering(S)
<1>1. IsWellFoundedOn(R, FiniteSubsetsOf(S))
  BY FS_StrictSubsetOrderingWellFounded
<1>2. PICK A \in F : \A B \in F : ~(<<B, A>> \in R)
  <2> HIDE DEF R
  <2> QED
    BY <1>1, WFMin
<1>3. \A B \in F : B \subseteq A => B = A
  BY <1>2 DEF StrictSubsetOrdering, FiniteSubsetsOf
<1> QED
  BY <1>3

\* A set that has 0 and the successors of its members has every natural number.
LEMMA NatSetInduction ==
    ASSUME NEW S, 0 \in S, \A n \in Nat : n \in S => n + 1 \in S
    PROVE  \A n \in Nat : n \in S
<1> DEFINE T == Nat \ S
           F == {0 .. n : n \in T}
<1> SUFFICES ASSUME T # {} PROVE FALSE
  OBVIOUS
<1>1. \A n \in T : n \in Nat /\ (0 .. n) \subseteq Nat /\ IsFiniteSet(0 .. n)
  BY FS_Interval
<1>2. F \subseteq FiniteSubsetsOf(Nat) /\ F # {}
  BY <1>1 DEF FiniteSubsetsOf
<1>3. PICK A \in F : \A B \in F : B \subseteq A => B = A
  <2> HIDE DEF F
  <2> QED
    BY <1>2, SmallestSet
<1>4. PICK m \in T : A = 0 .. m
  OBVIOUS
<1>5. m # 0 /\ m \in Nat
  OBVIOUS
<1>6. m - 1 \in Nat /\ m = (m - 1) + 1
  BY <1>5
<1>7. m - 1 \notin T
  <2> SUFFICES ASSUME m - 1 \in T PROVE FALSE
    OBVIOUS
  <2>1. 0 .. (m - 1) \in F /\ 0 .. (m - 1) \subseteq 0 .. m /\ m \in 0 .. m /\ m \notin 0 .. (m - 1)
    BY <1>5
  <2> QED
    BY <1>3, <1>4, <2>1
<1> QED
  BY <1>5, <1>6, <1>7

-----------------------------------------------------------------------------
(* What the loop over a batch's stamps leaves in `last' *)

LoopUpTo(b, n, f) ==
    f = [t \in 0 .. n |-> IF t = 0 THEN Kept(b) ELSE Update(f[t - 1], Fields(b, t), t)]

LEMMA LoopExists == ASSUME NEW b PROVE \A n \in Nat : \E f : LoopUpTo(b, n, f)
<1> DEFINE S == {n \in Nat : \E f : LoopUpTo(b, n, f)}
<1>1. 0 \in S
  <2>1. PICK f : f = [t \in 0 .. 0 |-> Kept(b)]
    OBVIOUS
  <2>2. f = [t \in 0 .. 0 |-> IF t = 0 THEN Kept(b) ELSE Update(f[t - 1], Fields(b, t), t)]
    BY <2>1
  <2> QED
    BY <2>2 DEF LoopUpTo
<1>2. ASSUME NEW n \in Nat, n \in S PROVE n + 1 \in S
  <2>1. PICK f : LoopUpTo(b, n, f)
    BY <1>2
  <2>2. PICK g : g = [t \in 0 .. (n + 1) |-> IF t = n + 1 THEN Update(f[n], Fields(b, n + 1), n + 1) ELSE f[t]]
    OBVIOUS
  <2>3. \A t \in 0 .. n : f[t] = IF t = 0 THEN Kept(b) ELSE Update(f[t - 1], Fields(b, t), t)
    BY <2>1 DEF LoopUpTo
  <2>4. ASSUME NEW t \in 0 .. (n + 1)
        PROVE  g[t] = IF t = 0 THEN Kept(b) ELSE Update(g[t - 1], Fields(b, t), t)
    <3>1. CASE t = 0
      BY <2>2, <2>3, <3>1
    <3>2. CASE t # 0 /\ t \in 0 .. n
      <4>1. t - 1 \in 0 .. n /\ g[t - 1] = f[t - 1] /\ g[t] = f[t]
        BY <2>2, <3>2
      <4> QED
        BY <2>3, <3>2, <4>1
    <3>3. CASE t = n + 1
      <4>1. t # 0 /\ t - 1 = n /\ g[t] = Update(f[n], Fields(b, n + 1), n + 1) /\ g[n] = f[n]
        BY <2>2, <3>3
      <4> QED
        BY <3>3, <4>1
    <3> QED
      BY <3>1, <3>2, <3>3
  <2>5. g = [t \in 0 .. (n + 1) |-> IF t = 0 THEN Kept(b) ELSE Update(g[t - 1], Fields(b, t), t)]
    BY <2>2, <2>4
  <2> QED
    BY <2>5 DEF LoopUpTo
<1> HIDE DEF S
<1>3. \A n \in Nat : n \in S
  BY <1>1, <1>2, NatSetInduction
<1> QED
  BY <1>3 DEF S

LEMMA AfterIs ==
    ASSUME NEW b
    PROVE  /\ After(b)[0] = Kept(b)
           /\ \A t \in 1 .. MaxStamp : After(b)[t] = Update(After(b)[t - 1], Fields(b, t), t)
<1> DEFINE f == CHOOSE f : LoopUpTo(b, MaxStamp, f)
<1>1. MaxStamp \in Nat
  BY RowLogAssumption DEF RowLogAssumption
<1>2. LoopUpTo(b, MaxStamp, f)
  BY <1>1, LoopExists
<1>3. After(b) = f
  BY DEF After, LoopUpTo
<1> HIDE DEF f
<1>4. f[0] = Kept(b) /\ \A t \in 1 .. MaxStamp : f[t] = Update(f[t - 1], Fields(b, t), t)
  BY <1>1, <1>2 DEF LoopUpTo
<1> QED
  BY <1>3, <1>4

\* A batch has at most one sample of a node.
LEMMA BatchIs ==
    ASSUME ~Queued, NEW b \in Batches
    PROVE  /\ Len(b) \in Nat
           /\ \A i \in 1 .. Len(b) : /\ b[i].node \in Nodes /\ b[i].ok \in BOOLEAN
                                     /\ b[i].ok => b[i].at \in Stamps
           /\ \A i, j \in 1 .. Len(b) : b[i].node = b[j].node => i = j
<1>1. PICK m \in 0 .. MaxBatch : b \in [1 .. m -> Sample]
  BY DEF Batches, SeqOf
<1>2. m \in Nat /\ Len(b) = m
  BY <1>1, RowLogAssumption DEF RowLogAssumption
<1>3. \A i \in 1 .. Len(b) : b[i] \in Sample
  BY <1>1, <1>2
<1>4. ASSUME NEW i \in 1 .. Len(b)
      PROVE  b[i].node \in Nodes /\ b[i].ok \in BOOLEAN /\ (b[i].ok => b[i].at \in Stamps)
  BY <1>3, <1>4 DEF Sample
<1> QED
  BY <1>2, <1>4 DEF Batches

LEMMA FieldsAre ==
    ASSUME ~Queued, NEW b \in Batches, NEW t
    PROVE  /\ \A n \in DOMAIN Fields(b, t) : \E i \in 1 .. Len(b) : b[i].node = n /\ b[i].ok /\ b[i].at = t
           /\ \A i \in 1 .. Len(b) : b[i].ok /\ b[i].at = t =>
                  b[i].node \in DOMAIN Fields(b, t) /\ Fields(b, t)[b[i].node] = b[i].val
<1> DEFINE here(n) == {i \in 1 .. Len(b) : b[i].node = n /\ b[i].ok /\ b[i].at = t}
<1>1. Fields(b, t) = [n \in {m \in Nodes : here(m) # {}} |-> b[Max(here(n))].val]
  BY DEF Fields
<1>2. \A n \in DOMAIN Fields(b, t) : \E i \in 1 .. Len(b) : b[i].node = n /\ b[i].ok /\ b[i].at = t
  BY <1>1
<1>3. ASSUME NEW i \in 1 .. Len(b), b[i].ok, b[i].at = t
      PROVE  b[i].node \in DOMAIN Fields(b, t) /\ Fields(b, t)[b[i].node] = b[i].val
  <2>1. here(b[i].node) = {i} /\ b[i].node \in Nodes
    BY <1>3, BatchIs
  <2>2. Max({i}) = i
    BY DEF Max
  <2> HIDE DEF here
  <2> QED
    BY <1>1, <2>1, <2>2
<1> QED
  BY <1>2, <1>3

\* No row up to t has the node; the sample of a node, once its row is logged, unless `last' has
\* a newer one.
Untouched(b, n, t) == \A i \in 1 .. Len(b) : b[i].node = n /\ b[i].ok => ~(b[i].at <= t)
Merged(b, n, i) ==
    IF n \in DOMAIN Kept(b) /\ ~(Kept(b)[n].at <= b[i].at) THEN Kept(b)[n]
    ELSE [at |-> b[i].at, val |-> b[i].val]
AfterHas(b, n, t) ==
    /\ Untouched(b, n, t) =>
        /\ n \in DOMAIN After(b)[t] <=> n \in DOMAIN Kept(b)
        /\ n \in DOMAIN Kept(b) => After(b)[t][n] = Kept(b)[n]
    /\ \A i \in 1 .. Len(b) : b[i].node = n /\ b[i].ok /\ b[i].at <= t =>
        n \in DOMAIN After(b)[t] /\ After(b)[t][n] = Merged(b, n, i)

LEMMA AfterRows ==
    ASSUME ~Queued, NEW b \in Batches, NEW n
    PROVE  \A t \in 0 .. MaxStamp : AfterHas(b, n, t)
<1> DEFINE S == {t \in Nat : t <= MaxStamp => AfterHas(b, n, t)}
<1>0. MaxStamp \in Nat
  BY RowLogAssumption DEF RowLogAssumption
<1>1. 0 \in S
  <2>1. After(b)[0] = Kept(b)
    BY AfterIs
  <2>2. \A i \in 1 .. Len(b) : b[i].ok => ~(b[i].at <= 0)
    BY <1>0, BatchIs DEF Stamps
  <2> QED
    BY <2>1, <2>2 DEF AfterHas
<1>2. ASSUME NEW t \in Nat, t \in S PROVE t + 1 \in S
  <2> SUFFICES ASSUME t + 1 <= MaxStamp PROVE AfterHas(b, n, t + 1)
    OBVIOUS
  <2>1. PICK u \in Nat : u = t + 1
    OBVIOUS
  <2>2. AfterHas(b, n, t) /\ u \in 1 .. MaxStamp /\ u - 1 = t
    BY <1>0, <1>2, <2>1
  <2>3. PICK l : l = After(b)[t]
    OBVIOUS
  <2>4. PICK fs : fs = Fields(b, u)
    OBVIOUS
  <2>5. PICK a : a = After(b)[u] /\ a = Update(l, fs, u)
    BY <2>2, <2>3, <2>4, AfterIs
  <2>11. /\ DOMAIN a = DOMAIN l \cup DOMAIN fs
         /\ \A m \in DOMAIN fs : m \notin DOMAIN l \/ l[m].at <= u => a[m] = [at |-> u, val |-> fs[m]]
         /\ \A m \in DOMAIN l : m \notin DOMAIN fs \/ ~(l[m].at <= u) => a[m] = l[m]
    <3>1. PICK g : g = [m \in {x \in DOMAIN fs : x \notin DOMAIN l \/ l[x].at <= u} |-> [at |-> u, val |-> fs[m]]]
      OBVIOUS
    <3>2. a = Over(g, l)
      BY <2>5, <3>1 DEF Update
    <3> QED
      BY <3>1, <3>2 DEF Over
  <2>6. \A i \in 1 .. Len(b) : b[i].ok => b[i].at \in Nat
    BY <1>0, BatchIs DEF Stamps
  <2>7. \A i, j \in 1 .. Len(b) : b[i].node = b[j].node => i = j
    BY BatchIs
  <2>8. /\ \A m \in DOMAIN fs : \E i \in 1 .. Len(b) : b[i].node = m /\ b[i].ok /\ b[i].at = u
        /\ \A i \in 1 .. Len(b) : b[i].ok /\ b[i].at = u => b[i].node \in DOMAIN fs /\ fs[b[i].node] = b[i].val
    BY <2>4, FieldsAre
  <2>9. CASE n \notin DOMAIN fs
    <3>1. /\ n \in DOMAIN After(b)[u] <=> n \in DOMAIN l
          /\ n \in DOMAIN l => After(b)[u][n] = l[n]
      BY <2>5, <2>9, <2>11
    <3>2. \A i \in 1 .. Len(b) : b[i].node = n /\ b[i].ok => (b[i].at <= u <=> b[i].at <= t)
      <4> SUFFICES ASSUME NEW i \in 1 .. Len(b), b[i].node = n, b[i].ok PROVE b[i].at <= u <=> b[i].at <= t
        OBVIOUS
      <4>1. PICK s \in Nat : s = b[i].at
        BY <2>6
      <4>2. s # u
        BY <2>8, <2>9, <4>1
      <4>3. s <= u <=> s <= t
        BY <2>1, <4>2
      <4> QED
        BY <4>1, <4>3
    <3> QED
      BY <2>1, <2>2, <2>3, <3>1, <3>2 DEF AfterHas, Untouched
  <2>10. CASE n \in DOMAIN fs
    <3>1. PICK i \in 1 .. Len(b) : b[i].node = n /\ b[i].ok /\ b[i].at = u
      BY <2>8, <2>10
    <3>2. fs[n] = b[i].val /\ \A j \in 1 .. Len(b) : b[j].node = n => j = i
      BY <2>7, <2>8, <3>1
    <3>3. ~(u <= t) /\ u <= u
      BY <2>1
    <3>4. Untouched(b, n, t) /\ ~Untouched(b, n, u)
      BY <3>1, <3>2, <3>3 DEF Untouched
    <3>5. /\ n \in DOMAIN l <=> n \in DOMAIN Kept(b)
          /\ n \in DOMAIN Kept(b) => l[n] = Kept(b)[n]
      BY <2>2, <2>3, <3>4 DEF AfterHas
    <3>6. n \in DOMAIN After(b)[u]
      BY <2>5, <2>10, <2>11
    <3>7. After(b)[u][n] = Merged(b, n, i)
      <4>1. CASE n \in DOMAIN Kept(b) /\ ~(Kept(b)[n].at <= u)
        BY <2>5, <2>11, <3>1, <3>5, <4>1 DEF Merged
      <4>2. CASE ~(n \in DOMAIN Kept(b) /\ ~(Kept(b)[n].at <= u))
        BY <2>5, <2>10, <2>11, <3>1, <3>2, <3>5, <4>2 DEF Merged
      <4> QED
        BY <4>1, <4>2
    <3> QED
      BY <2>1, <3>2, <3>4, <3>6, <3>7 DEF AfterHas
  <2> QED
    BY <2>9, <2>10
<1> HIDE DEF S
<1>3. \A t \in Nat : t \in S
  BY <1>1, <1>2, NatSetInduction
<1> QED
  BY <1>0, <1>3 DEF S

-----------------------------------------------------------------------------
(* What a batch makes of one node *)

\* The batch has no value of the node; the i-th sample is its value.
Quiet(b, n) == \A i \in 1 .. Len(b) : b[i].node = n => ~b[i].ok
ValueOf(b, n, i) == b[i].node = n /\ b[i].ok

LEMMA KeptIs ==
    ASSUME NEW b
    PROVE  /\ DOMAIN Kept(b) = {n \in DOMAIN last : \A i \in 1 .. Len(b) : b[i].node = n => b[i].ok}
           /\ \A n \in DOMAIN Kept(b) : Kept(b)[n] = last[n]
  BY DEF Kept, Restrict

HistoryHolds(b, n, h) ==
    /\ (\A i \in 1 .. Len(b) : b[i].node # n) =>
          DOMAIN h = Read(n) /\ \A s \in Read(n) : h[s] = since[n][s]
    /\ \A i \in 1 .. Len(b) : b[i].node = n /\ ~b[i].ok => DOMAIN h = {}
    /\ \A i \in 1 .. Len(b) : ValueOf(b, n, i) =>
          /\ DOMAIN h = Read(n) \cup {b[i].at} /\ h[b[i].at] = b[i].val
          /\ \A s \in Read(n) \ {b[i].at} : h[s] = since[n][s]

LEMMA HistoryIs ==
    ASSUME ~Queued, NEW b \in Batches, NEW n \in Nodes
    PROVE  HistoryHolds(b, n, History(b, n))
<1> DEFINE own == {i \in 1 .. Len(b) : b[i].node = n}
           after == {i \in own : \A j \in own : j >= i => b[j].ok}
           here(t) == {i \in after : b[i].at = t}
           old == IF after = own THEN Read(n) ELSE {}
<1>1. History(b, n) = [t \in old \cup {b[i].at : i \in after} |->
                          IF here(t) = {} THEN since[n][t] ELSE b[Max(here(t))].val]
  BY DEF History, Read
<1>2. Len(b) \in Nat /\ \A i, j \in 1 .. Len(b) : b[i].node = b[j].node => i = j
  BY BatchIs
<1>3. ASSUME \A i \in 1 .. Len(b) : b[i].node # n
      PROVE  DOMAIN History(b, n) = Read(n) /\ \A s \in Read(n) : History(b, n)[s] = since[n][s]
  <2>1. own = {} /\ after = {} /\ \A t : here(t) = {}
    BY <1>3
  <2> HIDE DEF own, after, here
  <2> QED
    BY <1>1, <2>1
<1>4. ASSUME NEW i \in 1 .. Len(b), b[i].node = n, ~b[i].ok PROVE DOMAIN History(b, n) = {}
  <2>1. own = {i}
    BY <1>2, <1>4
  <2>2. after = {}
    BY <1>4, <2>1
  <2> HIDE DEF own, after, here
  <2> QED
    BY <1>1, <2>1, <2>2
<1>5. ASSUME NEW i \in 1 .. Len(b), ValueOf(b, n, i)
      PROVE  /\ DOMAIN History(b, n) = Read(n) \cup {b[i].at} /\ History(b, n)[b[i].at] = b[i].val
             /\ \A s \in Read(n) \ {b[i].at} : History(b, n)[s] = since[n][s]
  <2>1. own = {i}
    BY <1>2, <1>5 DEF ValueOf
  <2>2. after = {i}
    BY <1>5, <2>1 DEF ValueOf
  <2>3. here(b[i].at) = {i} /\ \A s : s # b[i].at => here(s) = {}
    BY <2>2
  <2>4. Max({i}) = i
    BY DEF Max
  <2>5. old = Read(n) /\ {b[j].at : j \in after} = {b[i].at}
    BY <2>1, <2>2
  <2> HIDE DEF own, after, here, old
  <2>6. DOMAIN History(b, n) = Read(n) \cup {b[i].at}
    BY <1>1, <2>5
  <2>7. \A s \in DOMAIN History(b, n) : History(b, n)[s] = IF here(s) = {} THEN since[n][s] ELSE b[Max(here(s))].val
    BY <1>1
  <2>8. History(b, n)[b[i].at] = b[i].val
    BY <2>3, <2>4, <2>6, <2>7
  <2> QED
    BY <2>3, <2>6, <2>7, <2>8
<1> QED
  BY <1>3, <1>4, <1>5 DEF HistoryHolds

\* A row has the node's own value, or the newest of before if that is not after its stamp.
RowHolds(b, n, t, row) ==
    /\ Quiet(b, n) \/ (\E i \in 1 .. Len(b) : ValueOf(b, n, i) /\ t < b[i].at) =>
          /\ n \in DOMAIN row <=> n \in DOMAIN Kept(b) /\ Kept(b)[n].at <= t
          /\ n \in DOMAIN row => row[n] = Kept(b)[n].val
    /\ \A i \in 1 .. Len(b) : ValueOf(b, n, i) /\ b[i].at = t => n \in DOMAIN row /\ row[n] = b[i].val
    /\ \A i \in 1 .. Len(b) : ValueOf(b, n, i) /\ b[i].at < t =>
          /\ n \in DOMAIN row <=> Merged(b, n, i).at <= t
          /\ n \in DOMAIN row => row[n] = Merged(b, n, i).val

LEMMA RowIs ==
    ASSUME ~Queued, NEW b \in Batches, NEW n, NEW t \in Stamps, NEW row,
           row = Over(Fields(b, t), Carried(After(b)[t - 1], t))
    PROVE  RowHolds(b, n, t, row)
<1>1. PICK u \in 0 .. MaxStamp : u = t - 1 /\ u + 1 = t /\ u \in Nat /\ t \in Nat
  BY RowLogAssumption DEF RowLogAssumption, Stamps
<1>2. PICK l : l = After(b)[u]
  OBVIOUS
<1>3. PICK fs : fs = Fields(b, t)
  OBVIOUS
<1>4. /\ DOMAIN row = DOMAIN fs \cup {m \in DOMAIN l : l[m].at <= t}
      /\ \A m \in DOMAIN fs : row[m] = fs[m]
      /\ \A m \in DOMAIN l \ DOMAIN fs : m \in DOMAIN row => row[m] = l[m].val
  BY <1>1, <1>2, <1>3 DEF Over, Carried
<1>5. AfterHas(b, n, u)
  BY <1>1, AfterRows
<1>6. /\ \A m \in DOMAIN fs : \E i \in 1 .. Len(b) : b[i].node = m /\ b[i].ok /\ b[i].at = t
      /\ \A i \in 1 .. Len(b) : b[i].ok /\ b[i].at = t => b[i].node \in DOMAIN fs /\ fs[b[i].node] = b[i].val
  BY <1>3, FieldsAre
<1>7. /\ \A i \in 1 .. Len(b) : b[i].ok => b[i].at \in Nat
      /\ \A i, j \in 1 .. Len(b) : b[i].node = b[j].node => i = j
  BY BatchIs, RowLogAssumption DEF RowLogAssumption, Stamps
<1>8. ASSUME Quiet(b, n) \/ (\E i \in 1 .. Len(b) : ValueOf(b, n, i) /\ t < b[i].at)
      PROVE  /\ n \in DOMAIN row <=> n \in DOMAIN Kept(b) /\ Kept(b)[n].at <= t
             /\ n \in DOMAIN row => row[n] = Kept(b)[n].val
  <2>1. \A i \in 1 .. Len(b) : b[i].node = n /\ b[i].ok => t < b[i].at
    BY <1>7, <1>8 DEF Quiet, ValueOf
  <2>2. \A i \in 1 .. Len(b) : b[i].node = n /\ b[i].ok => ~(b[i].at <= u) /\ b[i].at # t
    <3> SUFFICES ASSUME NEW i \in 1 .. Len(b), b[i].node = n, b[i].ok PROVE ~(b[i].at <= u) /\ b[i].at # t
      OBVIOUS
    <3>1. PICK a \in Nat : a = b[i].at
      BY <1>7
    <3>2. t < a
      BY <2>1, <3>1
    <3> QED
      BY <1>1, <3>1, <3>2
  <2>3. n \notin DOMAIN fs /\ Untouched(b, n, u)
    BY <1>6, <2>2 DEF Untouched
  <2> QED
    BY <1>2, <1>4, <1>5, <2>3 DEF AfterHas
<1>9. ASSUME NEW i \in 1 .. Len(b), ValueOf(b, n, i), b[i].at = t PROVE n \in DOMAIN row /\ row[n] = b[i].val
  BY <1>4, <1>6, <1>9 DEF ValueOf
<1>10. ASSUME NEW i \in 1 .. Len(b), ValueOf(b, n, i), b[i].at < t
       PROVE  /\ n \in DOMAIN row <=> Merged(b, n, i).at <= t
              /\ n \in DOMAIN row => row[n] = Merged(b, n, i).val
  <2>1. PICK a \in Nat : a = b[i].at
    BY <1>7, <1>10 DEF ValueOf
  <2>2. a <= u /\ a # t
    BY <1>1, <1>10, <2>1
  <2>3. n \in DOMAIN l /\ l[n] = Merged(b, n, i)
    BY <1>2, <1>5, <1>10, <2>1, <2>2 DEF AfterHas, ValueOf
  <2>4. n \notin DOMAIN fs
    BY <1>6, <1>7, <1>10, <2>1, <2>2 DEF ValueOf
  <2> QED
    BY <1>4, <2>3, <2>4
<1> QED
  BY <1>8, <1>9, <1>10 DEF RowHolds

LEMMA MaxIs ==
    ASSUME NEW S, S \subseteq Nat, NEW m \in S, \A s \in S : s <= m
    PROVE  Max(S) = m
<1>1. \A x \in S : (\A s \in S : s <= x) => x = m
  <2> SUFFICES ASSUME NEW x \in S, \A s \in S : s <= x PROVE x = m
    OBVIOUS
  <2>1. x \in Nat /\ m \in Nat /\ m <= x /\ x <= m
    OBVIOUS
  <2> QED
    BY <2>1
<1>2. \A x \in S : (\A s \in S : x >= s) <=> (\A s \in S : s <= x)
  OBVIOUS
<1> QED
  BY <1>1, <1>2 DEF Max

LEMMA NodeStep ==
    ASSUME ~Queued, NEW b \in Batches, NEW n \in Nodes, NodeNewest(n), LogSamples(b)
    PROVE  (NodeNewest(n) /\ NodeRows(n))'
<1> MaxStamp \in Nat
  BY RowLogAssumption DEF RowLogAssumption
<1>1. /\ last' = After(b)[MaxStamp] /\ since'[n] = History(b, n) /\ DOMAIN rows' = RowStamps(b)
      /\ \A t \in RowStamps(b) : rows'[t] = Over(Fields(b, t), Carried(After(b)[t - 1], t))
  BY DEF LogSamples
<1>2. AfterHas(b, n, MaxStamp)
  BY AfterRows
<1>3. /\ \A i \in 1 .. Len(b) : b[i].ok \in BOOLEAN /\ (b[i].ok => b[i].at \in Stamps)
      /\ \A i, j \in 1 .. Len(b) : b[i].node = b[j].node => i = j
  BY BatchIs
<1>4. DOMAIN rows' \subseteq Stamps
  BY <1>1, <1>3 DEF RowStamps
<1>5. \A t \in DOMAIN rows' : RowHolds(b, n, t, rows'[t])
  BY <1>1, <1>4, RowIs
<1>6. PICK h : h = since'[n] /\ Read(n)' = DOMAIN h /\ HistoryHolds(b, n, h)
  BY <1>1, HistoryIs DEF Read
<1>7. PICK old : old = Read(n) /\ old \subseteq Stamps
  BY DEF NodeNewest
<1>8. /\ n \in DOMAIN Kept(b) <=> n \in DOMAIN last /\ \A i \in 1 .. Len(b) : b[i].node = n => b[i].ok
      /\ n \in DOMAIN Kept(b) => Kept(b)[n] = last[n]
  <2>1. PICK d : d = DOMAIN Kept(b)
    OBVIOUS
  <2>2. d = {m \in DOMAIN last : \A i \in 1 .. Len(b) : b[i].node = m => b[i].ok}
    BY <2>1, KeptIs
  <2>3. \A m \in d : Kept(b)[m] = last[m]
    BY <2>1, KeptIs
  <2> QED
    BY <2>1, <2>2, <2>3
<1>9. CASE \A i \in 1 .. Len(b) : b[i].node # n
  <2>1. Quiet(b, n) /\ Untouched(b, n, MaxStamp)
    BY <1>9 DEF Quiet, Untouched
  <2>2. DOMAIN h = old /\ \A s \in old : h[s] = since[n][s]
    BY <1>6, <1>7, <1>9 DEF HistoryHolds
  <2>3. n \in DOMAIN Kept(b) <=> n \in DOMAIN last
    BY <1>8, <1>9
  <2>4. /\ n \in DOMAIN last' <=> n \in DOMAIN last
        /\ n \in DOMAIN last => last'[n] = last[n]
    BY <1>1, <1>2, <1>8, <2>1, <2>3 DEF AfterHas
  <2>5. NodeNewest(n)'
    BY <1>6, <1>7, <2>2, <2>4 DEF NodeNewest
  <2>6. NodeRows(n)'
    BY <1>5, <1>6, <1>7, <1>8, <2>1, <2>2, <2>3, <2>4 DEF NodeNewest, NodeRows, RowHolds
  <2> QED
    BY <2>5, <2>6
<1>10. ASSUME NEW i \in 1 .. Len(b), b[i].node = n, ~b[i].ok PROVE (NodeNewest(n) /\ NodeRows(n))'
  <2>1. \A j \in 1 .. Len(b) : b[j].node = n => j = i
    BY <1>3, <1>10
  <2>2. Quiet(b, n) /\ Untouched(b, n, MaxStamp)
    BY <1>10, <2>1 DEF Quiet, Untouched
  <2>3. DOMAIN h = {}
    BY <1>6, <1>10 DEF HistoryHolds
  <2>4. n \notin DOMAIN Kept(b) /\ n \notin DOMAIN last'
    BY <1>1, <1>2, <1>8, <1>10, <2>2 DEF AfterHas
  <2> QED
    BY <1>5, <1>6, <2>2, <2>3, <2>4 DEF NodeNewest, NodeRows, RowHolds
<1>11. ASSUME NEW i \in 1 .. Len(b), ValueOf(b, n, i) PROVE (NodeNewest(n) /\ NodeRows(n))'
  <2>1. \A j \in 1 .. Len(b) : b[j].node = n => j = i
    BY <1>3, <1>11 DEF ValueOf
  <2>2. PICK a \in Stamps : a = b[i].at
    BY <1>3, <1>11 DEF ValueOf
  <2>3. PICK v : v = b[i].val
    OBVIOUS
  <2>4. /\ DOMAIN h = old \cup {a} /\ h[a] = v
        /\ \A s \in old \ {a} : h[s] = since[n][s]
    BY <1>6, <1>7, <1>11, <2>2, <2>3 DEF HistoryHolds
  <2>5. PICK m : m = Merged(b, n, i)
    OBVIOUS
  <2>6. m = IF n \in DOMAIN last /\ ~(last[n].at <= a) THEN last[n] ELSE [at |-> a, val |-> v]
    BY <1>8, <1>11, <2>1, <2>2, <2>3, <2>5 DEF Merged, ValueOf
  <2>7. n \in DOMAIN last' /\ last'[n] = m
    BY <1>1, <1>2, <1>11, <2>2, <2>5 DEF AfterHas, ValueOf, Stamps
  <2>8. n \in DOMAIN Kept(b) <=> n \in DOMAIN last
    BY <1>8, <1>11, <2>1 DEF ValueOf
  <2>9. CASE n \in DOMAIN last /\ ~(last[n].at <= a)
    <3>1. PICK x \in Stamps : x = last[n].at /\ x \in old /\ (\A s \in old : s <= x) /\ last[n].val = since[n][x]
      BY <1>7, <2>9 DEF NodeNewest
    <3>2. a < x /\ x # a /\ h[x] = last[n].val /\ (\A s \in DOMAIN h : s <= x) /\ m = last[n]
      <4>1. a < x /\ x # a /\ a <= x
        BY <2>9, <3>1 DEF Stamps
      <4> QED
        BY <2>4, <2>6, <2>9, <3>1, <4>1
    <3>3. NodeNewest(n)'
      BY <1>6, <1>7, <2>4, <2>7, <3>1, <3>2 DEF NodeNewest
    <3>4. ASSUME NEW t \in DOMAIN rows'
          PROVE  /\ n \in DOMAIN rows'[t] => \E s \in DOMAIN h :
                        s <= t /\ (\A r \in DOMAIN h : r <= t => r <= s) /\ rows'[t][n] = h[s]
                 /\ x <= t => n \in DOMAIN rows'[t]
      <4>1. t \in Stamps
        BY <1>4
      <4>2. CASE t = a
        <5>1. n \in DOMAIN rows'[t] /\ rows'[t][n] = h[a]
          BY <1>5, <1>11, <2>2, <2>3, <2>4, <4>2 DEF RowHolds
        <5>2. a <= t /\ a \in DOMAIN h /\ \A r \in DOMAIN h : r <= t => r <= a
          BY <2>4, <4>1, <4>2 DEF Stamps
        <5> QED
          BY <5>1, <5>2
      <4>3. CASE t # a
        <5>1. t < a \/ a < t
          BY <4>1, <4>3 DEF Stamps
        <5>2. /\ n \in DOMAIN rows'[t] <=> x <= t
              /\ n \in DOMAIN rows'[t] => rows'[t][n] = h[x]
          <6>1. CASE t < a
            BY <1>5, <1>8, <1>11, <2>2, <2>8, <2>9, <3>1, <3>2, <6>1 DEF RowHolds
          <6>2. CASE a < t
            <7>1. m.at = x /\ m.val = h[x]
              BY <3>1, <3>2
            <7> QED
              BY <1>5, <1>11, <2>2, <2>5, <6>2, <7>1 DEF RowHolds
          <6> QED
            BY <5>1, <6>1, <6>2
        <5> QED
          BY <2>4, <3>1, <3>2, <5>2
      <4> QED
        BY <4>2, <4>3
    <3>5. NodeRows(n)'
      BY <1>6, <2>7, <3>1, <3>2, <3>4 DEF NodeRows
    <3> QED
      BY <3>3, <3>5
  <2>10. CASE ~(n \in DOMAIN last /\ ~(last[n].at <= a))
    <3>1. m = [at |-> a, val |-> v] /\ m.at = a /\ m.val = v
      BY <2>6, <2>10
    <3>2. \A s \in DOMAIN h : s <= a
      BY <1>7, <2>4, <2>10 DEF NodeNewest, Stamps
    <3>3. NodeNewest(n)'
      BY <1>6, <1>7, <2>4, <2>7, <3>1, <3>2 DEF NodeNewest
    <3>4. ASSUME NEW t \in DOMAIN rows'
          PROVE  /\ n \in DOMAIN rows'[t] => \E s \in DOMAIN h :
                        s <= t /\ (\A r \in DOMAIN h : r <= t => r <= s) /\ rows'[t][n] = h[s]
                 /\ a <= t => n \in DOMAIN rows'[t]
      <4>1. t \in Stamps
        BY <1>4
      <4>2. CASE a <= t
        <5>1. a = t \/ a < t
          BY <4>1, <4>2 DEF Stamps
        <5>2. n \in DOMAIN rows'[t] /\ rows'[t][n] = h[a]
          <6>1. CASE a = t
            BY <1>5, <1>11, <2>2, <2>3, <2>4, <6>1 DEF RowHolds
          <6>2. CASE a < t
            BY <1>5, <1>11, <2>2, <2>4, <2>5, <3>1, <4>2, <6>2 DEF RowHolds
          <6> QED
            BY <5>1, <6>1, <6>2
        <5> QED
          BY <2>4, <3>2, <4>2, <5>2
      <4>3. CASE ~(a <= t)
        <5>1. t < a
          BY <4>1, <4>3 DEF Stamps
        <5>2. /\ n \in DOMAIN rows'[t] <=> n \in DOMAIN last /\ last[n].at <= t
              /\ n \in DOMAIN rows'[t] => rows'[t][n] = last[n].val
          BY <1>5, <1>8, <1>11, <2>2, <2>8, <5>1 DEF RowHolds
        <5>3. ASSUME n \in DOMAIN last, last[n].at <= t
              PROVE  \E s \in DOMAIN h : s <= t /\ (\A r \in DOMAIN h : r <= t => r <= s) /\ last[n].val = h[s]
          <6>1. PICK x \in old : x = last[n].at /\ (\A s \in old : s <= x) /\ last[n].val = since[n][x]
            BY <1>7, <5>3 DEF NodeNewest
          <6>2. x # a /\ x <= t /\ h[x] = last[n].val
            BY <2>4, <4>3, <5>3, <6>1
          <6> QED
            BY <2>4, <4>3, <6>1, <6>2
        <5> QED
          BY <4>3, <5>2, <5>3
      <4> QED
        BY <4>2, <4>3
    <3>5. NodeRows(n)'
      BY <1>6, <2>7, <3>1, <3>4 DEF NodeRows
    <3> QED
      BY <3>3, <3>5
  <2> QED
    BY <2>9, <2>10
<1> QED
  BY <1>3, <1>9, <1>10, <1>11 DEF ValueOf

LEMMA LogsKeep == ASSUME ~Queued, Inv, NEW b \in Batches, LogSamples(b) PROVE Inv'
<1> MaxStamp \in Nat
  BY RowLogAssumption DEF RowLogAssumption
<1>1. /\ last' = After(b)[MaxStamp] /\ since' = [n \in Nodes |-> History(b, n)] /\ DOMAIN rows' = RowStamps(b)
      /\ \A t \in RowStamps(b) : rows'[t] = Over(Fields(b, t), Carried(After(b)[t - 1], t))
      /\ bad' = {n \in Nodes : Failed(b, n)}
  BY DEF LogSamples
<1>2. \A i \in 1 .. Len(b) : b[i].node \in Nodes /\ b[i].ok \in BOOLEAN /\ (b[i].ok => b[i].at \in Stamps)
  BY BatchIs
<1>3. \A n : n \in DOMAIN Kept(b) => n \in DOMAIN last /\ \A i \in 1 .. Len(b) : b[i].node = n => b[i].ok
  <2>1. PICK d : d = DOMAIN Kept(b)
    OBVIOUS
  <2>2. d = {m \in DOMAIN last : \A i \in 1 .. Len(b) : b[i].node = m => b[i].ok}
    BY <2>1, KeptIs
  <2> QED
    BY <2>1, <2>2
<1>4. ASSUME NEW n, Quiet(b, n) PROVE n \in DOMAIN last' <=> n \in DOMAIN Kept(b)
  <2>1. AfterHas(b, n, MaxStamp)
    BY AfterRows
  <2> QED
    BY <1>1, <1>4, <2>1 DEF AfterHas, Untouched, Quiet
<1>5. ASSUME NEW n, n \notin Nodes PROVE Quiet(b, n) /\ n \notin DOMAIN Kept(b)
  BY <1>2, <1>3, <1>5 DEF Inv, Within, Quiet
<1>6. Within'
  <2>1. \A n : n \notin Nodes => n \notin DOMAIN last'
    BY <1>4, <1>5
  <2>2. ASSUME NEW t \in DOMAIN rows' PROVE DOMAIN rows'[t] \subseteq Nodes
    <3>1. t \in Stamps /\ rows'[t] = Over(Fields(b, t), Carried(After(b)[t - 1], t))
      BY <1>1, <1>2 DEF RowStamps
    <3>2. \A n : RowHolds(b, n, t, rows'[t])
      BY <3>1, RowIs
    <3> QED
      BY <1>5, <3>2 DEF RowHolds
  <2> QED
    BY <1>1, <2>1, <2>2 DEF Within
<1>7. Unread'
  <2> SUFFICES ASSUME NEW n \in Nodes, Failed(b, n) PROVE n \notin DOMAIN last'
    BY <1>1 DEF Unread
  <2>1. CASE \A i \in 1 .. Len(b) : b[i].node # n
    <3>1. n \in bad
      BY <2>1 DEF Failed
    <3> QED
      BY <1>3, <1>4, <2>1, <3>1 DEF Inv, Unread, Quiet
  <2>2. ASSUME NEW i \in 1 .. Len(b), b[i].node = n PROVE n \notin DOMAIN last'
    <3>1. PICK own : own = {j \in 1 .. Len(b) : b[j].node = n} /\ (IF own = {} THEN n \in bad ELSE ~b[Max(own)].ok)
      BY DEF Failed
    <3>2. own = {i} /\ \A j \in 1 .. Len(b) : b[j].node = n => j = i
      BY <2>2, <3>1, BatchIs
    <3>3. Max({i}) = i
      BY DEF Max
    <3>4. ~b[i].ok
      BY <3>1, <3>2, <3>3
    <3> QED
      BY <1>3, <1>4, <2>2, <3>2, <3>4 DEF Quiet
  <2> QED
    BY <2>1, <2>2
<1>8. ASSUME NEW n \in Nodes PROVE (NodeNewest(n) /\ NodeRows(n))'
  BY NodeStep DEF Inv
<1> QED
  BY <1>6, <1>7, <1>8 DEF Inv

LEMMA Initially == Init => Inv
  BY DEF Init, Inv, Within, Unread, NodeNewest, NodeRows, Read, Nothing

LEMMA SessionsKeep == ASSUME Inv, NewSession PROVE Inv'
  BY DEF NewSession, Inv, Within, Unread, NodeNewest, NodeRows, Read, Nothing

LEMMA UnmapsKeep == ASSUME Inv, NEW n \in Nodes, Unmap(n) PROVE Inv'
<1>1. /\ DOMAIN last' = DOMAIN last \ {n} /\ \A m \in DOMAIN last' : last'[m] = last[m]
      /\ DOMAIN rows' = {} /\ bad' = bad \ {n}
      /\ DOMAIN since' = Nodes /\ DOMAIN since'[n] = {} /\ \A m \in Nodes \ {n} : since'[m] = since[m]
  BY DEF Unmap, Restrict, Nothing, Inv, Within
<1>2. ASSUME NEW m \in Nodes PROVE (NodeNewest(m) /\ NodeRows(m))'
  <2>1. CASE m = n
    BY <1>1, <2>1 DEF NodeNewest, NodeRows, Read
  <2>2. CASE m # n
    BY <1>1, <2>2 DEF Inv, NodeNewest, NodeRows, Read
  <2> QED
    BY <2>1, <2>2
<1> QED
  BY <1>1, <1>2 DEF Inv, Within, Unread

LEMMA Stutters == ASSUME Inv, UNCHANGED vars PROVE Inv'
  BY DEF vars, Inv, Within, Unread, NodeNewest, NodeRows, Read

LEMMA NextKeeps == ASSUME ~Queued, Inv, [Next]_vars PROVE Inv'
  BY LogsKeep, SessionsKeep, UnmapsKeep, Stutters DEF Next

LEMMA NewestShows == ASSUME Inv PROVE RowsAsOf /\ EveryFieldCarried
<1>1. Stamps \subseteq Nat
  BY DEF Stamps
<1>2. ASSUME NEW t \in DOMAIN rows, NEW n \in DOMAIN rows[t]
      PROVE  LET known == {s \in DOMAIN since[n] : s <= t}
             IN  known # {} /\ rows[t][n] = since[n][Max(known)]
  <2>1. n \in Nodes /\ NodeNewest(n) /\ NodeRows(n)
    BY <1>2 DEF Inv, Within
  <2>2. PICK known : known = {s \in Read(n) : s <= t}
    OBVIOUS
  <2>3. PICK m \in Read(n) : m <= t /\ (\A s \in Read(n) : s <= t => s <= m) /\ rows[t][n] = since[n][m]
    BY <1>2, <2>1 DEF NodeRows
  <2>4. known \subseteq Nat /\ m \in known /\ \A s \in known : s <= m
    BY <1>1, <2>1, <2>2, <2>3 DEF NodeNewest
  <2>5. Max(known) = m
    BY <2>4, MaxIs
  <2> QED
    BY <2>2, <2>3, <2>4, <2>5 DEF Read
<1>3. ASSUME NEW t \in DOMAIN rows, NEW n \in Nodes, DOMAIN since[n] # {}, Max(DOMAIN since[n]) <= t
      PROVE  n \in DOMAIN rows[t]
  <2>1. NodeNewest(n) /\ NodeRows(n)
    BY DEF Inv
  <2>2. n \in DOMAIN last /\ last[n].at \in Read(n) /\ Read(n) \subseteq Nat /\ \A s \in Read(n) : s <= last[n].at
    BY <1>1, <1>3, <2>1 DEF NodeNewest, Read
  <2>3. PICK m \in Read(n) : m = last[n].at
    BY <2>2
  <2>4. Max(Read(n)) = m
    BY <2>2, <2>3, MaxIs
  <2> QED
    BY <1>3, <2>1, <2>2, <2>3, <2>4 DEF NodeRows, Read
<1> QED
  BY <1>2, <1>3 DEF RowsAsOf, EveryFieldCarried

LEMMA NullsShow ==
    ASSUME ~Queued, Inv, NEW b \in Batches, LogSamples(b)
    PROVE  \A t \in DOMAIN rows' : DOMAIN rows'[t] \cap bad \subseteq sampled'
<1>1. /\ DOMAIN rows' = RowStamps(b) /\ sampled' = {b[i].node : i \in {j \in 1 .. Len(b) : b[j].ok}}
      /\ \A t \in RowStamps(b) : rows'[t] = Over(Fields(b, t), Carried(After(b)[t - 1], t))
  BY DEF LogSamples
<1>2. \A n : n \in DOMAIN Kept(b) => n \in DOMAIN last
  <2>1. PICK d : d = DOMAIN Kept(b)
    OBVIOUS
  <2>2. d = {m \in DOMAIN last : \A i \in 1 .. Len(b) : b[i].node = m => b[i].ok}
    BY <2>1, KeptIs
  <2> QED
    BY <2>1, <2>2
<1>3. ASSUME NEW t \in DOMAIN rows', NEW n \in DOMAIN rows'[t], n \in bad PROVE n \in sampled'
  <2>1. t \in Stamps /\ rows'[t] = Over(Fields(b, t), Carried(After(b)[t - 1], t))
    BY <1>1, BatchIs DEF RowStamps
  <2>2. RowHolds(b, n, t, rows'[t])
    BY <2>1, RowIs
  <2>3. n \notin DOMAIN Kept(b)
    BY <1>2, <1>3 DEF Inv, Unread
  <2>4. ~Quiet(b, n)
    BY <1>3, <2>2, <2>3 DEF RowHolds
  <2> QED
    BY <1>1, <2>4 DEF Quiet
<1> QED
  BY <1>3

-----------------------------------------------------------------------------
(* The theorems, of a server that queues one sample of a node, as the client asks *)

\* RowsAsOf: a row of _log_samples holds what was newest as of its stamp, in whatever order the
\* batches of Publish, Republish, poll and sweep came.
THEOREM RowsAreTrue == ASSUME ~Queued PROVE Spec => []RowsAsOf
<1>1. Inv /\ [Next]_vars => Inv'
  BY NextKeeps
<1>2. Inv => RowsAsOf
  BY NewestShows
<1> QED
  BY <1>1, <1>2, Initially, PTL DEF Spec

\* EveryFieldCarried: a row of _log_samples has every field whose newest value is not after it.
THEOREM RowsAreWhole == ASSUME ~Queued PROVE Spec => []EveryFieldCarried
<1>1. Inv /\ [Next]_vars => Inv'
  BY NextKeeps
<1>2. Inv => EveryFieldCarried
  BY NewestShows
<1> QED
  BY <1>1, <1>2, Initially, PTL DEF Spec

\* NullUntilReadAgain: a node whose last sample had no value is in no row until a call of
\* _log_samples has a value of it.
THEOREM FailuresStayNull == ASSUME ~Queued PROVE Spec => NullUntilReadAgain
<1>1. Inv /\ [Next]_vars => Inv'
  BY NextKeeps
<1>2. Inv /\ [Next]_vars => [\A t \in DOMAIN rows' : DOMAIN rows'[t] \cap bad \subseteq sampled']_vars
  <2> SUFFICES ASSUME Inv, Next PROVE \A t \in DOMAIN rows' : DOMAIN rows'[t] \cap bad \subseteq sampled'
    OBVIOUS
  <2>1. CASE NewSession \/ \E n \in Nodes : Unmap(n)
    BY <2>1 DEF NewSession, Unmap, Nothing
  <2> QED
    BY <2>1, NullsShow DEF Next
<1> QED
  BY <1>1, <1>2, Initially, PTL DEF Spec, NullUntilReadAgain
=============================================================================
