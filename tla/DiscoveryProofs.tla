--------------------------- MODULE DiscoveryProofs ---------------------------
(***************************************************************************)
(* What a discovery fails, finds, describes and names, for any server, any *)
(* filters and any limits: a node fails only where the server answered so, *)
(* a Variable is found once, never missed without a word and described as  *)
(* it is served, two never share a name, and the map pins their nodes.     *)
(***************************************************************************)
EXTENDS Discovery, SequenceTheorems, WellFoundedInduction, FiniteSetTheorems, TLAPS

Entries == [node : Nodes, path : Seq(Names), var : BOOLEAN]
Finds == [node : Nodes, path : Seq(Names)]

-----------------------------------------------------------------------------
(* Induction over the naturals *)

LEMMA SmallestSet ==
    ASSUME NEW S, NEW F, F \subseteq FiniteSubsetsOf(S), F # {}
    PROVE  \E A \in F : \A B \in F : B \subseteq A => B = A
<1> DEFINE R == StrictSubsetOrdering(S)
<1>1. IsWellFoundedOn(R, FiniteSubsetsOf(S))
  BY FS_StrictSubsetOrderingWellFounded
<1>2. PICK A \in F : \A B \in F : ~(<<B, A>> \in R)
  <2> HIDE DEF R
  <2> QED
    BY <1>1, WFMin
<1>3. \A B \in F : B \subseteq A => B = A
  BY <1>2 DEF StrictSubsetOrdering, FiniteSubsetsOf
<1> QED
  BY <1>3

\* A set that has 0 and the successors of its members has every natural number.
LEMMA NatSetInduction ==
    ASSUME NEW S, 0 \in S, \A n \in Nat : n \in S => n + 1 \in S
    PROVE  \A n \in Nat : n \in S
<1> DEFINE T == Nat \ S
           F == {0 .. n : n \in T}
<1> SUFFICES ASSUME T # {} PROVE FALSE
  OBVIOUS
<1>1. \A n \in T : n \in Nat /\ (0 .. n) \subseteq Nat /\ IsFiniteSet(0 .. n)
  BY FS_Interval
<1>2. F \subseteq FiniteSubsetsOf(Nat) /\ F # {}
  BY <1>1 DEF FiniteSubsetsOf
<1>3. PICK A \in F : \A B \in F : B \subseteq A => B = A
  <2> HIDE DEF F
  <2> QED
    BY <1>2, SmallestSet
<1>4. PICK m \in T : A = 0 .. m
  OBVIOUS
<1>5. m # 0 /\ m \in Nat
  OBVIOUS
<1>6. m - 1 \in Nat /\ m = (m - 1) + 1
  BY <1>5
<1>7. m - 1 \notin T
  <2> SUFFICES ASSUME m - 1 \in T PROVE FALSE
    OBVIOUS
  <2>1. 0 .. (m - 1) \in F /\ 0 .. (m - 1) \subseteq 0 .. m /\ m \in 0 .. m /\ m \notin 0 .. (m - 1)
    BY <1>5
  <2> QED
    BY <1>3, <1>4, <2>1
<1> QED
  BY <1>5, <1>6, <1>7

\* A set of naturals has a least.
LEMMA MinIs == ASSUME NEW S, S \subseteq Nat, S # {} PROVE Min(S) \in S /\ \A n \in S : Min(S) <= n
<1> DEFINE F == {0 .. n : n \in S}
<1>1. \A n \in S : n \in Nat /\ (0 .. n) \subseteq Nat /\ IsFiniteSet(0 .. n)
  BY FS_Interval
<1>2. F \subseteq FiniteSubsetsOf(Nat) /\ F # {}
  BY <1>1 DEF FiniteSubsetsOf
<1>3. PICK A \in F : \A B \in F : B \subseteq A => B = A
  <2> HIDE DEF F
  <2> QED
    BY <1>2, SmallestSet
<1>4. PICK m \in S : A = 0 .. m
  OBVIOUS
<1>5. ASSUME NEW n \in S PROVE m <= n
  <2> SUFFICES ASSUME n < m PROVE FALSE
    BY <1>1
  <2>1. n \in Nat /\ m \in Nat
    BY <1>1
  <2>2. 0 .. n \in F /\ 0 .. n \subseteq 0 .. m /\ m \in 0 .. m /\ m \notin 0 .. n
    BY <2>1
  <2> QED
    BY <1>3, <1>4, <2>2
<1>6. \E x \in S : \A y \in S : x =< y
  BY <1>5
<1> QED
  BY <1>6 DEF Min

LEMMA MinOf ==
    ASSUME NEW a \in Nat, NEW b \in Nat
    PROVE  Min({a, b}) \in Nat /\ Min({a, b}) <= a /\ Min({a, b}) <= b /\ Min({a, b}) \in {a, b}
  BY MinIs

\* A part of a list from its start, or up to its end.
LEMMA Parts ==
    ASSUME NEW S, NEW s \in Seq(S), NEW n \in Nat
    PROVE  /\ n <= Len(s) => SubSeq(s, 1, n) \in Seq(S)
           /\ SubSeq(s, n + 1, Len(s)) \in Seq(S)
           /\ \A i \in 1 .. Len(SubSeq(s, n + 1, Len(s))) : SubSeq(s, n + 1, Len(s))[i] \in {s[j] : j \in 1 .. Len(s)}
<1>1. Len(s) \in Nat /\ \A i \in 1 .. Len(s) : s[i] \in S
  BY LenProperties, ElementOfSeq
<1>2. n <= Len(s) => SubSeq(s, 1, n) \in Seq(S)
  <2> SUFFICES ASSUME n <= Len(s) PROVE SubSeq(s, 1, n) \in Seq(S)
    OBVIOUS
  <2>1. \A i \in 1 .. n : s[i] \in S
    BY <1>1
  <2> QED
    BY <2>1, SubSeqProperties
<1> DEFINE m == n + 1
<1>3. m \in Int /\ \A i \in m .. Len(s) : i \in 1 .. Len(s) /\ s[i] \in S
  BY <1>1
<1>4. PICK k \in Int : k = Len(s)
  BY <1>1
<1>5. PICK t : t = SubSeq(s, m, k)
  OBVIOUS
<1> HIDE DEF m
<1>6. /\ t \in Seq(S) /\ Len(t) = (IF m <= k THEN k - m + 1 ELSE 0)
      /\ \A i \in 1 .. k - m + 1 : t[i] = s[m + i - 1]
  <2>1. \A i \in m .. k : s[i] \in S
    BY <1>3, <1>4
  <2> QED
    BY <1>3, <1>5, <2>1, SubSeqProperties
<1>7. ASSUME NEW i \in 1 .. Len(t) PROVE t[i] \in {s[j] : j \in 1 .. Len(s)}
  <2>1. m <= k /\ i \in 1 .. k - m + 1
    BY <1>3, <1>6
  <2>2. m + i - 1 \in 1 .. Len(s)
    BY <1>1, <1>4, <2>1 DEF m
  <2> QED
    BY <1>6, <2>1, <2>2
<1> QED
  BY <1>2, <1>4, <1>5, <1>6, <1>7 DEF m

LEMMA Added ==
    ASSUME NEW S, NEW s \in Seq(S), NEW e \in S
    PROVE  /\ Append(s, e) \in Seq(S) /\ Len(Append(s, e)) = Len(s) + 1 /\ Len(s) \in Nat
           /\ \A i \in 1 .. Len(s) : Append(s, e)[i] = s[i]
           /\ Append(s, e)[Len(s) + 1] = e /\ Last(Append(s, e)) = e /\ Append(s, e) # <<>>
<1>1. /\ Append(s, e) \in Seq(S) /\ Len(Append(s, e)) = Len(s) + 1
      /\ (\A i \in 1 .. Len(s) : Append(s, e)[i] = s[i]) /\ Append(s, e)[Len(s) + 1] = e
      /\ Append(s, e) # <<>>
  BY AppendProperties
<1>2. Len(s) \in Nat
  BY LenProperties
<1> QED
  BY <1>1, <1>2 DEF Last

-----------------------------------------------------------------------------
(* Taking a batch *)

\* An entry's path ends with its own name; only Root's is empty.
OwnName(entry) == IF entry.path = <<>> THEN entry.node = Root ELSE Last(entry.path) = server.name[entry.node]
Waiting(list) == list \in Seq(Entries) /\ \A i \in 1 .. Len(list) : OwnName(list[i])

\* Each Variable found is visited and kept, was traced on its path, and is there once.
Sound(list, seen, taken) ==
    /\ list \in Seq(Finds)
    /\ \A i, j \in 1 .. Len(list) : list[i].node = list[j].node => i = j
    /\ \A i \in 1 .. Len(list) :
          list[i].node \in seen \cap taken /\ Trace(Append(list[i].path, server.name[list[i].node]))

Accumulated(acc) ==
    /\ {"visited", "found", "upcoming", "unit", "filtered", "kept"} \subseteq DOMAIN acc
    /\ Waiting(acc.upcoming) /\ Sound(acc.found, acc.visited, acc.kept)

LEMMA FollowKeeps ==
    ASSUME server \in Servers, NEW acc, Accumulated(acc), NEW entry \in Entries, NEW n \in Nodes, n \notin acc.visited
    PROVE  Accumulated(Follow(acc, entry, n))
<1>1. server.name[n] \in Names
  BY DiscoveryAssumption DEF DiscoveryAssumption
<1>2. PICK path : path = Append(entry.path, server.name[n])
  OBVIOUS
<1>3. path \in Seq(Names) /\ path # <<>> /\ Last(path) = server.name[n]
  <2>1. entry.path \in Seq(Names)
    BY DEF Entries
  <2> QED
    BY <1>1, <1>2, <2>1, Added
<1>4. PICK var \in BOOLEAN : var = (server.class[n] = "Variable")
  OBVIOUS
<1>5. PICK counted : /\ counted = IF (IF var THEN Trace(path) ELSE Browsed(path))
                                  THEN [acc EXCEPT !.kept = @ \cup {n}] ELSE [acc EXCEPT !.filtered = @ \cup {n}]
  OBVIOUS
<1>6. PICK next : next = Append(acc.upcoming, [node |-> n, path |-> path, var |-> var])
  OBVIOUS
<1>7. PICK more : more = IF var /\ Trace(path) THEN Append(acc.found, [node |-> n, path |-> entry.path]) ELSE acc.found
  OBVIOUS
<1>8. Follow(acc, entry, n) = IF ~Browsed(path) THEN LeftOut(acc, n)
                              ELSE [counted EXCEPT !.visited = Visited(@, n), !.found = more, !.upcoming = next]
  <2>1. /\ counted.found = acc.found /\ counted.upcoming = acc.upcoming
        /\ {"visited", "found", "upcoming", "unit", "filtered", "kept"} \subseteq DOMAIN counted
    BY <1>5 DEF Accumulated
  <2>2. Follow(acc, entry, n) =
            IF ~Browsed(path) THEN LeftOut(acc, n)
            ELSE [counted EXCEPT
                    !.visited = Visited(@, n),
                    !.found = IF var /\ Trace(path) THEN Append(@, [node |-> n, path |-> entry.path]) ELSE @,
                    !.upcoming = Append(@, [node |-> n, path |-> path, var |-> var])]
    BY <1>2, <1>4, <1>5, Zenon DEF Follow
  <2> QED
    BY <1>6, <1>7, <2>1, <2>2
<1>9. Waiting(next)
  <2>1. PICK e : e = [node |-> n, path |-> path, var |-> var]
    OBVIOUS
  <2>2. e \in Entries /\ OwnName(e)
    BY <1>3, <2>1 DEF Entries, OwnName
  <2>3. /\ next \in Seq(Entries) /\ Len(next) = Len(acc.upcoming) + 1 /\ Len(acc.upcoming) \in Nat
        /\ (\A i \in 1 .. Len(acc.upcoming) : next[i] = acc.upcoming[i]) /\ next[Len(acc.upcoming) + 1] = e
    BY <1>6, <2>1, <2>2, Added DEF Accumulated, Waiting
  <2>4. ASSUME NEW i \in 1 .. Len(next) PROVE OwnName(next[i])
    <3>1. i \in 1 .. Len(acc.upcoming) \/ i = Len(acc.upcoming) + 1
      BY <2>3
    <3> QED
      BY <2>2, <2>3, <3>1 DEF Accumulated, Waiting
  <2> QED
    BY <2>3, <2>4 DEF Waiting
<1>10. Sound(more, acc.visited \cup {n}, IF var /\ Trace(path) THEN acc.kept \cup {n} ELSE acc.kept)
  <2>1. CASE ~(var /\ Trace(path))
    BY <1>7, <2>1 DEF Accumulated, Sound
  <2>2. CASE var /\ Trace(path)
    <3>1. PICK e : e = [node |-> n, path |-> entry.path]
      OBVIOUS
    <3>2. PICK k \in Nat : k = Len(acc.found)
      BY LenProperties DEF Accumulated, Sound
    <3>3. e \in Finds /\ e.node = n /\ Trace(Append(e.path, server.name[e.node]))
      BY <1>2, <2>2, <3>1 DEF Finds, Entries
    <3>4. /\ more \in Seq(Finds) /\ Len(more) = k + 1
          /\ (\A i \in 1 .. k : more[i] = acc.found[i]) /\ more[k + 1] = e
      <4>1. acc.found \in Seq(Finds)
        BY DEF Accumulated, Sound
      <4> QED
        BY <1>7, <2>2, <3>1, <3>2, <3>3, <4>1, Added
    <3>5. ASSUME NEW i \in 1 .. Len(more)
          PROVE  i = k + 1 \/ (i \in 1 .. k /\ more[i] = acc.found[i] /\ more[i].node \in acc.visited \cap acc.kept)
      <4>1. i = k + 1 \/ i \in 1 .. k
        BY <3>4
      <4> QED
        BY <3>2, <3>4, <4>1 DEF Accumulated, Sound
    <3>6. ASSUME NEW i \in 1 .. Len(more), NEW j \in 1 .. Len(more), more[i].node = more[j].node PROVE i = j
      BY <3>2, <3>3, <3>4, <3>5, <3>6 DEF Accumulated, Sound
    <3>7. ASSUME NEW i \in 1 .. Len(more)
          PROVE  /\ more[i].node \in (acc.visited \cup {n}) \cap (acc.kept \cup {n})
                 /\ Trace(Append(more[i].path, server.name[more[i].node]))
      BY <3>2, <3>3, <3>4, <3>5 DEF Accumulated, Sound
    <3> QED
      BY <2>2, <3>4, <3>6, <3>7 DEF Sound
  <2> QED
    BY <2>1, <2>2
<1>11. CASE ~Browsed(path)
  <2>1. LeftOut(acc, n) = [acc EXCEPT !.filtered = acc.filtered \cup {n}]
    BY DEF LeftOut
  <2>2. PICK out : out = LeftOut(acc, n)
    OBVIOUS
  <2>3. /\ {"visited", "found", "upcoming", "unit", "filtered", "kept"} \subseteq DOMAIN out
        /\ out.upcoming = acc.upcoming /\ out.found = acc.found /\ out.visited = acc.visited /\ out.kept = acc.kept
    BY <2>1, <2>2 DEF Accumulated
  <2> QED
    BY <1>8, <1>11, <2>2, <2>3 DEF Accumulated
<1>12. CASE Browsed(path)
  <2>1. PICK out : out = [counted EXCEPT !.visited = counted.visited \cup {n}, !.found = more, !.upcoming = next]
    OBVIOUS
  <2>2. out = Follow(acc, entry, n)
    BY <1>8, <1>12, <2>1 DEF Visited
  <2>3. /\ {"visited", "found", "upcoming", "unit", "filtered", "kept"} \subseteq DOMAIN counted
        /\ counted.visited = acc.visited
        /\ counted.kept = IF (IF var THEN Trace(path) ELSE Browsed(path)) THEN acc.kept \cup {n} ELSE acc.kept
    BY <1>5 DEF Accumulated
  <2>4. /\ {"visited", "found", "upcoming", "unit", "filtered", "kept"} \subseteq DOMAIN out
        /\ out.upcoming = next /\ out.found = more /\ out.visited = acc.visited \cup {n}
        /\ (IF var /\ Trace(path) THEN acc.kept \cup {n} ELSE acc.kept) \subseteq out.kept
    <3>1. /\ {"visited", "found", "upcoming", "unit", "filtered", "kept"} \subseteq DOMAIN out
          /\ out.upcoming = next /\ out.found = more /\ out.visited = acc.visited \cup {n} /\ out.kept = counted.kept
      BY <2>1, <2>3
    <3>2. (IF var /\ Trace(path) THEN acc.kept \cup {n} ELSE acc.kept) \subseteq counted.kept
      BY <2>3
    <3> QED
      BY <3>1, <3>2
  <2>5. Sound(more, out.visited, out.kept)
    BY <1>10, <2>4 DEF Sound
  <2> QED
    BY <1>9, <2>2, <2>4, <2>5 DEF Accumulated
<1> QED
  BY <1>11, <1>12

LEMMA TakeRefKeeps ==
    ASSUME server \in Servers, NEW acc, Accumulated(acc), NEW entry \in Entries, NEW ref \in Ref
    PROVE  Accumulated(TakeRef(acc, entry, ref))
<1>1. ref.to \in Nodes
  BY DEF Ref
<1>2. CASE ref.to \notin acc.visited /\ TakeRef(acc, entry, ref) = Follow(acc, entry, ref.to)
  BY <1>1, <1>2, FollowKeeps
<1>3. ASSUME NEW u, TakeRef(acc, entry, ref) = [acc EXCEPT !.unit = u] PROVE Accumulated(TakeRef(acc, entry, ref))
  <2>1. PICK out : out = [acc EXCEPT !.unit = u]
    OBVIOUS
  <2>2. /\ {"visited", "found", "upcoming", "unit", "filtered", "kept"} \subseteq DOMAIN out
        /\ out.upcoming = acc.upcoming /\ out.found = acc.found /\ out.visited = acc.visited /\ out.kept = acc.kept
    BY <2>1 DEF Accumulated
  <2> QED
    BY <1>3, <2>1, <2>2 DEF Accumulated
<1>4. CASE TakeRef(acc, entry, ref) = acc
  BY <1>4
<1>5. \/ ref.to \notin acc.visited /\ TakeRef(acc, entry, ref) = Follow(acc, entry, ref.to)
      \/ \E u : TakeRef(acc, entry, ref) = [acc EXCEPT !.unit = u]
      \/ TakeRef(acc, entry, ref) = acc
  <2>1. PICK u : u = (entry.node :> ref.to) @@ acc.unit
    OBVIOUS
  <2>2. [acc EXCEPT !.unit = (entry.node :> ref.to) @@ @] = [acc EXCEPT !.unit = u]
    BY <2>1
  <2> QED
    BY <2>2, Zenon DEF TakeRef
<1> QED
  BY <1>2, <1>3, <1>4, <1>5

\* The loop over a node's references, up to the n-th.
RefsUpTo(acc, entry, refs, n, f) ==
    f = [j \in 0 .. n |-> IF j = 0 THEN acc ELSE TakeRef(f[j - 1], entry, refs[j])]

LEMMA RefsExist == ASSUME NEW acc, NEW entry, NEW refs PROVE \A n \in Nat : \E f : RefsUpTo(acc, entry, refs, n, f)
<1> DEFINE S == {n \in Nat : \E f : RefsUpTo(acc, entry, refs, n, f)}
           E(j, before) == IF j = 0 THEN acc ELSE TakeRef(before, entry, refs[j])
<1>0. \A n, f : RefsUpTo(acc, entry, refs, n, f) <=> f = [j \in 0 .. n |-> E(j, f[j - 1])]
  BY DEF RefsUpTo
<1>1. \A x, y : E(0, x) = E(0, y)
  OBVIOUS
<1> HIDE DEF E
<1>2. 0 \in S
  <2>1. PICK f : f = [j \in 0 .. 0 |-> E(0, acc)]
    OBVIOUS
  <2>2. f = [j \in 0 .. 0 |-> E(j, f[j - 1])]
    BY <1>1, <2>1
  <2>3. RefsUpTo(acc, entry, refs, 0, f)
    BY <1>0, <2>2
  <2> QED
    BY <2>3
<1>3. ASSUME NEW n \in Nat, n \in S PROVE n + 1 \in S
  <2>1. PICK f : f = [j \in 0 .. n |-> E(j, f[j - 1])]
    BY <1>0, <1>3
  <2>2. PICK g : g = [j \in 0 .. (n + 1) |-> IF j = n + 1 THEN E(n + 1, f[n]) ELSE f[j]]
    OBVIOUS
  <2>3. ASSUME NEW j \in 0 .. (n + 1) PROVE g[j] = E(j, g[j - 1])
    <3>1. CASE j = 0
      <4>1. g[0] = E(0, f[0 - 1])
        BY <2>1, <2>2, <3>1
      <4> QED
        BY <1>1, <3>1, <4>1
    <3>2. CASE j # 0 /\ j \in 0 .. n
      <4>1. j - 1 \in 0 .. n /\ g[j - 1] = f[j - 1] /\ g[j] = f[j] /\ f[j] = E(j, f[j - 1])
        BY <2>1, <2>2, <3>2
      <4> QED
        BY <4>1
    <3>3. CASE j = n + 1
      <4>1. j - 1 = n /\ g[j] = E(j, f[n]) /\ g[n] = f[n]
        BY <2>2, <3>3
      <4> QED
        BY <4>1
    <3> QED
      BY <3>1, <3>2, <3>3
  <2>4. g = [j \in 0 .. (n + 1) |-> E(j, g[j - 1])]
    BY <2>2, <2>3
  <2>5. RefsUpTo(acc, entry, refs, n + 1, g)
    BY <1>0, <2>4
  <2> QED
    BY <2>5
<1> HIDE DEF S
<1>4. \A n \in Nat : n \in S
  BY <1>2, <1>3, NatSetInduction
<1> QED
  BY <1>4 DEF S

LEMMA TakeRefsKeeps ==
    ASSUME server \in Servers, NEW acc, Accumulated(acc), NEW entry \in Entries, NEW refs \in Seq(Ref)
    PROVE  Accumulated(TakeRefs(acc, entry, refs))
<1>1. PICK n \in Nat : n = Len(refs) /\ \A j \in 1 .. n : refs[j] \in Ref
  BY LenProperties, ElementOfSeq
<1> DEFINE f == CHOOSE f : RefsUpTo(acc, entry, refs, n, f)
<1>2. RefsUpTo(acc, entry, refs, n, f)
  BY RefsExist
<1>3. TakeRefs(acc, entry, refs) = f[n]
  BY <1>1 DEF TakeRefs, RefsUpTo
<1> HIDE DEF f
<1>4. \A j \in 0 .. n : f[j] = IF j = 0 THEN acc ELSE TakeRef(f[j - 1], entry, refs[j])
  BY <1>2, Zenon DEF RefsUpTo
<1> DEFINE S == {j \in Nat : j <= n => Accumulated(f[j])}
<1>5. 0 \in S
  BY <1>4
<1>6. ASSUME NEW j \in Nat, j \in S PROVE j + 1 \in S
  <2> SUFFICES ASSUME j + 1 <= n PROVE Accumulated(f[j + 1])
    OBVIOUS
  <2>1. PICK k \in 1 .. n : k = j + 1 /\ k - 1 = j /\ k # 0 /\ k \in 0 .. n
    OBVIOUS
  <2>2. f[k] = TakeRef(f[j], entry, refs[k])
    BY <1>4, <2>1
  <2>3. Accumulated(f[j]) /\ refs[k] \in Ref
    BY <1>1, <1>6, <2>1
  <2>4. Accumulated(TakeRef(f[j], entry, refs[k]))
    BY <2>3, TakeRefKeeps
  <2> QED
    BY <2>1, <2>2, <2>4
<1> HIDE DEF S
<1>7. n \in S
  BY <1>5, <1>6, NatSetInduction
<1> QED
  BY <1>3, <1>7 DEF S

\* The loop over the batch, up to its n-th node.
BatchUpTo(n, f) ==
    f = [i \in 0 .. n |-> IF i = 0 THEN Untaken ELSE TakeRefs(f[i - 1], frontier[i], call.refs[i])]

LEMMA BatchExists == \A n \in Nat : \E f : BatchUpTo(n, f)
<1> DEFINE S == {n \in Nat : \E f : BatchUpTo(n, f)}
           E(i, before) == IF i = 0 THEN Untaken ELSE TakeRefs(before, frontier[i], call.refs[i])
<1>0. \A n, f : BatchUpTo(n, f) <=> f = [i \in 0 .. n |-> E(i, f[i - 1])]
  BY DEF BatchUpTo
<1>1. \A x, y : E(0, x) = E(0, y)
  OBVIOUS
<1> HIDE DEF E
<1>2. 0 \in S
  <2>1. PICK f : f = [i \in 0 .. 0 |-> E(0, Untaken)]
    OBVIOUS
  <2>2. f = [i \in 0 .. 0 |-> E(i, f[i - 1])]
    BY <1>1, <2>1
  <2>3. BatchUpTo(0, f)
    BY <1>0, <2>2
  <2> QED
    BY <2>3
<1>3. ASSUME NEW n \in Nat, n \in S PROVE n + 1 \in S
  <2>1. PICK f : f = [i \in 0 .. n |-> E(i, f[i - 1])]
    BY <1>0, <1>3
  <2>2. PICK g : g = [i \in 0 .. (n + 1) |-> IF i = n + 1 THEN E(n + 1, f[n]) ELSE f[i]]
    OBVIOUS
  <2>3. ASSUME NEW i \in 0 .. (n + 1) PROVE g[i] = E(i, g[i - 1])
    <3>1. CASE i = 0
      <4>1. g[0] = E(0, f[0 - 1])
        BY <2>1, <2>2, <3>1
      <4> QED
        BY <1>1, <3>1, <4>1
    <3>2. CASE i # 0 /\ i \in 0 .. n
      <4>1. i - 1 \in 0 .. n /\ g[i - 1] = f[i - 1] /\ g[i] = f[i] /\ f[i] = E(i, f[i - 1])
        BY <2>1, <2>2, <3>2
      <4> QED
        BY <4>1
    <3>3. CASE i = n + 1
      <4>1. i - 1 = n /\ g[i] = E(i, f[n]) /\ g[n] = f[n]
        BY <2>2, <3>3
      <4> QED
        BY <4>1
    <3> QED
      BY <3>1, <3>2, <3>3
  <2>4. g = [i \in 0 .. (n + 1) |-> E(i, g[i - 1])]
    BY <2>2, <2>3
  <2>5. BatchUpTo(n + 1, g)
    BY <1>0, <2>4
  <2> QED
    BY <2>5
<1> HIDE DEF S
<1>4. \A n \in Nat : n \in S
  BY <1>2, <1>3, NatSetInduction
<1> QED
  BY <1>4 DEF S

LEMMA TakenKeeps ==
    ASSUME server \in Servers, Accumulated(Untaken), NEW n \in Nat, n = Len(call.nodes),
           \A i \in 1 .. n : frontier[i] \in Entries /\ call.refs[i] \in Seq(Ref)
    PROVE  Accumulated(Taken)
<1> DEFINE f == CHOOSE f : BatchUpTo(n, f)
<1>2. BatchUpTo(n, f)
  BY BatchExists
<1>3. Taken = f[n]
  BY DEF Taken, BatchUpTo
<1> HIDE DEF f
<1>4. \A i \in 0 .. n : f[i] = IF i = 0 THEN Untaken ELSE TakeRefs(f[i - 1], frontier[i], call.refs[i])
  BY <1>2, Zenon DEF BatchUpTo
<1> DEFINE S == {i \in Nat : i <= n => Accumulated(f[i])}
<1>5. 0 \in S
  BY <1>4
<1>6. ASSUME NEW i \in Nat, i \in S PROVE i + 1 \in S
  <2> SUFFICES ASSUME i + 1 <= n PROVE Accumulated(f[i + 1])
    OBVIOUS
  <2>1. PICK k \in 1 .. n : k = i + 1 /\ k - 1 = i /\ k # 0 /\ k \in 0 .. n
    OBVIOUS
  <2>2. f[k] = TakeRefs(f[i], frontier[k], call.refs[k])
    BY <1>4, <2>1
  <2>3. Accumulated(f[i])
    BY <1>6, <2>1
  <2>4. Accumulated(TakeRefs(f[i], frontier[k], call.refs[k]))
    BY <2>3, TakeRefsKeeps
  <2> QED
    BY <2>1, <2>2, <2>4
<1> HIDE DEF S
<1>7. n \in S
  BY <1>5, <1>6, NatSetInduction
<1> QED
  BY <1>3, <1>7 DEF S

-----------------------------------------------------------------------------
(* The batch under way *)

Fields == {"nodes", "refs", "failed", "pending", "refused", "retry"}

\* What a Browse has answered so far, and the continuation points the server holds for it.
Asking ==
    /\ Fields \subseteq DOMAIN call
    /\ call.nodes \in Seq(Nodes) /\ call.refs \in [1 .. Len(call.nodes) -> Seq(Ref)]
    /\ call.failed \subseteq 1 .. Len(call.nodes) /\ call.pending \subseteq 1 .. Len(call.nodes)
    /\ call.refused \subseteq 1 .. Len(call.nodes)
    /\ points \in [{call.nodes[i] : i \in call.pending} -> Seq(Ref)]

\* The batch is the start of the frontier.
Batched ==
    /\ Len(call.nodes) <= Len(frontier)
    /\ \A i \in 1 .. Len(call.nodes) : call.nodes[i] = frontier[i].node

\* The nodes of this batch that failed did so by the server's answer.
Blamed == server.points > 0 => {call.nodes[i] : i \in call.failed} \subseteq faulty

\* The paths that failed are those of nodes the server answered so.
Reported ==
    server.points > 0 =>
        \A path \in failed : \E n \in faulty : IF path = <<>> THEN n = Root ELSE Last(path) = server.name[n]

LEMMA Held ==
    ASSUME Asking, call.pending = {}
    PROVE  DOMAIN points = {} /\ Cardinality(DOMAIN points) = 0 /\ points = <<>>
<1>1. DOMAIN points = {}
  BY DEF Asking
<1>2. points = [n \in {} |-> points[n]]
  BY <1>1 DEF Asking
<1> QED
  BY <1>1, <1>2, FS_EmptySet

LEMMA Pages ==
    ASSUME server \in Servers, NEW n \in Nodes
    PROVE  FirstPage(n) \in Seq(Ref) /\ Beyond(server.refs[n]) \in Seq(Ref)
<1>1. server.refs[n] \in Seq(Ref) /\ server.page \in Nat
  BY DiscoveryAssumption DEF DiscoveryAssumption
<1>2. Len(server.refs[n]) \in Nat
  BY <1>1, LenProperties
<1>3. PICK k \in Nat : k = Min({server.page, Len(server.refs[n])}) /\ k <= Len(server.refs[n])
  BY <1>1, <1>2, MinOf
<1>4. SubSeq(server.refs[n], 1, k) \in Seq(Ref) /\ SubSeq(server.refs[n], server.page + 1, Len(server.refs[n])) \in Seq(Ref)
  BY <1>1, <1>3, Parts
<1> QED
  BY <1>3, <1>4 DEF FirstPage, Beyond

\* A point is free for a node browsed alone: it is refused only where it is bad.
LEMMA AloneIsServed ==
    ASSUME server \in Servers, server.points > 0, DOMAIN points = {}, NEW n, NEW a \in Answers({n}), n \notin a.bad, NeedsPoint(n)
    PROVE  n \in a.given
<1>1. /\ a.given \subseteq {m \in {n} \ a.bad : NeedsPoint(m)}
      /\ Cardinality(a.given) = Min({Free, Cardinality({m \in {n} \ a.bad : NeedsPoint(m)})})
  BY DEF Answers
<1>2. {m \in {n} \ a.bad : NeedsPoint(m)} = {n}
  OBVIOUS
<1>3. Cardinality({n}) = 1 /\ Cardinality(DOMAIN points) = 0 /\ Cardinality({}) = 0
  BY FS_Singleton, FS_EmptySet
<1>4. Free \in Nat /\ Free > 0
  <2>1. server.points \in Nat
    BY DiscoveryAssumption DEF DiscoveryAssumption
  <2>2. Free = server.points
    BY <1>3, <2>1 DEF Free
  <2> QED
    BY <2>1, <2>2
<1>5. Min({Free, 1}) \in {Free, 1}
  BY <1>4, MinOf
<1>6. a.given # {}
  <2>1. Cardinality(a.given) = Min({Free, 1})
    BY <1>1, <1>2, <1>3
  <2>2. Cardinality(a.given) # 0
    BY <1>4, <1>5, <2>1
  <2> QED
    BY <1>3, <2>2
<1> QED
  BY <1>1, <1>2, <1>6

LEMMA Sent ==
    ASSUME server \in Servers, Asking, Blamed, DOMAIN points = {}, NEW nodes \in Seq(Nodes), NEW S, S \subseteq 1 .. Len(nodes),
           NEW retry \in BOOLEAN, retry \/ (nodes = call.nodes /\ \E m : S = {m}), SendBrowse(nodes, S, retry), server' = server
    PROVE  Asking' /\ Blamed' /\ call'.nodes = nodes /\ faulty \subseteq faulty'
<1>1. DOMAIN nodes = 1 .. Len(nodes) /\ \A i \in 1 .. Len(nodes) : nodes[i] \in Nodes
  BY LenProperties, ElementOfSeq
<1>2. PICK a \in Answers({nodes[i] : i \in S}) :
        LET ok    == {i \in S : nodes[i] \notin a.bad /\ (NeedsPoint(nodes[i]) => nodes[i] \in a.given)}
            noPoint == {i \in S \ ok : nodes[i] \notin a.bad}
            old   == IF retry THEN [i \in DOMAIN nodes |-> <<>>] ELSE call.refs
        IN  /\ call' = [nodes |-> nodes, retry |-> retry,
                        refs |-> [i \in DOMAIN nodes |-> IF i \in ok THEN FirstPage(nodes[i]) ELSE old[i]],
                        failed |-> (IF retry THEN {} ELSE call.failed) \cup ((S \ ok) \ Refused(noPoint, retry)),
                        pending |-> {i \in ok : nodes[i] \in a.given},
                        refused |-> (IF retry THEN {} ELSE call.refused \ S) \cup Refused(noPoint, retry)]
            /\ points' = Holding(a.given) /\ faulty' = faulty \cup a.bad
  BY DEF SendBrowse
<1>3. PICK ok : ok = {i \in S : nodes[i] \notin a.bad /\ (NeedsPoint(nodes[i]) => nodes[i] \in a.given)}
  OBVIOUS
<1>4. PICK old : old = IF retry THEN [i \in DOMAIN nodes |-> <<>>] ELSE call.refs
  OBVIOUS
<1>5. PICK noPoint : noPoint = {i \in S \ ok : nodes[i] \notin a.bad}
  OBVIOUS
<1>6. /\ call' = [nodes |-> nodes, retry |-> retry,
                  refs |-> [i \in DOMAIN nodes |-> IF i \in ok THEN FirstPage(nodes[i]) ELSE old[i]],
                  failed |-> (IF retry THEN {} ELSE call.failed) \cup ((S \ ok) \ Refused(noPoint, retry)),
                  pending |-> {i \in ok : nodes[i] \in a.given},
                  refused |-> (IF retry THEN {} ELSE call.refused \ S) \cup Refused(noPoint, retry)]
      /\ points' = Holding(a.given) /\ faulty' = faulty \cup a.bad
  BY <1>2, <1>3, <1>4, <1>5, Zenon
<1>7. /\ Fields \subseteq DOMAIN call' /\ call'.nodes = nodes
      /\ call'.refs = [i \in DOMAIN nodes |-> IF i \in ok THEN FirstPage(nodes[i]) ELSE old[i]]
      /\ call'.failed = (IF retry THEN {} ELSE call.failed) \cup ((S \ ok) \ Refused(noPoint, retry))
      /\ call'.pending = {i \in ok : nodes[i] \in a.given}
      /\ call'.refused = (IF retry THEN {} ELSE call.refused \ S) \cup Refused(noPoint, retry)
  BY <1>6 DEF Fields
<1>8. Refused(noPoint, retry) \subseteq S
  BY <1>5 DEF Refused
<1>9. /\ call'.failed \subseteq 1 .. Len(nodes) /\ call'.pending \subseteq 1 .. Len(nodes)
      /\ call'.refused \subseteq 1 .. Len(nodes)
  BY <1>3, <1>7, <1>8 DEF Asking
<1>10. call'.refs \in [1 .. Len(nodes) -> Seq(Ref)]
  <2>1. ASSUME NEW i \in 1 .. Len(nodes) PROVE FirstPage(nodes[i]) \in Seq(Ref)
    BY <1>1, Pages
  <2>2. ASSUME NEW i \in 1 .. Len(nodes) PROVE old[i] \in Seq(Ref)
    <3>1. <<>> \in Seq(Ref)
      OBVIOUS
    <3> QED
      BY <1>1, <1>4, <3>1 DEF Asking
  <2> QED
    BY <1>1, <1>7, <2>1, <2>2
<1>11. points' \in [{nodes[i] : i \in call'.pending} -> Seq(Ref)]
  <2>1. a.given \subseteq {nodes[i] : i \in S} \ a.bad
    BY DEF Answers
  <2>2. a.given = {nodes[i] : i \in call'.pending}
    BY <1>3, <1>7, <2>1
  <2>3. points' = [n \in a.given |-> Beyond(server.refs[n])]
    BY <1>6 DEF Holding
  <2>4. ASSUME NEW n \in a.given PROVE Beyond(server.refs[n]) \in Seq(Ref)
    BY <1>1, <2>1, Pages
  <2> QED
    BY <2>2, <2>3, <2>4
<1>12. Asking'
  BY <1>7, <1>9, <1>10, <1>11 DEF Asking
<1>13. ASSUME server.points > 0, NEW i \in call'.failed PROVE nodes[i] \in faulty'
  <2>1. CASE ~retry /\ i \in call.failed
    BY <1>6, <1>13, <2>1 DEF Blamed
  <2>2. CASE i \in (S \ ok) \ Refused(noPoint, retry)
    <3>1. nodes[i] \in a.bad \/ (~retry /\ nodes[i] \notin a.bad /\ NeedsPoint(nodes[i]) /\ nodes[i] \notin a.given)
      BY <1>3, <1>5, <2>2 DEF Refused
    <3>2. CASE ~retry /\ nodes[i] \notin a.bad /\ NeedsPoint(nodes[i]) /\ nodes[i] \notin a.given
      <4>1. {nodes[j] : j \in S} = {nodes[i]}
        BY <2>2, <3>2
      <4>2. a \in Answers({nodes[i]})
        BY <4>1
      <4> QED
        BY <1>13, <3>2, <4>2, AloneIsServed
    <3> QED
      BY <1>6, <3>1, <3>2
  <2> QED
    BY <1>7, <1>13, <2>1, <2>2
<1>14. Blamed'
  <2>1. server.points > 0 => {nodes[i] : i \in call'.failed} \subseteq faulty'
    BY <1>13
  <2> QED
    BY <1>7, <2>1 DEF Blamed
<1> QED
  BY <1>6, <1>7, <1>12, <1>14
-----------------------------------------------------------------------------
(* The invariant of a walk *)

Inv ==
    /\ server \in Servers
    /\ Waiting(frontier) /\ Waiting(upcoming) /\ Sound(found, visited, kept)
    /\ Asking /\ Batched /\ Blamed /\ Reported

LEMMA Starts == Init => Inv
<1> SUFFICES ASSUME Init PROVE Inv
  OBVIOUS
<1>1. PICK e : e = [node |-> Root, path |-> <<>>, var |-> FALSE]
  OBVIOUS
<1>2. e \in Entries /\ OwnName(e)
  <2>1. Root \in Nodes
    BY DiscoveryAssumption DEF DiscoveryAssumption
  <2>2. <<>> \in Seq(Names)
    OBVIOUS
  <2> QED
    BY <1>1, <2>1, <2>2 DEF Entries, OwnName
<1>3. Waiting(frontier)
  <2>1. frontier = <<e>>
    BY <1>1 DEF Init
  <2>2. <<e>> \in Seq(Entries) /\ Len(<<e>>) = 1 /\ <<e>>[1] = e
    BY <1>2
  <2> QED
    BY <1>2, <2>1, <2>2 DEF Waiting
<1>4. Waiting(upcoming) /\ Sound(found, visited, kept)
  BY DEF Init, Waiting, Sound
<1>5. call = Idle /\ points = <<>>
  BY DEF Init
<1>6. /\ Fields \subseteq DOMAIN call /\ call.nodes = <<>> /\ call.refs = <<>>
      /\ call.failed = {} /\ call.pending = {} /\ call.refused = {}
  BY <1>5 DEF Idle, Fields
<1>7. Asking
  <2>1. call.nodes \in Seq(Nodes) /\ Len(call.nodes) = 0
    BY <1>6
  <2>2. call.refs \in [1 .. Len(call.nodes) -> Seq(Ref)]
    <3>1. <<>> \in Seq(Seq(Ref)) /\ Len(<<>>) = 0
      OBVIOUS
    <3> QED
      BY <1>6, <2>1, <3>1
  <2>3. points \in [{call.nodes[i] : i \in call.pending} -> Seq(Ref)]
    BY <1>5, <1>6
  <2> QED
    BY <1>6, <2>1, <2>2, <2>3 DEF Asking
<1>8. Batched
  BY <1>3, <1>6, LenProperties DEF Batched, Waiting
<1>9. Blamed /\ Reported
  BY <1>6 DEF Blamed, Reported, Init
<1> QED
  BY <1>3, <1>4, <1>7, <1>8, <1>9 DEF Inv, Init

LEMMA WalkedAlike ==
    ASSUME Inv, server' = server, frontier' = frontier, upcoming' = upcoming, found' = found, visited' = visited, kept' = kept
    PROVE  /\ server' \in Servers
           /\ Waiting(frontier)' /\ Waiting(upcoming)' /\ Sound(found, visited, kept)'
<1>1. Waiting(frontier)' /\ Waiting(upcoming)'
  BY DEF Inv, Waiting, OwnName
<1>2. Sound(found, visited, kept)'
  BY Zenon DEF Inv, Sound, Trace, Excluded, Included
<1> QED
  BY <1>1, <1>2 DEF Inv

LEMMA FirstBatch == ASSUME Inv, BrowseBatch PROVE Inv'
<1>1. /\ server' = server /\ frontier' = frontier /\ upcoming' = upcoming /\ found' = found /\ visited' = visited
      /\ kept' = kept /\ failed' = failed /\ call = Idle /\ frontier # <<>>
      /\ SendBrowse([i \in Batch |-> frontier[i].node], Batch, TRUE)
  BY DEF BrowseBatch, walked
<1>2. call.pending = {} /\ DOMAIN points = {}
  BY <1>1, Held DEF Idle, Inv
<1>3. Len(frontier) \in Nat /\ \A i \in 1 .. Len(frontier) : frontier[i].node \in Nodes
  <2>1. frontier \in Seq(Entries)
    BY DEF Inv, Waiting
  <2>2. Len(frontier) \in Nat /\ \A i \in 1 .. Len(frontier) : frontier[i] \in Entries
    BY <2>1, LenProperties, ElementOfSeq
  <2> QED
    BY <2>2 DEF Entries
<1>4. PICK k \in Nat : Batch = 1 .. k /\ k <= Len(frontier)
  <2>1. Limit(server.maxBrowse) \in Nat
    BY DiscoveryAssumption DEF Inv, DiscoveryAssumption, Limit
  <2> QED
    BY <1>3, <2>1, MinOf DEF Batch
<1>5. PICK nodes : nodes = [i \in 1 .. k |-> frontier[i].node]
  OBVIOUS
<1>6. nodes \in Seq(Nodes) /\ Len(nodes) = k
  BY <1>3, <1>4, <1>5
<1>7. Asking' /\ Blamed' /\ call'.nodes = nodes /\ faulty \subseteq faulty'
  BY <1>1, <1>2, <1>4, <1>5, <1>6, Sent DEF Inv
<1>8. Batched'
  BY <1>1, <1>4, <1>5, <1>6, <1>7 DEF Batched
<1>9. Reported'
  BY <1>1, <1>7 DEF Inv, Reported
<1> QED
  BY <1>1, <1>7, <1>8, <1>9, WalkedAlike DEF Inv

LEMMA NextPage == ASSUME Inv, BrowseNext PROVE Inv'
<1>1. /\ server' = server /\ frontier' = frontier /\ upcoming' = upcoming /\ found' = found /\ visited' = visited
      /\ kept' = kept /\ failed' = failed
  BY DEF BrowseNext, walked
<1>2. PICK bad \in SUBSET call.pending :
        LET hit  == {call.nodes[i] : i \in bad}
            page == [i \in call.pending \ bad |->
                        SubSeq(points[call.nodes[i]], 1, Min({server.page, Len(points[call.nodes[i]])}))]
            over == {i \in call.pending \ bad : Len(points[call.nodes[i]]) <= server.page}
            left == {call.nodes[i] : i \in call.pending \ (bad \cup over)}
        IN  /\ call' = [call EXCEPT !.failed = @ \cup bad,
                                    !.refs = [i \in DOMAIN @ |-> IF i \in DOMAIN page THEN @[i] \o page[i] ELSE @[i]],
                                    !.pending = Pending(bad, over)]
            /\ points' = [n \in left |-> Beyond(points[n])]
            /\ faulty' = faulty \cup hit
  BY Zenon DEF BrowseNext
<1>3. PICK page : page = [i \in call.pending \ bad |->
                            SubSeq(points[call.nodes[i]], 1, Min({server.page, Len(points[call.nodes[i]])}))]
  OBVIOUS
<1>4. PICK over : over = {i \in call.pending \ bad : Len(points[call.nodes[i]]) <= server.page}
  OBVIOUS
<1>5. PICK refs : refs = [i \in DOMAIN call.refs |-> IF i \in DOMAIN page THEN call.refs[i] \o page[i] ELSE call.refs[i]]
  OBVIOUS
<1>6. /\ call' = [call EXCEPT !.failed = @ \cup bad,
                              !.refs = [i \in DOMAIN @ |-> IF i \in DOMAIN page THEN @[i] \o page[i] ELSE @[i]],
                              !.pending = Pending(bad, over)]
      /\ points' = [n \in {call.nodes[i] : i \in call.pending \ (bad \cup over)} |-> Beyond(points[n])]
      /\ faulty' = faulty \cup {call.nodes[i] : i \in bad}
  BY <1>2, <1>3, <1>4, Zenon
<1>7. /\ Fields \subseteq DOMAIN call' /\ call'.nodes = call.nodes /\ call'.failed = call.failed \cup bad
      /\ call'.refs = refs /\ call'.pending = call.pending \ (bad \cup over) /\ call'.refused = call.refused
  BY <1>5, <1>6 DEF Inv, Asking, Fields, Pending
<1>8. ASSUME NEW i \in call.pending PROVE points[call.nodes[i]] \in Seq(Ref) /\ Len(points[call.nodes[i]]) \in Nat
  <2>1. points[call.nodes[i]] \in Seq(Ref)
    BY DEF Inv, Asking
  <2> QED
    BY <2>1, LenProperties
<1>9. server.page \in Nat
  BY DiscoveryAssumption DEF Inv, DiscoveryAssumption
<1>10. refs \in [1 .. Len(call.nodes) -> Seq(Ref)]
  <2>1. ASSUME NEW i \in call.pending \ bad PROVE page[i] \in Seq(Ref)
    <3>1. PICK k \in Nat : /\ k = Min({server.page, Len(points[call.nodes[i]])}) /\ k <= Len(points[call.nodes[i]])
      BY <1>8, <1>9, MinOf
    <3>2. SubSeq(points[call.nodes[i]], 1, k) \in Seq(Ref)
      BY <1>8, <3>1, Parts
    <3> QED
      BY <1>3, <3>1, <3>2
  <2>2. ASSUME NEW i \in 1 .. Len(call.nodes), i \in DOMAIN page PROVE call.refs[i] \o page[i] \in Seq(Ref)
    <3>1. page[i] \in Seq(Ref) /\ call.refs[i] \in Seq(Ref)
      BY <1>3, <2>1, <2>2 DEF Inv, Asking
    <3> QED
      BY <3>1, ConcatProperties
  <2>3. DOMAIN call.refs = 1 .. Len(call.nodes) /\ \A i \in 1 .. Len(call.nodes) : call.refs[i] \in Seq(Ref)
    BY DEF Inv, Asking
  <2> QED
    BY <1>5, <2>2, <2>3
<1>11. points' \in [{call.nodes[i] : i \in call'.pending} -> Seq(Ref)]
  <2>1. ASSUME NEW n \in {call.nodes[i] : i \in call'.pending} PROVE Beyond(points[n]) \in Seq(Ref)
    <3>1. points[n] \in Seq(Ref)
      BY <1>7, <1>8
    <3> QED
      BY <1>9, <3>1, Parts DEF Beyond
  <2> QED
    BY <1>6, <1>7, <2>1
<1>12. Asking'
  BY <1>7, <1>10, <1>11 DEF Asking, Inv
<1>13. Batched' /\ Blamed' /\ Reported'
  <2>1. {call.nodes[i] : i \in call.failed \cup bad} = {call.nodes[i] : i \in call.failed} \cup {call.nodes[i] : i \in bad}
    OBVIOUS
  <2>2. Batched'
    BY <1>1, <1>7 DEF Inv, Batched
  <2>3. Blamed'
    BY <1>1, <1>6, <1>7, <2>1 DEF Inv, Blamed
  <2>4. Reported'
    BY <1>1, <1>6 DEF Inv, Reported
  <2> QED
    BY <2>2, <2>3, <2>4
<1> QED
  BY <1>1, <1>12, <1>13, WalkedAlike DEF Inv

LEMMA OneAlone == ASSUME Inv, BrowseAlone PROVE Inv'
<1>1. /\ server' = server /\ frontier' = frontier /\ upcoming' = upcoming /\ found' = found /\ visited' = visited
      /\ kept' = kept /\ failed' = failed /\ call.pending = {} /\ call.refused # {}
      /\ SendBrowse(call.nodes, {Min(call.refused)}, FALSE)
  BY DEF BrowseAlone, walked
<1>2. call.refused \subseteq 1 .. Len(call.nodes) /\ call.nodes \in Seq(Nodes) /\ DOMAIN points = {}
  BY <1>1, Held DEF Inv, Asking
<1>3. call.refused \subseteq Nat
  <2>1. Len(call.nodes) \in Nat
    BY <1>2, LenProperties
  <2> QED
    BY <1>2, <2>1
<1>4. {Min(call.refused)} \subseteq 1 .. Len(call.nodes)
  BY <1>1, <1>2, <1>3, MinIs
<1>5. Asking' /\ Blamed' /\ call'.nodes = call.nodes /\ faulty \subseteq faulty'
  BY <1>1, <1>2, <1>4, Sent DEF Inv
<1>6. Batched' /\ Reported'
  BY <1>1, <1>5 DEF Inv, Batched, Reported
<1> QED
  BY <1>1, <1>5, <1>6, WalkedAlike DEF Inv

LEMMA BatchTaken == ASSUME Inv, Take PROVE Inv'
<1>1. /\ server' = server /\ failed' = failed \cup {frontier[i].path : i \in call.failed} /\ call' = Idle
      /\ points' = points /\ faulty' = faulty /\ call.pending = {}
  BY DEF Take
<1>2. PICK taken : /\ taken = Taken
                   /\ frontier' = IF Rest = <<>> THEN taken.upcoming ELSE Rest
                   /\ upcoming' = IF Rest = <<>> THEN <<>> ELSE taken.upcoming
                   /\ visited' = taken.visited /\ found' = taken.found /\ kept' = taken.kept
  BY DEF Take
<1>3. /\ Len(frontier) \in Nat /\ Len(call.nodes) \in Nat /\ Len(call.nodes) <= Len(frontier) /\ frontier \in Seq(Entries)
      /\ \A i \in 1 .. Len(frontier) : frontier[i] \in Entries /\ OwnName(frontier[i])
  <2>1. frontier \in Seq(Entries) /\ call.nodes \in Seq(Nodes)
    BY DEF Inv, Waiting, Asking
  <2> QED
    BY <2>1, LenProperties, ElementOfSeq DEF Inv, Waiting, Batched
<1>4. Accumulated(taken)
  <2>1. PICK acc : acc = Untaken
    OBVIOUS
  <2>2. /\ {"visited", "found", "upcoming", "unit", "filtered", "kept"} \subseteq DOMAIN acc
        /\ acc.upcoming = upcoming /\ acc.found = found /\ acc.visited = visited /\ acc.kept = kept
    BY <2>1 DEF Untaken
  <2>3. Accumulated(Untaken)
    BY <2>1, <2>2 DEF Accumulated, Inv
  <2>4. \A i \in 1 .. Len(call.nodes) : frontier[i] \in Entries /\ call.refs[i] \in Seq(Ref)
    BY <1>3 DEF Inv, Asking
  <2> QED
    BY <1>2, <1>3, <2>3, <2>4, TakenKeeps DEF Inv
<1>5. Waiting(Rest)
  <2>1. /\ Rest \in Seq(Entries)
        /\ \A i \in 1 .. Len(Rest) : Rest[i] \in {frontier[j] : j \in 1 .. Len(frontier)}
    BY <1>3, Parts DEF Rest
  <2> QED
    BY <1>3, <2>1 DEF Waiting
<1>6. Waiting(<<>>)
  BY DEF Waiting
<1>7. Waiting(frontier)' /\ Waiting(upcoming)'
  <2>1. Waiting(taken.upcoming)
    BY <1>4 DEF Accumulated
  <2>2. PICK next, after : next = frontier' /\ after = upcoming' /\ Waiting(next) /\ Waiting(after)
    BY <1>2, <1>5, <1>6, <2>1
  <2> QED
    BY <1>1, <2>2 DEF Waiting, OwnName
<1>8. Sound(found, visited, kept)'
  <2>1. Sound(taken.found, taken.visited, taken.kept)
    BY <1>4 DEF Accumulated
  <2>2. PICK f, v, k : f = found' /\ v = visited' /\ k = kept' /\ Sound(f, v, k)
    BY <1>2, <2>1
  <2> QED
    BY <1>1, <2>2, Zenon DEF Sound, Trace, Excluded, Included
<1>9. /\ Fields \subseteq DOMAIN call' /\ call'.nodes = <<>> /\ call'.refs = <<>>
      /\ call'.failed = {} /\ call'.pending = {} /\ call'.refused = {}
  BY <1>1 DEF Idle, Fields
<1>10. Asking'
  <2>1. call'.nodes \in Seq(Nodes) /\ Len(call'.nodes) = 0
    BY <1>9
  <2>2. call'.refs \in [1 .. Len(call'.nodes) -> Seq(Ref)]
    <3>1. <<>> \in Seq(Seq(Ref)) /\ Len(<<>>) = 0
      OBVIOUS
    <3> QED
      BY <1>9, <2>1, <3>1
  <2>3. points' \in [{call'.nodes[i] : i \in call'.pending} -> Seq(Ref)]
    BY <1>1, <1>9, Held DEF Inv
  <2> QED
    BY <1>9, <2>1, <2>2, <2>3 DEF Asking
<1>11. Batched' /\ Blamed'
  <2>1. Len(frontier') \in Nat /\ Len(call'.nodes) = 0
    BY <1>7, <1>9, LenProperties DEF Waiting
  <2> QED
    BY <1>9, <2>1 DEF Batched, Blamed
<1>12. Reported'
  <2>1. ASSUME server.points > 0, NEW i \in call.failed
        PROVE  \E n \in faulty : IF frontier[i].path = <<>> THEN n = Root ELSE Last(frontier[i].path) = server.name[n]
    <3>1. i \in 1 .. Len(call.nodes) /\ call.nodes[i] = frontier[i].node /\ call.nodes[i] \in faulty
      BY <2>1 DEF Inv, Asking, Batched, Blamed
    <3>2. i \in 1 .. Len(frontier)
      BY <1>3, <3>1
    <3> QED
      BY <1>3, <3>1, <3>2 DEF OwnName
  <2>2. ASSUME server.points > 0, NEW path \in failed'
        PROVE  \E n \in faulty : IF path = <<>> THEN n = Root ELSE Last(path) = server.name[n]
    BY <1>1, <2>1, <2>2 DEF Inv, Reported
  <2> QED
    BY <1>1, <2>2 DEF Reported
<1> QED
  BY <1>1, <1>7, <1>8, <1>10, <1>11, <1>12 DEF Inv

LEMMA SameWalk == ASSUME Inv, UNCHANGED <<server, walked, call, points, faulty>> PROVE Inv'
<1>1. Asking' /\ Batched' /\ Blamed' /\ Reported'
  BY DEF Inv, Asking, Batched, Blamed, Reported, walked
<1> QED
  BY <1>1, WalkedAlike DEF Inv, walked

LEMMA InvHolds == Spec => []Inv
<1>1. ASSUME Inv, [Next]_vars PROVE Inv'
  <2>1. CASE Walk
    BY <1>1, <2>1, FirstBatch, NextPage, OneAlone, BatchTaken DEF Walk
  <2>2. CASE Describe \/ NameNodes \/ Raises \/ UNCHANGED vars
    BY <1>1, <2>2, SameWalk DEF Describe, NameNodes, Raises, vars
  <2> QED
    BY <1>1, <2>1, <2>2 DEF Next
<1> QED
  BY <1>1, Starts, PTL DEF Spec

\* No node fails because continuation points ran out, whatever the server's limits are: one
\* is browsed alone until it gets its own (discovery.py _browse_batch), and none is left held.
THEOREM OnlyFaults == Spec => []OnlyFaultsFail
<1>1. Inv => OnlyFaultsFail
  <2> SUFFICES ASSUME Inv PROVE OnlyFaultsFail
    OBVIOUS
  <2>1. call = Idle => points = <<>>
    BY Held DEF Inv, Idle
  <2> QED
    BY <2>1 DEF Inv, Blamed, Reported, OnlyFaultsFail
<1> QED
  BY <1>1, InvHolds, PTL

\* A set counted by different values of a finite index.
LEMMA Counted ==
    ASSUME NEW S, IsFiniteSet(S), NEW f, DOMAIN f = S, f = [i \in S |-> f[i]], \A i, j \in S : f[i] = f[j] => i = j
    PROVE  IsFiniteSet({f[i] : i \in S}) /\ Cardinality({f[i] : i \in S}) = Cardinality(S)
<1>1. PICK T : T = {f[i] : i \in S}
  OBVIOUS
<1>2. f \in Bijection(S, T)
  <2>1. f \in [S -> T]
    BY <1>1
  <2>2. \A t \in T : \E i \in S : f[i] = t
    BY <1>1
  <2> QED
    BY <2>1, <2>2 DEF Bijection, Injection, Surjection, IsInjective
<1>3. IsFiniteSet(T) /\ Cardinality(T) = Cardinality(S)
  BY <1>2, FS_Bijection DEF ExistsBijection
<1> QED
  BY <1>1, <1>3

\* A Variable is found once however many references lead to it (walk's visited), on a path
\* the filters keep, and it is not counted as filtered out.
THEOREM FoundOnceEach == Spec => []FoundOnce
<1>1. Inv => FoundOnce
  <2> SUFFICES ASSUME Inv PROVE FoundOnce
    OBVIOUS
  <2>1. /\ found \in Seq(Finds)
        /\ \A i, j \in 1 .. Len(found) : found[i].node = found[j].node => i = j
        /\ \A i \in 1 .. Len(found) :
              found[i].node \in kept /\ Trace(Append(found[i].path, server.name[found[i].node]))
    BY DEF Inv, Sound
  <2>2. Len(found) \in Nat /\ DOMAIN found = 1 .. Len(found)
    BY <2>1, LenProperties
  <2>3. PICK f : f = [i \in 1 .. Len(found) |-> found[i].node]
    OBVIOUS
  <2>4. FoundNodes = {f[i] : i \in 1 .. Len(found)}
    BY <2>2, <2>3 DEF FoundNodes, Range
  <2>5. Cardinality(FoundNodes) = Cardinality(1 .. Len(found))
    <3>1. PICK S : S = 1 .. Len(found)
      OBVIOUS
    <3>2. IsFiniteSet(S) /\ \A i, j \in S : f[i] = f[j] => i = j
      BY <2>1, <2>2, <2>3, <3>1, FS_Interval
    <3>3. DOMAIN f = S /\ f = [i \in S |-> f[i]]
      BY <2>3, <3>1
    <3>4. Cardinality({f[i] : i \in S}) = Cardinality(S)
      BY <3>2, <3>3, Counted
    <3> QED
      BY <2>4, <3>1, <3>4
  <2>6. Cardinality(1 .. Len(found)) = Len(found)
    <3>1. PICK n \in Nat : n = Len(found)
      BY <2>2
    <3>2. Cardinality(1 .. n) = n
      BY FS_Interval
    <3> QED
      BY <3>1, <3>2
  <2>7. FoundNodes \subseteq kept
    BY <2>1, <2>3, <2>4
  <2>8. \A v \in Range(found) : Trace(Append(v.path, server.name[v.node]))
    BY <2>1, <2>2 DEF Range
  <2> QED
    BY <2>5, <2>6, <2>7, <2>8 DEF FoundOnce
<1> QED
  BY <1>1, InvHolds, PTL

-----------------------------------------------------------------------------
(* Every path is walked: the paths *)

PathsUpTo(n, f) == f = [k \in 0 .. n |-> IF k = 0 THEN {<<>>} ELSE NextPaths(f[k - 1])]

LEMMA PathsExist == \A n \in Nat : \E f : PathsUpTo(n, f)
<1> DEFINE S == {n \in Nat : \E f : PathsUpTo(n, f)}
           E(k, before) == IF k = 0 THEN {<<>>} ELSE NextPaths(before)
<1>0. \A n, f : PathsUpTo(n, f) <=> f = [k \in 0 .. n |-> E(k, f[k - 1])]
  BY DEF PathsUpTo
<1>1. \A x, y : E(0, x) = E(0, y)
  OBVIOUS
<1> HIDE DEF E
<1>2. 0 \in S
  <2>1. PICK f : f = [k \in 0 .. 0 |-> E(0, {})]
    OBVIOUS
  <2>2. f = [k \in 0 .. 0 |-> E(k, f[k - 1])]
    BY <1>1, <2>1
  <2>3. PathsUpTo(0, f)
    BY <1>0, <2>2
  <2> QED
    BY <2>3
<1>3. ASSUME NEW n \in Nat, n \in S PROVE n + 1 \in S
  <2>1. PICK f : f = [k \in 0 .. n |-> E(k, f[k - 1])]
    BY <1>0, <1>3
  <2>2. PICK g : g = [k \in 0 .. (n + 1) |-> IF k = n + 1 THEN E(n + 1, f[n]) ELSE f[k]]
    OBVIOUS
  <2>3. ASSUME NEW k \in 0 .. (n + 1) PROVE g[k] = E(k, g[k - 1])
    <3>1. CASE k = 0
      <4>1. g[0] = E(0, f[0 - 1])
        BY <2>1, <2>2, <3>1
      <4> QED
        BY <1>1, <3>1, <4>1
    <3>2. CASE k # 0 /\ k \in 0 .. n
      <4>1. k - 1 \in 0 .. n /\ g[k - 1] = f[k - 1] /\ g[k] = f[k] /\ f[k] = E(k, f[k - 1])
        BY <2>1, <2>2, <3>2
      <4> QED
        BY <4>1
    <3>3. CASE k = n + 1
      <4>1. k - 1 = n /\ g[k] = E(k, f[n]) /\ g[n] = f[n]
        BY <2>2, <3>3
      <4> QED
        BY <4>1
    <3> QED
      BY <3>1, <3>2, <3>3
  <2>4. g = [k \in 0 .. (n + 1) |-> E(k, g[k - 1])]
    BY <2>2, <2>3
  <2>5. PathsUpTo(n + 1, g)
    BY <1>0, <2>4
  <2> QED
    BY <2>5
<1> HIDE DEF S
<1>4. \A n \in Nat : n \in S
  BY <1>2, <1>3, NatSetInduction
<1> QED
  BY <1>4 DEF S

\* The paths of each length are those of the one before with a node more.
Layers(N, f) ==
    /\ \A k \in 0 .. N : f[k] = IF k = 0 THEN {<<>>} ELSE NextPaths(f[k - 1])
    /\ Paths = UNION {f[k] : k \in 1 .. N}

LEMMA Layered == \E N \in Nat : N = Cardinality(Nodes) /\ \E f : Layers(N, f)
<1>1. PICK N \in Nat : N = Cardinality(Nodes)
  BY DiscoveryAssumption, FS_CardinalityType DEF DiscoveryAssumption
<1> DEFINE f == CHOOSE f : PathsUpTo(N, f)
<1>2. PathsUpTo(N, f)
  BY PathsExist
<1>3. Paths = UNION {f[k] : k \in 1 .. N}
  BY <1>1 DEF Paths, PathsUpTo
<1> HIDE DEF f
<1>4. \A k \in 0 .. N : f[k] = IF k = 0 THEN {<<>>} ELSE NextPaths(f[k - 1])
  BY <1>2, Zenon DEF PathsUpTo
<1> QED
  BY <1>1, <1>3, <1>4 DEF Layers

Simple(p, k) ==
    /\ p \in Seq(Nodes) /\ Len(p) = k
    /\ \A i, j \in 1 .. k : p[i] = p[j] => i = j

LEMMA ChildrenAreNodes == ASSUME server \in Servers, NEW n \in Nodes PROVE Children(n) \subseteq Nodes
<1>1. server.refs[n] \in Seq(Ref)
  BY DiscoveryAssumption DEF DiscoveryAssumption
<1>2. Range(server.refs[n]) \subseteq Ref
  BY <1>1, LenProperties, ElementOfSeq DEF Range
<1> QED
  BY <1>2 DEF Children, Ref

LEMMA EndIsNode == ASSUME NEW p \in Seq(Nodes) PROVE End(p) \in Nodes
<1>1. CASE p = <<>>
  BY <1>1, DiscoveryAssumption DEF End, DiscoveryAssumption
<1>2. CASE p # <<>>
  <2>1. Len(p) \in 1 .. Len(p)
    BY <1>2, LenProperties, EmptySeq
  <2> QED
    BY <1>2, <2>1, ElementOfSeq DEF End, Last
<1> QED
  BY <1>1, <1>2

LEMMA Lengthened ==
    ASSUME NEW k \in Nat, NEW p, Simple(p, k), NEW n \in Nodes, n \notin Range(p)
    PROVE  Simple(Append(p, n), k + 1)
<1>1. PICK q : q = Append(p, n)
  OBVIOUS
<1>2. q \in Seq(Nodes) /\ Len(q) = k + 1 /\ (\A i \in 1 .. k : q[i] = p[i]) /\ q[k + 1] = n
  BY <1>1, Added DEF Simple
<1>3. DOMAIN p = 1 .. k
  BY LenProperties DEF Simple
<1>4. \A i \in 1 .. k : p[i] # n
  BY <1>3 DEF Range
<1>5. ASSUME NEW i \in 1 .. (k + 1), NEW j \in 1 .. (k + 1), q[i] = q[j] PROVE i = j
  <2>1. (i \in 1 .. k \/ i = k + 1) /\ (j \in 1 .. k \/ j = k + 1)
    OBVIOUS
  <2> QED
    BY <1>2, <1>4, <1>5, <2>1 DEF Simple
<1> QED
  BY <1>1, <1>2, <1>5 DEF Simple

LEMMA LayersSimple ==
    ASSUME server \in Servers, NEW N \in Nat, NEW f, Layers(N, f)
    PROVE  \A k \in 0 .. N : \A p \in f[k] : Simple(p, k)
<1> DEFINE S == {k \in Nat : k <= N => \A p \in f[k] : Simple(p, k)}
<1>1. 0 \in S
  <2>1. Simple(<<>>, 0)
    BY DEF Simple
  <2>2. f[0] = {<<>>}
    BY DEF Layers
  <2> QED
    BY <2>1, <2>2
<1>2. ASSUME NEW k \in Nat, k \in S PROVE k + 1 \in S
  <2> SUFFICES ASSUME k + 1 <= N, NEW p \in f[k + 1] PROVE Simple(p, k + 1)
    OBVIOUS
  <2>1. PICK m \in 0 .. N : m = k + 1 /\ m # 0 /\ m - 1 = k /\ k \in 0 .. N
    OBVIOUS
  <2>2. p \in NextPaths(f[k])
    BY <2>1 DEF Layers
  <2>6. PICK q \in f[k] : p \in Deeper(q)
    BY <2>2 DEF NextPaths
  <2>3. PICK n \in Children(End(q)) : n \notin Range(q) /\ p = Append(q, n)
    BY <2>6 DEF Deeper
  <2>4. Simple(q, k)
    BY <1>2, <2>1
  <2>5. n \in Nodes
    BY <2>3, <2>4, EndIsNode, ChildrenAreNodes DEF Simple
  <2> QED
    BY <2>3, <2>4, <2>5, Lengthened
<1> HIDE DEF S
<1>3. \A k \in Nat : k \in S
  BY <1>1, <1>2, NatSetInduction
<1> QED
  BY <1>3 DEF S

\* No simple path is longer than there are nodes.
LEMMA SimpleIsShort ==
    ASSUME NEW k \in Nat, NEW p, Simple(p, k), NEW N \in Nat, N = Cardinality(Nodes)
    PROVE  k <= N
<1> SUFFICES ASSUME N < k PROVE FALSE
  OBVIOUS
<1>1. PICK S : S = 1 .. k
  OBVIOUS
<1>2. IsFiniteSet(S) /\ Cardinality(S) = k
  BY <1>1, FS_Interval
<1>3. p \in [S -> Nodes]
  BY <1>1, LenProperties, ElementOfSeq DEF Simple
<1>4. IsFiniteSet(Nodes)
  BY DiscoveryAssumption DEF DiscoveryAssumption
<1>5. \E x, y \in S : x # y /\ p[x] = p[y]
  BY <1>2, <1>3, <1>4, FS_PigeonHole
<1> QED
  BY <1>1, <1>5 DEF Simple

\* A path that may be browsed below, or the walk's root.
Route(q) == q = <<>> \/ (q \in Paths /\ Browsed(NamesOf(q)))

LEMMA PathIs ==
    ASSUME server \in Servers, NEW p \in Paths
    PROVE  \E q \in Seq(Nodes) : \E n \in Children(End(q)) :
              p = Append(q, n) /\ Route(q) /\ n \notin Range(q) /\ ~Ignored(n) /\ n \in Nodes
<1>1. PICK N \in Nat : \E f : Layers(N, f)
  BY Layered
<1>2. PICK f : Layers(N, f)
  BY <1>1
<1>3. PICK k \in 1 .. N : p \in f[k]
  BY <1>2 DEF Layers
<1>4. PICK j \in 0 .. N : j = k - 1 /\ k # 0 /\ k \in 0 .. N
  OBVIOUS
<1>5. p \in NextPaths(f[j])
  BY <1>2, <1>3, <1>4 DEF Layers
<1>6. PICK q \in f[j] : (q = <<>> \/ Browsed(NamesOf(q))) /\ p \in Deeper(q)
  BY <1>5 DEF NextPaths
<1>7. PICK n \in Children(End(q)) : n \notin Range(q) /\ ~Ignored(n) /\ p = Append(q, n)
  BY <1>6 DEF Deeper
<1>8. q \in Seq(Nodes)
  BY <1>2, LayersSimple DEF Simple
<1>9. n \in Nodes
  BY <1>8, EndIsNode, ChildrenAreNodes
<1>10. j # 0 => q \in Paths
  <2> SUFFICES ASSUME j # 0 PROVE q \in Paths
    OBVIOUS
  <2>1. j \in 1 .. N
    BY <1>4
  <2> QED
    BY <1>2, <2>1 DEF Layers
<1>11. j = 0 => q = <<>>
  BY <1>2, <1>6 DEF Layers
<1> QED
  BY <1>6, <1>7, <1>8, <1>9, <1>10, <1>11 DEF Route

LEMMA PathGrows ==
    ASSUME server \in Servers, NEW q, Route(q), NEW n \in Children(End(q)), n \notin Range(q), ~Ignored(n)
    PROVE  Append(q, n) \in Paths
<1>1. PICK N \in Nat : N = Cardinality(Nodes) /\ \E f : Layers(N, f)
  BY Layered
<1>2. PICK f : Layers(N, f)
  BY <1>1
<1>3. PICK k \in 0 .. N : q \in f[k]
  <2>1. CASE q = <<>>
    <3>1. f[0] = {<<>>}
      BY <1>2 DEF Layers
    <3> QED
      BY <2>1, <3>1
  <2>2. CASE q \in Paths
    BY <1>2, <2>2 DEF Layers
  <2> QED
    BY <2>1, <2>2 DEF Route
<1>4. Simple(q, k)
  BY <1>2, <1>3, LayersSimple
<1>5. n \in Nodes
  BY <1>4, EndIsNode, ChildrenAreNodes DEF Simple
<1>6. k + 1 <= N
  <2>1. Simple(Append(q, n), k + 1) /\ k + 1 \in Nat
    BY <1>4, <1>5, Lengthened
  <2> QED
    BY <1>1, <2>1, SimpleIsShort
<1>7. PICK m \in 1 .. N : m = k + 1 /\ m \in 0 .. N /\ m # 0 /\ m - 1 = k
  BY <1>6
<1>8. Append(q, n) \in NextPaths(f[k])
  BY <1>3 DEF NextPaths, Deeper, Route
<1>9. Append(q, n) \in f[m]
  BY <1>2, <1>7, <1>8 DEF Layers
<1> QED
  BY <1>2, <1>9 DEF Layers

-----------------------------------------------------------------------------
(* Every path is walked: the references of a batch *)

LEMMA Split ==
    ASSUME NEW S, NEW s \in Seq(S), NEW e \in S
    PROVE  Front(Append(s, e)) = s /\ Last(Append(s, e)) = e /\ Range(Append(s, e)) = Range(s) \cup {e}
<1>1. PICK k \in Nat : k = Len(s)
  BY LenProperties
<1>2. PICK t : t = Append(s, e)
  OBVIOUS
<1>3. t \in Seq(S) /\ Len(t) = k + 1 /\ (\A i \in 1 .. k : t[i] = s[i]) /\ t[k + 1] = e
  BY <1>1, <1>2, Added
<1>4. \A i \in 1 .. k : t[i] \in S
  BY <1>3, ElementOfSeq
<1>5. PICK f : f = SubSeq(t, 1, k)
  OBVIOUS
<1>6. f \in Seq(S) /\ Len(f) = k /\ \A i \in 1 .. k : f[i] = t[i]
  <2>1. /\ f \in Seq(S) /\ Len(f) = (IF 1 <= k THEN k - 1 + 1 ELSE 0)
        /\ \A i \in 1 .. k - 1 + 1 : f[i] = t[1 + i - 1]
    BY <1>4, <1>5, SubSeqProperties
  <2> QED
    BY <2>1
<1>7. f = s
  BY <1>1, <1>3, <1>6, SeqEqual
<1>8. Front(t) = f /\ Last(t) = e
  BY <1>3, <1>5 DEF Front, Last
<1>9. Range(t) = Range(s) \cup {e}
  <2>1. Range(t) = {t[i] : i \in 1 .. (k + 1)} /\ Range(s) = {s[i] : i \in 1 .. k}
    BY <1>1, <1>3, RangeEquality
  <2>2. \A i \in 1 .. (k + 1) : i \in 1 .. k \/ i = k + 1
    OBVIOUS
  <2>3. \A i \in 1 .. k : i \in 1 .. (k + 1)
    OBVIOUS
  <2>4. k + 1 \in 1 .. (k + 1)
    OBVIOUS
  <2> QED
    BY <1>3, <2>1, <2>2, <2>3, <2>4
<1> QED
  BY <1>2, <1>7, <1>8, <1>9

LEMMA NamesAppended ==
    ASSUME server \in Servers, NEW q \in Seq(Nodes), NEW n \in Nodes
    PROVE  NamesOf(Append(q, n)) = Append(NamesOf(q), server.name[n])
<1>1. PICK k \in Nat : k = Len(q) /\ DOMAIN q = 1 .. k
  BY LenProperties
<1>2. PICK t : t = Append(q, n)
  OBVIOUS
<1>3. t \in Seq(Nodes) /\ Len(t) = k + 1 /\ (\A i \in 1 .. k : t[i] = q[i]) /\ t[k + 1] = n /\ DOMAIN t = 1 .. (k + 1)
  BY <1>1, <1>2, Added, LenProperties
<1>4. \A m \in Nodes : server.name[m] \in Names
  BY DiscoveryAssumption DEF DiscoveryAssumption
<1>5. PICK a : a = NamesOf(q)
  OBVIOUS
<1>6. PICK b : b = NamesOf(t)
  OBVIOUS
<1>7. a \in Seq(Names) /\ Len(a) = k /\ \A i \in 1 .. k : a[i] = server.name[q[i]]
  <2>1. a = [i \in 1 .. k |-> server.name[q[i]]]
    BY <1>1, <1>5 DEF NamesOf
  <2>2. \A i \in 1 .. k : server.name[q[i]] \in Names
    BY <1>1, <1>4, ElementOfSeq
  <2> QED
    BY <2>1, <2>2
<1>8. b \in Seq(Names) /\ Len(b) = k + 1 /\ \A i \in 1 .. (k + 1) : b[i] = server.name[t[i]]
  <2>1. b = [i \in 1 .. (k + 1) |-> server.name[t[i]]]
    BY <1>3, <1>6 DEF NamesOf
  <2>2. \A i \in 1 .. (k + 1) : server.name[t[i]] \in Names
    BY <1>3, <1>4, ElementOfSeq
  <2> QED
    BY <2>1, <2>2
<1>9. PICK c : c = Append(a, server.name[n])
  OBVIOUS
<1>10. c \in Seq(Names) /\ Len(c) = k + 1 /\ (\A i \in 1 .. k : c[i] = a[i]) /\ c[k + 1] = server.name[n]
  BY <1>4, <1>7, <1>9, Added
<1>11. ASSUME NEW i \in 1 .. Len(b) PROVE b[i] = c[i]
  <2>1. i \in 1 .. k \/ i = k + 1
    BY <1>8
  <2>2. b[i] = server.name[t[i]]
    BY <1>8
  <2>3. CASE i \in 1 .. k
    BY <1>3, <1>7, <1>10, <2>2, <2>3
  <2>4. CASE i = k + 1
    BY <1>3, <1>10, <2>2, <2>4
  <2> QED
    BY <2>1, <2>3, <2>4
<1>12. b = c
  BY <1>8, <1>10, <1>11, SeqEqual
<1> QED
  BY <1>2, <1>5, <1>6, <1>9, <1>12

\* What Follow makes of the lists, in full.
FollowsTo(acc, entry, n, path, out) ==
    /\ ~Browsed(path) => out.visited = acc.visited /\ out.found = acc.found /\ out.upcoming = acc.upcoming
    /\ Browsed(path) =>
         /\ out.visited = acc.visited \cup {n}
         /\ out.found = IF server.class[n] = "Variable" /\ Trace(path)
                        THEN Append(acc.found, [node |-> n, path |-> entry.path]) ELSE acc.found
         /\ out.upcoming = Append(acc.upcoming, [node |-> n, path |-> path, var |-> server.class[n] = "Variable"])

LEMMA FollowIs ==
    ASSUME NEW acc, Accumulated(acc), NEW entry \in Entries, NEW n, NEW path, path = Append(entry.path, server.name[n]),
           NEW out, out = Follow(acc, entry, n)
    PROVE  FollowsTo(acc, entry, n, path, out)
<1>4. PICK var : var = (server.class[n] = "Variable")
  OBVIOUS
<1>5. PICK counted : /\ counted = IF (IF var THEN Trace(path) ELSE Browsed(path))
                                  THEN [acc EXCEPT !.kept = @ \cup {n}] ELSE [acc EXCEPT !.filtered = @ \cup {n}]
  OBVIOUS
<1>6. /\ counted.found = acc.found /\ counted.upcoming = acc.upcoming /\ counted.visited = acc.visited
      /\ {"visited", "found", "upcoming", "unit", "filtered", "kept"} \subseteq DOMAIN counted
  BY <1>5 DEF Accumulated
<1>7. Follow(acc, entry, n) =
            IF ~Browsed(path) THEN LeftOut(acc, n)
            ELSE [counted EXCEPT
                    !.visited = Visited(@, n),
                    !.found = IF var /\ Trace(path) THEN Append(@, [node |-> n, path |-> entry.path]) ELSE @,
                    !.upcoming = Append(@, [node |-> n, path |-> path, var |-> var])]
  BY <1>4, <1>5, Zenon DEF Follow
<1>8. PICK more : more = IF var /\ Trace(path) THEN Append(acc.found, [node |-> n, path |-> entry.path]) ELSE acc.found
  OBVIOUS
<1>9. PICK next : next = Append(acc.upcoming, [node |-> n, path |-> path, var |-> var])
  OBVIOUS
<1>11. CASE ~Browsed(path)
  <2>1. out.visited = acc.visited /\ out.found = acc.found /\ out.upcoming = acc.upcoming
    BY <1>7, <1>11 DEF LeftOut, Accumulated
  <2> QED
    BY <1>11, <2>1 DEF FollowsTo
<1>12. CASE Browsed(path)
  <2>1. out = [counted EXCEPT !.visited = counted.visited \cup {n}, !.found = more, !.upcoming = next]
    BY <1>6, <1>7, <1>8, <1>9, <1>12 DEF Visited
  <2>2. out.visited = acc.visited \cup {n} /\ out.found = more /\ out.upcoming = next
    BY <1>6, <2>1
  <2> QED
    BY <1>4, <1>8, <1>9, <1>12, <2>2 DEF FollowsTo
<1> QED
  BY <1>11, <1>12

\* An entry is on a route whose nodes were all visited.
On(entry, q, seen) ==
    /\ q \in Seq(Nodes) /\ Route(q) /\ Range(q) \subseteq seen
    /\ entry.node = End(q) /\ entry.path = NamesOf(q)
Queued(list) == {list[j].node : j \in 1 .. Len(list)}
Way(n, names) == \E p \in Paths : Last(p) = n /\ NamesOf(Front(p)) = names /\ Trace(NamesOf(p))
Visit(n, list) ==
    \E p \in Paths :
        /\ Last(p) = n /\ Browsed(NamesOf(p))
        /\ server.class[n] = "Variable" /\ Trace(NamesOf(p)) => n \in Queued(list)

\* What is waiting, visited and found so far was reached along a path.
Reaching(queue, seen, list) ==
    /\ {Root, ServerNode} \subseteq seen
    /\ \A j \in 1 .. Len(queue) : \E q : On(queue[j], q, seen)
    /\ \A n \in seen \ {Root, ServerNode} : Visit(n, list)
    /\ \A i \in 1 .. Len(list) : Way(list[i].node, list[i].path)
Walked(acc) == Reaching(acc.upcoming, acc.visited, acc.found)

\* What is visited is put in the queue, which only grows.
Extends(acc, out) ==
    /\ acc.visited \subseteq out.visited /\ out.visited \subseteq acc.visited \cup Queued(out.upcoming)
    /\ Queued(acc.upcoming) \subseteq Queued(out.upcoming)

\* A child is visited, or left out on this path.
Handled(q, m, seen) ==
    \/ Ignored(m) \/ m \in seen
    \/ Append(q, m) \in Paths /\ ~Browsed(NamesOf(Append(q, m)))

LEMMA QueueGrows ==
    ASSUME NEW S, NEW s \in Seq(S), NEW e \in S
    PROVE  Queued(Append(s, e)) = Queued(s) \cup {e.node}
<1>1. PICK k \in Nat : k = Len(s)
  BY LenProperties
<1>2. PICK t : t = Append(s, e)
  OBVIOUS
<1>3. Len(t) = k + 1 /\ (\A i \in 1 .. k : t[i] = s[i]) /\ t[k + 1] = e
  BY <1>1, <1>2, Added
<1>4. Queued(t) = {t[i].node : i \in 1 .. (k + 1)} /\ Queued(s) = {s[i].node : i \in 1 .. k}
  BY <1>1, <1>3 DEF Queued
<1>5. \A i \in 1 .. (k + 1) : i \in 1 .. k \/ i = k + 1
  OBVIOUS
<1>6. (\A i \in 1 .. k : i \in 1 .. (k + 1)) /\ k + 1 \in 1 .. (k + 1)
  OBVIOUS
<1> QED
  BY <1>2, <1>3, <1>4, <1>5, <1>6

LEMMA FollowWalks ==
    ASSUME server \in Servers, NEW acc, Accumulated(acc), Walked(acc), NEW entry \in Entries, NEW q, On(entry, q, acc.visited),
           NEW n \in Children(entry.node), n \notin acc.visited, ~Ignored(n)
    PROVE  LET out == Follow(acc, entry, n)
           IN  Walked(out) /\ Extends(acc, out) /\ Handled(q, n, out.visited)
<1>1. n \in Nodes /\ n \notin Range(q) /\ n \notin {Root, ServerNode} /\ q \in Seq(Nodes) /\ Route(q)
  BY ChildrenAreNodes, EndIsNode DEF On, Walked, Reaching, Entries
<1>2. PICK p : p = Append(q, n)
  OBVIOUS
<1>3. /\ p \in Seq(Nodes) /\ p # <<>> /\ p \in Paths /\ Front(p) = q /\ Last(p) = n /\ Range(p) = Range(q) \cup {n}
      /\ NamesOf(p) = Append(entry.path, server.name[n]) /\ NamesOf(Front(p)) = entry.path
  <2>1. p \in Paths
    BY <1>1, <1>2, PathGrows DEF On
  <2>2. p \in Seq(Nodes) /\ p # <<>>
    BY <1>1, <1>2, Added
  <2>3. Front(p) = q /\ Last(p) = n /\ Range(p) = Range(q) \cup {n}
    BY <1>1, <1>2, Split
  <2>4. NamesOf(p) = Append(entry.path, server.name[n])
    BY <1>1, <1>2, NamesAppended DEF On
  <2> QED
    BY <2>1, <2>2, <2>3, <2>4 DEF On
<1>4. PICK out : out = Follow(acc, entry, n)
  OBVIOUS
<1>7. FollowsTo(acc, entry, n, NamesOf(p), out)
  BY <1>3, <1>4, FollowIs
<1>5. CASE ~Browsed(NamesOf(p))
  <2>1. out.visited = acc.visited /\ out.found = acc.found /\ out.upcoming = acc.upcoming
    BY <1>5, <1>7 DEF FollowsTo
  <2>2. Walked(out) /\ Extends(acc, out)
    BY <2>1 DEF Walked, Extends
  <2>3. Handled(q, n, out.visited)
    BY <1>2, <1>3, <1>5 DEF Handled
  <2> QED
    BY <1>4, <2>2, <2>3
<1>6. CASE Browsed(NamesOf(p))
  <2>1. PICK e : e = [node |-> n, path |-> NamesOf(p), var |-> server.class[n] = "Variable"]
    OBVIOUS
  <2>2. PICK v : v = [node |-> n, path |-> entry.path]
    OBVIOUS
  <2>3. /\ out.visited = acc.visited \cup {n}
        /\ out.found = IF server.class[n] = "Variable" /\ Trace(NamesOf(p)) THEN Append(acc.found, v) ELSE acc.found
        /\ out.upcoming = Append(acc.upcoming, e)
    BY <1>6, <1>7, <2>1, <2>2 DEF FollowsTo
  <2>4. e.node = n /\ e.path = NamesOf(p) /\ e \in Entries /\ v \in Finds /\ v.node = n /\ v.path = entry.path
    <3>1. entry.path \in Seq(Names) /\ server.name[n] \in Names
      BY <1>1, DiscoveryAssumption DEF Entries, DiscoveryAssumption
    <3>2. NamesOf(p) \in Seq(Names)
      BY <1>3, <3>1, Added
    <3> QED
      BY <1>1, <2>1, <2>2, <3>1, <3>2 DEF Entries, Finds
  <2>5. acc.upcoming \in Seq(Entries) /\ acc.found \in Seq(Finds)
    BY DEF Accumulated, Waiting, Sound
  <2>6. Queued(out.upcoming) = Queued(acc.upcoming) \cup {n}
    BY <2>3, <2>4, <2>5, QueueGrows
  <2>7. Queued(acc.found) \subseteq Queued(out.found)
        /\ (server.class[n] = "Variable" /\ Trace(NamesOf(p)) => n \in Queued(out.found))
    BY <2>3, <2>4, <2>5, QueueGrows
  <2>8. On(e, p, out.visited)
    BY <1>3, <1>6, <2>3, <2>4 DEF On, Route, End
  <2>9. ASSUME NEW j \in 1 .. Len(out.upcoming) PROVE \E r : On(out.upcoming[j], r, out.visited)
    <3>1. PICK k \in Nat : k = Len(acc.upcoming)
      BY <2>5, LenProperties
    <3>2. PICK next : next = out.upcoming
      OBVIOUS
    <3>3. Len(next) = k + 1 /\ (\A i \in 1 .. k : next[i] = acc.upcoming[i]) /\ next[k + 1] = e
      BY <2>3, <2>4, <2>5, <3>1, <3>2, Added
    <3>4. j \in 1 .. k \/ j = k + 1
      BY <3>2, <3>3
    <3>5. CASE j = k + 1
      BY <2>8, <3>2, <3>3, <3>5
    <3>6. CASE j \in 1 .. k
      <4>1. PICK r : On(acc.upcoming[j], r, acc.visited)
        BY <3>1, <3>6 DEF Walked, Reaching
      <4>2. On(acc.upcoming[j], r, out.visited)
        BY <2>3, <4>1 DEF On
      <4> QED
        BY <3>2, <3>3, <3>6, <4>2
    <3> QED
      BY <3>4, <3>5, <3>6
  <2>10. ASSUME NEW m \in out.visited \ {Root, ServerNode} PROVE Visit(m, out.found)
    <3>1. CASE m = n
      BY <1>3, <1>6, <2>7, <3>1 DEF Visit
    <3>2. CASE m # n
      <4>1. Visit(m, acc.found)
        BY <2>3, <3>2 DEF Walked, Reaching
      <4> QED
        BY <2>7, <4>1 DEF Visit
    <3> QED
      BY <3>1, <3>2
  <2>11. ASSUME NEW i \in 1 .. Len(out.found) PROVE Way(out.found[i].node, out.found[i].path)
    <3>1. CASE out.found = acc.found
      BY <3>1 DEF Walked, Reaching
    <3>2. CASE out.found = Append(acc.found, v) /\ Trace(NamesOf(p))
      <4>1. PICK k \in Nat : k = Len(acc.found)
        BY <2>5, LenProperties
      <4>2. PICK more : more = out.found
        OBVIOUS
      <4>3. Len(more) = k + 1 /\ (\A j \in 1 .. k : more[j] = acc.found[j]) /\ more[k + 1] = v
        BY <2>4, <2>5, <3>2, <4>1, <4>2, Added
      <4>4. i \in 1 .. k \/ i = k + 1
        BY <4>2, <4>3
      <4>5. Way(v.node, v.path)
        BY <1>3, <2>4, <3>2 DEF Way
      <4>6. \A j \in 1 .. k : Way(acc.found[j].node, acc.found[j].path)
        BY <4>1 DEF Walked, Reaching
      <4> QED
        BY <4>2, <4>3, <4>4, <4>5, <4>6
    <3> QED
      BY <2>3, <3>1, <3>2
  <2>12. Walked(out)
    BY <2>3, <2>9, <2>10, <2>11 DEF Walked, Reaching
  <2>13. Extends(acc, out) /\ Handled(q, n, out.visited)
    BY <2>3, <2>6 DEF Extends, Handled
  <2> QED
    BY <1>4, <2>12, <2>13
<1> QED
  BY <1>5, <1>6

LEMMA ExtendsFurther ==
    ASSUME NEW a, NEW b, NEW c, Extends(a, b), Extends(b, c)
    PROVE  Extends(a, c)
  BY DEF Extends

TakesTo(acc, q, ref, out) ==
    Walked(out) /\ Extends(acc, out) /\ (ref.kind = "child" => Handled(q, ref.to, out.visited))

LEMMA TakeRefWalks ==
    ASSUME server \in Servers, NEW acc, Accumulated(acc), Walked(acc), NEW entry \in Entries, NEW q, On(entry, q, acc.visited),
           NEW ref \in Ref, ref \in Range(server.refs[entry.node])
    PROVE  TakesTo(acc, q, ref, TakeRef(acc, entry, ref))
<1>1. PICK out : out = TakeRef(acc, entry, ref)
  OBVIOUS
<1>2. Extends(acc, acc)
  BY DEF Extends
<1>3. CASE ref.kind = "property"
  <2>1. PICK u : u = (entry.node :> ref.to) @@ acc.unit
    OBVIOUS
  <2>2. out = acc \/ out = [acc EXCEPT !.unit = u]
    BY <1>1, <1>3, <2>1 DEF TakeRef
  <2>3. out.visited = acc.visited /\ out.found = acc.found /\ out.upcoming = acc.upcoming
    BY <2>2 DEF Accumulated
  <2>4. Walked(out) /\ Extends(acc, out)
    BY <2>3, <1>2 DEF Walked, Extends
  <2> QED
    BY <1>1, <1>3, <2>4 DEF TakesTo
<1>4. CASE ref.kind # "property" /\ (ref.kind = "remote" \/ ref.to \in acc.visited \/ Ignored(ref.to))
  <2>1. out = acc
    BY <1>1, <1>4 DEF TakeRef
  <2>2. ref.kind = "child" => Handled(q, ref.to, acc.visited)
    BY <1>4 DEF Handled
  <2> QED
    BY <1>1, <1>2, <2>1, <2>2 DEF TakesTo
<1>5. CASE ref.kind # "property" /\ ref.kind # "remote" /\ ref.to \notin acc.visited /\ ~Ignored(ref.to)
  <2>1. out = Follow(acc, entry, ref.to)
    BY <1>1, <1>5 DEF TakeRef
  <2>2. ref.to \in Children(entry.node)
    BY <1>5 DEF Children, Walked, Reaching, Ref
  <2>3. Walked(out) /\ Extends(acc, out) /\ Handled(q, ref.to, out.visited)
    BY <1>5, <2>1, <2>2, FollowWalks
  <2> QED
    BY <1>1, <2>3 DEF TakesTo
<1> QED
  BY <1>3, <1>4, <1>5

LEMMA Monotone ==
    ASSUME NEW a, NEW b, Extends(a, b)
    PROVE  /\ \A e, q : On(e, q, a.visited) => On(e, q, b.visited)
           /\ \A q, m : Handled(q, m, a.visited) => Handled(q, m, b.visited)
<1>1. a.visited \subseteq b.visited
  BY DEF Extends
<1> QED
  BY <1>1, Zenon DEF On, Handled

AllTaken(acc, q, refs, n, out) ==
    /\ Accumulated(out) /\ Walked(out) /\ Extends(acc, out)
    /\ \A j \in 1 .. n : refs[j].kind = "child" => Handled(q, refs[j].to, out.visited)

LEMMA TakeRefsWalks ==
    ASSUME server \in Servers, NEW acc, Accumulated(acc), Walked(acc), NEW entry \in Entries, NEW q, On(entry, q, acc.visited),
           NEW refs \in Seq(Ref), Range(refs) \subseteq Range(server.refs[entry.node])
    PROVE  AllTaken(acc, q, refs, Len(refs), TakeRefs(acc, entry, refs))
<1>1. PICK n \in Nat : n = Len(refs) /\ \A j \in 1 .. n : refs[j] \in Ref /\ refs[j] \in Range(server.refs[entry.node])
  BY LenProperties, ElementOfSeq DEF Range
<1> DEFINE f == CHOOSE f : RefsUpTo(acc, entry, refs, n, f)
<1>2. RefsUpTo(acc, entry, refs, n, f)
  BY RefsExist
<1>3. TakeRefs(acc, entry, refs) = f[n]
  BY <1>1 DEF TakeRefs, RefsUpTo
<1> HIDE DEF f
<1>4. \A j \in 0 .. n : f[j] = IF j = 0 THEN acc ELSE TakeRef(f[j - 1], entry, refs[j])
  BY <1>2, Zenon DEF RefsUpTo
<1> DEFINE S == {j \in Nat : j <= n => AllTaken(acc, q, refs, j, f[j])}
<1>5. 0 \in S
  <2>1. f[0] = acc /\ Extends(acc, acc)
    BY <1>4 DEF Extends
  <2>2. AllTaken(acc, q, refs, 0, f[0])
    BY <2>1 DEF AllTaken
  <2> QED
    BY <2>2
<1>6. ASSUME NEW j \in Nat, j \in S PROVE j + 1 \in S
  <2> SUFFICES ASSUME j + 1 <= n PROVE AllTaken(acc, q, refs, j + 1, f[j + 1])
    OBVIOUS
  <2>1. PICK k \in 1 .. n : k = j + 1 /\ k - 1 = j /\ k # 0 /\ k \in 0 .. n
    OBVIOUS
  <2>2. f[k] = TakeRef(f[j], entry, refs[k])
    BY <1>4, <2>1
  <2>3. AllTaken(acc, q, refs, j, f[j]) /\ refs[k] \in Ref /\ refs[k] \in Range(server.refs[entry.node])
    BY <1>1, <1>6, <2>1
  <2>4. Accumulated(f[k])
    BY <2>2, <2>3, TakeRefKeeps DEF AllTaken
  <2>5. On(entry, q, f[j].visited)
    BY <2>3, Monotone DEF AllTaken
  <2>6. TakesTo(f[j], q, refs[k], f[k])
    BY <2>2, <2>3, <2>5, TakeRefWalks DEF AllTaken
  <2>7. ASSUME NEW i \in 1 .. k, refs[i].kind = "child" PROVE Handled(q, refs[i].to, f[k].visited)
    <3>1. i \in 1 .. j \/ i = k
      BY <2>1
    <3>2. CASE i = k
      BY <2>6, <2>7, <3>2 DEF TakesTo
    <3>3. CASE i \in 1 .. j
      <4>1. Handled(q, refs[i].to, f[j].visited) /\ Extends(f[j], f[k])
        BY <2>3, <2>6, <2>7, <3>3 DEF AllTaken, TakesTo
      <4> QED
        BY <4>1, Monotone
    <3> QED
      BY <3>1, <3>2, <3>3
  <2>8. Walked(f[k]) /\ Extends(acc, f[k])
    BY <2>3, <2>6, ExtendsFurther DEF AllTaken, TakesTo
  <2>9. AllTaken(acc, q, refs, k, f[k])
    BY <2>4, <2>7, <2>8 DEF AllTaken
  <2> QED
    BY <2>1, <2>9
<1> HIDE DEF S
<1>7. n \in S
  BY <1>5, <1>6, NatSetInduction
<1> QED
  BY <1>1, <1>3, <1>7 DEF S

\* A node browsed: it failed on its path, or every child of it is handled.
Done(n, seen, fails) ==
    \E q \in Seq(Nodes) :
        /\ Route(q) /\ End(q) = n
        /\ NamesOf(q) \in fails \/ \A m \in Children(n) : Handled(q, m, seen)

LEMMA DoneStays ==
    ASSUME NEW n, NEW seen, NEW fails, Done(n, seen, fails), NEW later, seen \subseteq later, NEW more, fails \subseteq more
    PROVE  Done(n, later, more)
<1>1. PICK q \in Seq(Nodes) :
        Route(q) /\ End(q) = n /\ (NamesOf(q) \in fails \/ \A m \in Children(n) : Handled(q, m, seen))
  BY DEF Done
<1>2. \A m : Handled(q, m, seen) => Handled(q, m, later)
  BY Zenon DEF Handled
<1>3. NamesOf(q) \in more \/ \A m \in Children(n) : Handled(q, m, later)
  BY <1>1, <1>2
<1> QED
  BY <1>1, <1>3 DEF Done

\* Every reference of an entry has come, or the entry failed.
Whole(entry, refs, fails) ==
    /\ Range(refs) \subseteq Range(server.refs[entry.node])
    /\ entry.path \in fails \/ Range(server.refs[entry.node]) \subseteq Range(refs)

BatchTo(n, fails, out) ==
    /\ Accumulated(out) /\ Walked(out) /\ Extends(Untaken, out)
    /\ \A i \in 1 .. n : Done(frontier[i].node, out.visited, fails)

LEMMA TakenWalks ==
    ASSUME server \in Servers, Accumulated(Untaken), Walked(Untaken), NEW n \in Nat, n = Len(call.nodes), NEW fails,
           \A i \in 1 .. n : /\ frontier[i] \in Entries /\ call.refs[i] \in Seq(Ref) /\ Whole(frontier[i], call.refs[i], fails)
                             /\ \E q : On(frontier[i], q, Untaken.visited)
    PROVE  BatchTo(n, fails, Taken)
<1> DEFINE f == CHOOSE f : BatchUpTo(n, f)
<1>2. BatchUpTo(n, f)
  BY BatchExists
<1>3. Taken = f[n]
  BY DEF Taken, BatchUpTo
<1> HIDE DEF f
<1>4. \A i \in 0 .. n : f[i] = IF i = 0 THEN Untaken ELSE TakeRefs(f[i - 1], frontier[i], call.refs[i])
  BY <1>2, Zenon DEF BatchUpTo
<1> DEFINE S == {i \in Nat : i <= n => BatchTo(i, fails, f[i])}
<1>5. 0 \in S
  <2>1. f[0] = Untaken /\ Extends(Untaken, Untaken)
    BY <1>4 DEF Extends
  <2>2. BatchTo(0, fails, f[0])
    BY <2>1 DEF BatchTo
  <2> QED
    BY <2>2
<1>6. ASSUME NEW i \in Nat, i \in S PROVE i + 1 \in S
  <2> SUFFICES ASSUME i + 1 <= n PROVE BatchTo(i + 1, fails, f[i + 1])
    OBVIOUS
  <2>1. PICK k \in 1 .. n : k = i + 1 /\ k - 1 = i /\ k # 0 /\ k \in 0 .. n
    OBVIOUS
  <2>2. f[k] = TakeRefs(f[i], frontier[k], call.refs[k])
    BY <1>4, <2>1
  <2>3. BatchTo(i, fails, f[i])
    BY <1>6, <2>1
  <2>4. PICK entry \in Entries : entry = frontier[k]
    OBVIOUS
  <2>5. PICK refs \in Seq(Ref) : refs = call.refs[k]
    OBVIOUS
  <2>6. PICK q : On(entry, q, f[i].visited)
    BY <2>3, <2>4, Monotone DEF BatchTo
  <2>7. Whole(entry, refs, fails)
    BY <2>4, <2>5
  <2>8. AllTaken(f[i], q, refs, Len(refs), f[k])
    BY <2>2, <2>3, <2>4, <2>5, <2>6, <2>7, TakeRefsWalks DEF BatchTo, Whole
  <2>9. Extends(Untaken, f[k]) /\ f[i].visited \subseteq f[k].visited
    BY <2>3, <2>8, ExtendsFurther DEF BatchTo, AllTaken, Extends
  <2>10. Done(entry.node, f[k].visited, fails)
    <3>1. q \in Seq(Nodes) /\ Route(q) /\ End(q) = entry.node /\ NamesOf(q) = entry.path
      BY <2>6 DEF On
    <3>2. ASSUME entry.path \notin fails, NEW m \in Children(entry.node) PROVE Handled(q, m, f[k].visited)
      <4>1. PICK ref \in Range(refs) : ref.kind = "child" /\ ref.to = m
        BY <2>7, <3>2 DEF Whole, Children
      <4>2. PICK j \in 1 .. Len(refs) : ref = refs[j]
        BY <4>1, RangeEquality
      <4> QED
        BY <2>8, <4>1, <4>2 DEF AllTaken
    <3> QED
      BY <3>1, <3>2 DEF Done
  <2>11. ASSUME NEW j \in 1 .. k PROVE Done(frontier[j].node, f[k].visited, fails)
    <3>1. j \in 1 .. i \/ j = k
      BY <2>1
    <3>2. CASE j \in 1 .. i
      BY <2>3, <2>9, <3>2, DoneStays DEF BatchTo
    <3> QED
      BY <2>4, <2>10, <3>1, <3>2
  <2>12. BatchTo(k, fails, f[k])
    BY <2>8, <2>9, <2>11 DEF BatchTo, AllTaken
  <2> QED
    BY <2>1, <2>12
<1> HIDE DEF S
<1>7. n \in S
  BY <1>5, <1>6, NatSetInduction
<1> QED
  BY <1>3, <1>7 DEF S

-----------------------------------------------------------------------------
(* Every path is walked: the pages of a batch *)

\* A page and what is beyond it are the whole.
Halved(s, page, a, b) ==
    /\ Range(a) \subseteq Range(s) /\ Range(b) \subseteq Range(s) /\ Range(s) \subseteq Range(a) \cup Range(b)
    /\ Len(s) <= page => Range(s) \subseteq Range(a)

LEMMA Halves ==
    ASSUME NEW S, NEW s \in Seq(S), NEW page \in Nat, NEW a, a = SubSeq(s, 1, Min({page, Len(s)})),
           NEW b, b = SubSeq(s, page + 1, Len(s))
    PROVE  Halved(s, page, a, b)
<1>1. PICK k \in Nat : k = Len(s) /\ \A i \in 1 .. k : s[i] \in S
  BY LenProperties, ElementOfSeq
<1>2. PICK m \in Nat : m = Min({page, k}) /\ m <= k /\ m <= page /\ (m = page \/ m = k)
  BY <1>1, MinOf
<1>3. a \in Seq(S) /\ Len(a) = m /\ \A i \in 1 .. m : a[i] = s[i]
  <2>1. a = SubSeq(s, 1, m)
    BY <1>1, <1>2
  <2>2. \A i \in 1 .. m : s[i] \in S
    BY <1>1, <1>2
  <2>4. PICK t : t = SubSeq(s, 1, m)
    OBVIOUS
  <2>3. /\ t \in Seq(S) /\ Len(t) = (IF 1 <= m THEN m - 1 + 1 ELSE 0)
        /\ \A i \in 1 .. m - 1 + 1 : t[i] = s[1 + i - 1]
    BY <2>2, <2>4, SubSeqProperties
  <2>5. t \in Seq(S) /\ Len(t) = m /\ \A i \in 1 .. m : t[i] = s[i]
    BY <2>3
  <2> QED
    BY <2>1, <2>4, <2>5
<1>4. PICK l \in Nat : l = page + 1
  OBVIOUS
<1>5. /\ b \in Seq(S) /\ Len(b) = (IF l <= k THEN k - l + 1 ELSE 0)
      /\ \A i \in 1 .. k - l + 1 : b[i] = s[l + i - 1]
  <2>1. b = SubSeq(s, l, k)
    BY <1>1, <1>4
  <2>2. \A i \in l .. k : s[i] \in S
    BY <1>1, <1>4
  <2> QED
    BY <2>1, <2>2, SubSeqProperties
<1>6. /\ Range(s) = {s[i] : i \in 1 .. k} /\ Range(a) = {a[i] : i \in 1 .. m}
      /\ Range(b) = {b[i] : i \in 1 .. Len(b)}
  <2>3. a \in Seq(S) /\ b \in Seq(S)
    BY <1>3, <1>5
  <2>4. \A t \in Seq(S) : Range(t) = {t[i] : i \in 1 .. Len(t)}
    BY RangeEquality
  <2>1. Range(a) = {a[i] : i \in 1 .. Len(a)} /\ Range(b) = {b[i] : i \in 1 .. Len(b)}
    BY <2>3, <2>4
  <2>2. Range(s) = {s[i] : i \in 1 .. Len(s)}
    BY RangeEquality
  <2> QED
    BY <1>1, <1>3, <2>1, <2>2
<1>7. ASSUME NEW i \in 1 .. m PROVE a[i] \in Range(s)
  BY <1>2, <1>3, <1>6
<1>8. ASSUME NEW i \in 1 .. Len(b) PROVE b[i] \in Range(s)
  <2>1. l <= k /\ i \in 1 .. k - l + 1
    BY <1>5
  <2>2. l + i - 1 \in 1 .. k
    BY <1>4, <2>1
  <2> QED
    BY <1>5, <1>6, <2>1, <2>2
<1>9. ASSUME NEW i \in 1 .. k PROVE s[i] \in Range(a) \/ (~(k <= page) /\ s[i] \in Range(b))
  <2>1. CASE i <= m
    <3>1. i \in 1 .. m
      BY <2>1
    <3> QED
      BY <1>3, <1>6, <3>1
  <2>2. CASE ~(i <= m)
    <3>1. PICK j \in Nat : j = i - l + 1 /\ l <= k /\ ~(k <= page) /\ j \in 1 .. k - l + 1 /\ l + j - 1 = i
      BY <1>2, <1>4, <2>2
    <3>2. b[j] = s[i] /\ j \in 1 .. Len(b)
      BY <1>5, <3>1
    <3> QED
      BY <1>6, <3>1, <3>2
  <2> QED
    BY <2>1, <2>2
<1> QED
  BY <1>1, <1>6, <1>7, <1>8, <1>9 DEF Halved

\* What came of each node of the batch, and what its continuation point still holds.
Fetched ==
    /\ \A i \in 1 .. Len(call.nodes) : Range(call.refs[i]) \subseteq Range(server.refs[call.nodes[i]])
    /\ \A n \in DOMAIN points : Range(points[n]) \subseteq Range(server.refs[n])
    /\ \A i \in (1 .. Len(call.nodes)) \ (call.failed \cup call.refused) :
          \A ref \in Range(server.refs[call.nodes[i]]) :
              ref \in Range(call.refs[i]) \/ (i \in call.pending /\ ref \in Range(points[call.nodes[i]]))

LEMMA PagesAre ==
    ASSUME server \in Servers, NEW n \in Nodes
    PROVE  /\ Range(FirstPage(n)) \subseteq Range(server.refs[n]) /\ Range(Beyond(server.refs[n])) \subseteq Range(server.refs[n])
           /\ Range(server.refs[n]) \subseteq Range(FirstPage(n)) \cup Range(Beyond(server.refs[n]))
           /\ ~NeedsPoint(n) => Range(server.refs[n]) \subseteq Range(FirstPage(n))
<1>1. server.refs[n] \in Seq(Ref) /\ server.page \in Nat
  BY DiscoveryAssumption DEF DiscoveryAssumption
<1>2. PICK s \in Seq(Ref) : s = server.refs[n]
  BY <1>1
<1>3. PICK a : a = SubSeq(s, 1, Min({server.page, Len(s)}))
  OBVIOUS
<1>4. PICK b : b = SubSeq(s, server.page + 1, Len(s))
  OBVIOUS
<1>5. Halved(s, server.page, a, b)
  BY <1>1, <1>3, <1>4, Halves
<1>6. FirstPage(n) = a /\ Beyond(server.refs[n]) = b
  BY <1>2, <1>3, <1>4 DEF FirstPage, Beyond
<1>7. ~NeedsPoint(n) => Len(s) <= server.page
  BY <1>1, <1>2, LenProperties DEF NeedsPoint
<1> QED
  BY <1>2, <1>5, <1>6, <1>7 DEF Halved

LEMMA SendFetches ==
    ASSUME server \in Servers, Asking, Fetched, DOMAIN points = {}, call.pending = {}, NEW nodes \in Seq(Nodes),
           NEW S, S \subseteq 1 .. Len(nodes), NEW retry \in BOOLEAN,
           IF retry THEN S = 1 .. Len(nodes) ELSE nodes = call.nodes, SendBrowse(nodes, S, retry), server' = server
    PROVE  Fetched'
<1>1. DOMAIN nodes = 1 .. Len(nodes) /\ \A i \in 1 .. Len(nodes) : nodes[i] \in Nodes
  BY LenProperties, ElementOfSeq
<1>2. PICK a \in Answers({nodes[i] : i \in S}) :
        LET ok    == {i \in S : nodes[i] \notin a.bad /\ (NeedsPoint(nodes[i]) => nodes[i] \in a.given)}
            noPoint == {i \in S \ ok : nodes[i] \notin a.bad}
            old   == IF retry THEN [i \in DOMAIN nodes |-> <<>>] ELSE call.refs
        IN  /\ call' = [nodes |-> nodes, retry |-> retry,
                        refs |-> [i \in DOMAIN nodes |-> IF i \in ok THEN FirstPage(nodes[i]) ELSE old[i]],
                        failed |-> (IF retry THEN {} ELSE call.failed) \cup ((S \ ok) \ Refused(noPoint, retry)),
                        pending |-> {i \in ok : nodes[i] \in a.given},
                        refused |-> (IF retry THEN {} ELSE call.refused \ S) \cup Refused(noPoint, retry)]
            /\ points' = Holding(a.given) /\ faulty' = faulty \cup a.bad
  BY DEF SendBrowse
<1>3. PICK ok : ok = {i \in S : nodes[i] \notin a.bad /\ (NeedsPoint(nodes[i]) => nodes[i] \in a.given)}
  OBVIOUS
<1>4. PICK old : old = IF retry THEN [i \in DOMAIN nodes |-> <<>>] ELSE call.refs
  OBVIOUS
<1>5. PICK noPoint : noPoint = {i \in S \ ok : nodes[i] \notin a.bad}
  OBVIOUS
<1>6. /\ call' = [nodes |-> nodes, retry |-> retry,
                  refs |-> [i \in DOMAIN nodes |-> IF i \in ok THEN FirstPage(nodes[i]) ELSE old[i]],
                  failed |-> (IF retry THEN {} ELSE call.failed) \cup ((S \ ok) \ Refused(noPoint, retry)),
                  pending |-> {i \in ok : nodes[i] \in a.given},
                  refused |-> (IF retry THEN {} ELSE call.refused \ S) \cup Refused(noPoint, retry)]
      /\ points' = Holding(a.given)
  BY <1>2, <1>3, <1>4, <1>5, Zenon
<1>7. /\ call'.nodes = nodes
      /\ call'.refs = [i \in DOMAIN nodes |-> IF i \in ok THEN FirstPage(nodes[i]) ELSE old[i]]
      /\ call'.failed = (IF retry THEN {} ELSE call.failed) \cup ((S \ ok) \ Refused(noPoint, retry))
      /\ call'.pending = {i \in ok : nodes[i] \in a.given}
      /\ call'.refused = (IF retry THEN {} ELSE call.refused \ S) \cup Refused(noPoint, retry)
  BY <1>6
<1>8. /\ DOMAIN points' = a.given /\ \A n \in a.given : points'[n] = Beyond(server.refs[n])
      /\ a.given \subseteq {nodes[i] : i \in S}
  BY <1>6 DEF Holding, Answers
<1>9. ASSUME NEW i \in 1 .. Len(nodes) PROVE Range(call'.refs[i]) \subseteq Range(server.refs[nodes[i]])
  <2>1. CASE i \in ok
    BY <1>1, <1>7, <2>1, PagesAre
  <2>2. CASE i \notin ok /\ retry
    <3>1. call'.refs[i] = <<>>
      BY <1>1, <1>4, <1>7, <2>2
    <3> QED
      BY <3>1 DEF Range
  <2>3. CASE i \notin ok /\ ~retry
    <3>1. call'.refs[i] = call.refs[i] /\ nodes = call.nodes
      BY <1>1, <1>4, <1>7, <2>3
    <3> QED
      BY <3>1 DEF Fetched
  <2> QED
    BY <2>1, <2>2, <2>3
<1>10. ASSUME NEW n \in DOMAIN points' PROVE Range(points'[n]) \subseteq Range(server.refs[n])
  <2>1. n \in Nodes /\ points'[n] = Beyond(server.refs[n])
    BY <1>1, <1>8
  <2> QED
    BY <2>1, PagesAre
<1>11. ASSUME NEW i \in (1 .. Len(nodes)) \ (call'.failed \cup call'.refused), NEW ref \in Range(server.refs[nodes[i]])
       PROVE  ref \in Range(call'.refs[i]) \/ (i \in call'.pending /\ ref \in Range(points'[nodes[i]]))
  <2>1. CASE i \in ok
    <3>1. call'.refs[i] = FirstPage(nodes[i])
      BY <1>1, <1>7, <2>1
    <3>2. CASE NeedsPoint(nodes[i])
      <4>1. nodes[i] \in a.given /\ i \in call'.pending
        BY <1>3, <1>7, <2>1, <3>2
      <4> QED
        BY <1>1, <1>8, <3>1, <4>1, PagesAre
    <3>3. CASE ~NeedsPoint(nodes[i])
      BY <1>1, <3>1, <3>3, PagesAre
    <3> QED
      BY <3>2, <3>3
  <2>2. CASE i \notin ok
    <3>1. i \notin S
      BY <1>7, <1>11, <2>2
    <3>2. ~retry /\ nodes = call.nodes
      BY <3>1
    <3>3. i \notin call.failed \cup call.refused
      BY <1>7, <1>11, <3>1, <3>2
    <3>4. ref \in Range(call.refs[i])
      BY <1>11, <3>2, <3>3 DEF Fetched
    <3>5. call'.refs[i] = call.refs[i]
      BY <1>1, <1>4, <1>7, <2>2, <3>2
    <3> QED
      BY <3>4, <3>5
  <2> QED
    BY <2>1, <2>2
<1>12. /\ \A i \in 1 .. Len(nodes) : Range(call'.refs[i]) \subseteq Range(server.refs[nodes[i]])
       /\ \A n \in DOMAIN points' : Range(points'[n]) \subseteq Range(server.refs[n])
       /\ \A i \in (1 .. Len(nodes)) \ (call'.failed \cup call'.refused) :
             \A ref \in Range(server.refs[nodes[i]]) :
                 ref \in Range(call'.refs[i]) \/ (i \in call'.pending /\ ref \in Range(points'[nodes[i]]))
  BY <1>9, <1>10, <1>11
<1> QED
  BY <1>7, <1>12 DEF Fetched

LEMMA NextFetches == ASSUME Inv, Fetched, BrowseNext PROVE Fetched'
<1>1. server' = server /\ server \in Servers
  BY DEF BrowseNext, Inv
<1>2. PICK bad \in SUBSET call.pending :
        LET hit  == {call.nodes[i] : i \in bad}
            page == [i \in call.pending \ bad |->
                        SubSeq(points[call.nodes[i]], 1, Min({server.page, Len(points[call.nodes[i]])}))]
            over == {i \in call.pending \ bad : Len(points[call.nodes[i]]) <= server.page}
            left == {call.nodes[i] : i \in call.pending \ (bad \cup over)}
        IN  /\ call' = [call EXCEPT !.failed = @ \cup bad,
                                    !.refs = [i \in DOMAIN @ |-> IF i \in DOMAIN page THEN @[i] \o page[i] ELSE @[i]],
                                    !.pending = Pending(bad, over)]
            /\ points' = [n \in left |-> Beyond(points[n])]
            /\ faulty' = faulty \cup hit
  BY Zenon DEF BrowseNext
<1>3. PICK page : page = [i \in call.pending \ bad |->
                            SubSeq(points[call.nodes[i]], 1, Min({server.page, Len(points[call.nodes[i]])}))]
  OBVIOUS
<1>4. PICK over : over = {i \in call.pending \ bad : Len(points[call.nodes[i]]) <= server.page}
  OBVIOUS
<1>5. PICK refs : refs = [i \in DOMAIN call.refs |-> IF i \in DOMAIN page THEN call.refs[i] \o page[i] ELSE call.refs[i]]
  OBVIOUS
<1>6. /\ call' = [call EXCEPT !.failed = @ \cup bad,
                              !.refs = [i \in DOMAIN @ |-> IF i \in DOMAIN page THEN @[i] \o page[i] ELSE @[i]],
                              !.pending = Pending(bad, over)]
      /\ points' = [n \in {call.nodes[i] : i \in call.pending \ (bad \cup over)} |-> Beyond(points[n])]
  BY <1>2, <1>3, <1>4, Zenon
<1>7. /\ call'.nodes = call.nodes /\ call'.failed = call.failed \cup bad
      /\ call'.refs = refs /\ call'.pending = call.pending \ (bad \cup over) /\ call'.refused = call.refused
  BY <1>5, <1>6 DEF Inv, Asking, Fields, Pending
<1>8. server.page \in Nat
  BY DiscoveryAssumption DEF Inv, DiscoveryAssumption
<1>9. DOMAIN call.refs = 1 .. Len(call.nodes) /\ call.pending \subseteq 1 .. Len(call.nodes)
      /\ \A i \in 1 .. Len(call.nodes) : call.refs[i] \in Seq(Ref)
  BY DEF Inv, Asking
<1>10. ASSUME NEW i \in call.pending \ bad
       PROVE  /\ points[call.nodes[i]] \in Seq(Ref) /\ Range(points[call.nodes[i]]) \subseteq Range(server.refs[call.nodes[i]])
              /\ Range(refs[i]) = Range(call.refs[i]) \cup Range(page[i])
              /\ Range(page[i]) \subseteq Range(points[call.nodes[i]])
              /\ Range(points[call.nodes[i]]) \subseteq Range(page[i]) \cup Range(Beyond(points[call.nodes[i]]))
              /\ Range(Beyond(points[call.nodes[i]])) \subseteq Range(points[call.nodes[i]])
              /\ i \in over => Range(points[call.nodes[i]]) \subseteq Range(page[i])
  <2>1. points[call.nodes[i]] \in Seq(Ref) /\ Range(points[call.nodes[i]]) \subseteq Range(server.refs[call.nodes[i]])
    BY DEF Inv, Asking, Fetched
  <2>2. PICK s \in Seq(Ref) : s = points[call.nodes[i]]
    BY <2>1
  <2>3. PICK a : a = SubSeq(s, 1, Min({server.page, Len(s)}))
    OBVIOUS
  <2>4. PICK b : b = SubSeq(s, server.page + 1, Len(s))
    OBVIOUS
  <2>5. Halved(s, server.page, a, b)
    BY <1>8, <2>3, <2>4, Halves
  <2>6. page[i] = a /\ Beyond(s) = b /\ (i \in over => Len(s) <= server.page)
    BY <1>3, <1>4, <2>2, <2>3, <2>4 DEF Beyond
  <2>7. a \in Seq(Ref)
    <3>1. PICK k \in Nat : k = Min({server.page, Len(s)}) /\ k <= Len(s)
      BY <1>8, LenProperties, MinOf
    <3> QED
      BY <2>3, <3>1, Parts
  <2>8. refs[i] = call.refs[i] \o a
    BY <1>3, <1>5, <1>9, <2>6
  <2>9. Range(refs[i]) = Range(call.refs[i]) \cup Range(a)
    BY <1>9, <2>7, <2>8, RangeConcatenation
  <2> QED
    BY <2>1, <2>2, <2>5, <2>6, <2>9 DEF Halved
<1>11. ASSUME NEW i \in 1 .. Len(call.nodes), i \notin call.pending \ bad PROVE refs[i] = call.refs[i]
  BY <1>3, <1>5, <1>9, <1>11
<1>12. ASSUME NEW i \in 1 .. Len(call.nodes) PROVE Range(refs[i]) \subseteq Range(server.refs[call.nodes[i]])
  BY <1>10, <1>11 DEF Fetched
<1>13. /\ DOMAIN points' = {call.nodes[i] : i \in call.pending \ (bad \cup over)}
       /\ \A i \in call.pending \ (bad \cup over) : points'[call.nodes[i]] = Beyond(points[call.nodes[i]])
  BY <1>6
<1>14. ASSUME NEW n \in DOMAIN points' PROVE Range(points'[n]) \subseteq Range(server.refs[n])
  <2>1. PICK i \in call.pending \ (bad \cup over) : n = call.nodes[i]
    BY <1>13
  <2> QED
    BY <1>10, <1>13, <2>1
<1>15. ASSUME NEW i \in (1 .. Len(call.nodes)) \ (call.failed \cup bad \cup call.refused),
              NEW ref \in Range(server.refs[call.nodes[i]])
       PROVE  ref \in Range(refs[i]) \/ (i \in call.pending \ (bad \cup over) /\ ref \in Range(points'[call.nodes[i]]))
  <2>1. ref \in Range(call.refs[i]) \/ (i \in call.pending /\ ref \in Range(points[call.nodes[i]]))
    BY <1>15 DEF Fetched
  <2>2. CASE i \notin call.pending
    BY <1>11, <2>1, <2>2
  <2>3. CASE i \in over
    BY <1>4, <1>10, <2>1, <2>3
  <2>4. CASE i \in call.pending \ (bad \cup over)
    BY <1>10, <1>13, <2>1, <2>4
  <2> QED
    BY <1>15, <2>2, <2>3, <2>4
<1>16. /\ \A i \in 1 .. Len(call.nodes) : Range(refs[i]) \subseteq Range(server.refs[call.nodes[i]])
       /\ \A n \in DOMAIN points' : Range(points'[n]) \subseteq Range(server.refs[n])
       /\ \A i \in (1 .. Len(call.nodes)) \ (call.failed \cup bad \cup call.refused) :
             \A ref \in Range(server.refs[call.nodes[i]]) :
                 ref \in Range(refs[i]) \/ (i \in call.pending \ (bad \cup over) /\ ref \in Range(points'[call.nodes[i]]))
  BY <1>12, <1>14, <1>15
<1> QED
  BY <1>1, <1>7, <1>16 DEF Fetched

-----------------------------------------------------------------------------
(* Every path is walked: the walk *)

\* The walk so far: every node visited waits to be browsed, or was.
Covers ==
    /\ Reaching(upcoming, visited, found)
    /\ \A j \in 1 .. Len(frontier) : \E q : On(frontier[j], q, visited)
    /\ \A n \in {Root} \cup (visited \ {ServerNode}) :
          n \in Queued(frontier) \cup Queued(upcoming) \/ Done(n, visited, failed)
    /\ stage = "found" => frontier = <<>> /\ upcoming = <<>>

\* What is said of a walk depends on the server alone.
LEMMA SameServer ==
    ASSUME server' = server
    PROVE  /\ \A e, q, seen : On(e, q, seen) => On(e, q, seen)'
           /\ \A n, list : Visit(n, list) => Visit(n, list)'
           /\ \A n, names : Way(n, names) => Way(n, names)'
           /\ \A n, seen, fails : Done(n, seen, fails) => Done(n, seen, fails)'
<1>1. Paths' = Paths
  BY SMTT(30) DEF Paths, NextPaths, Deeper, Children, Ignored, End, Browsed, Excluded, Included, Reachable, Traced, NamesOf
<1>2. \A p : Browsed(p)' <=> Browsed(p)
  BY Zenon DEF Browsed, Excluded, Included, Reachable
<1>3. \A p : Trace(p)' <=> Trace(p)
  BY Zenon DEF Trace, Excluded, Included
<1>4. \A p : NamesOf(p)' = NamesOf(p)
  BY DEF NamesOf
<1>5. \A n : Children(n)' = Children(n)
  BY DEF Children
<1>6. \A n : Ignored(n)' <=> Ignored(n)
  BY DEF Ignored
<1>7. \A q : Route(q)' <=> Route(q)
  BY <1>1, <1>2, <1>4 DEF Route
<1>8. \A q, m, seen : Handled(q, m, seen)' <=> Handled(q, m, seen)
  BY <1>1, <1>2, <1>4, <1>6 DEF Handled
<1>9. \A e, q, seen : On(e, q, seen) => On(e, q, seen)'
  BY <1>4, <1>7 DEF On
<1>10. \A n, list : Visit(n, list) => Visit(n, list)'
  BY <1>1, <1>2, <1>3, <1>4 DEF Visit
<1>11. \A n, names : Way(n, names) => Way(n, names)'
  BY <1>1, <1>3, <1>4 DEF Way
<1>12. \A n, seen, fails : Done(n, seen, fails) => Done(n, seen, fails)'
  BY <1>4, <1>5, <1>7, <1>8 DEF Done
<1> QED
  BY <1>9, <1>10, <1>11, <1>12

LEMMA CoversFrom ==
    ASSUME server' = server,
           NEW wait, wait = frontier', NEW queue, queue = upcoming', NEW seen, seen = visited', NEW list, list = found',
           NEW fails, fails = failed', Reaching(queue, seen, list), \A j \in 1 .. Len(wait) : \E q : On(wait[j], q, seen),
           \A n \in {Root} \cup (seen \ {ServerNode}) : n \in Queued(wait) \cup Queued(queue) \/ Done(n, seen, fails),
           stage' = "found" => wait = <<>> /\ queue = <<>>
    PROVE  Covers'
<1>1. Reaching(queue, seen, list)'
  BY SameServer DEF Reaching
<1>2. \A j \in 1 .. Len(wait) : \E q : On(wait[j], q, seen)'
  BY SameServer
<1>3. \A n \in {Root} \cup (seen \ {ServerNode}) : n \in Queued(wait) \cup Queued(queue) \/ Done(n, seen, fails)'
  BY SameServer
<1> QED
  BY <1>1, <1>2, <1>3 DEF Covers

LEMMA CoverStarts == Init => Covers /\ Fetched
<1> SUFFICES ASSUME Init PROVE Covers /\ Fetched
  OBVIOUS
<1>1. PICK e : e = [node |-> Root, path |-> <<>>, var |-> FALSE]
  OBVIOUS
<1>2. /\ frontier = <<e>> /\ upcoming = <<>> /\ visited = {Root, ServerNode} /\ found = <<>> /\ failed = {}
      /\ call = Idle /\ points = <<>> /\ stage = "walking"
  BY <1>1 DEF Init
<1>3. On(e, <<>>, visited)
  BY <1>1 DEF On, Route, End, NamesOf, Range
<1>4. Len(<<e>>) = 1 /\ <<e>>[1] = e
  OBVIOUS
<1>5. \A j \in 1 .. Len(frontier) : \E q : On(frontier[j], q, visited)
  <2>1. \A j \in 1 .. Len(frontier) : frontier[j] = e
    BY <1>2, <1>4
  <2> QED
    BY <1>3, <2>1
<1>6. Root \in Queued(frontier)
  BY <1>1, <1>2, <1>4 DEF Queued
<1>7. Reaching(upcoming, visited, found)
  BY <1>2 DEF Reaching
<1>8. Covers
  BY <1>2, <1>5, <1>6, <1>7 DEF Covers
<1>9. Fetched
  BY <1>2 DEF Fetched, Idle
<1> QED
  BY <1>8, <1>9

LEMMA CoverWaits ==
    ASSUME Covers, server' = server, UNCHANGED walked, stage' = "found" => stage = "found"
    PROVE  Covers'
  BY CoversFrom DEF Covers, walked

LEMMA FetchedAlike == ASSUME Fetched, server' = server, UNCHANGED <<call, points>> PROVE Fetched'
  BY DEF Fetched

LEMMA BatchFetches == ASSUME Inv, Fetched, BrowseBatch PROVE Fetched'
<1>1. server' = server /\ call = Idle /\ SendBrowse([i \in Batch |-> frontier[i].node], Batch, TRUE)
  BY DEF BrowseBatch
<1>2. call.pending = {} /\ DOMAIN points = {}
  BY <1>1, Held DEF Idle, Inv
<1>3. Len(frontier) \in Nat /\ \A i \in 1 .. Len(frontier) : frontier[i].node \in Nodes
  <2>1. frontier \in Seq(Entries)
    BY DEF Inv, Waiting
  <2>2. Len(frontier) \in Nat /\ \A i \in 1 .. Len(frontier) : frontier[i] \in Entries
    BY <2>1, LenProperties, ElementOfSeq
  <2> QED
    BY <2>2 DEF Entries
<1>4. PICK k \in Nat : Batch = 1 .. k /\ k <= Len(frontier)
  <2>1. Limit(server.maxBrowse) \in Nat
    BY DiscoveryAssumption DEF Inv, DiscoveryAssumption, Limit
  <2> QED
    BY <1>3, <2>1, MinOf DEF Batch
<1>5. PICK nodes : nodes = [i \in 1 .. k |-> frontier[i].node]
  OBVIOUS
<1>6. nodes \in Seq(Nodes) /\ Len(nodes) = k
  BY <1>3, <1>4, <1>5
<1> QED
  BY <1>1, <1>2, <1>4, <1>5, <1>6, SendFetches DEF Inv

LEMMA AloneFetches == ASSUME Inv, Fetched, BrowseAlone PROVE Fetched'
<1>1. /\ server' = server /\ call.pending = {} /\ call.refused # {}
      /\ SendBrowse(call.nodes, {Min(call.refused)}, FALSE)
  BY DEF BrowseAlone
<1>2. call.refused \subseteq 1 .. Len(call.nodes) /\ call.nodes \in Seq(Nodes) /\ DOMAIN points = {}
  BY <1>1, Held DEF Inv, Asking
<1>3. call.refused \subseteq Nat
  <2>1. Len(call.nodes) \in Nat
    BY <1>2, LenProperties
  <2> QED
    BY <1>2, <2>1
<1>4. {Min(call.refused)} \subseteq 1 .. Len(call.nodes)
  BY <1>1, <1>2, <1>3, MinIs
<1> QED
  BY <1>1, <1>2, <1>4, SendFetches DEF Inv

LEMMA TakeFetches == ASSUME Inv, Take PROVE Fetched'
<1>1. server' = server /\ call' = Idle /\ points' = points /\ call.pending = {}
  BY DEF Take
<1>2. DOMAIN points' = {}
  BY <1>1, Held DEF Inv
<1>3. call'.nodes = <<>>
  BY <1>1 DEF Idle
<1> QED
  BY <1>2, <1>3 DEF Fetched

\* What is left of the frontier is what the batch did not have.
Left(rest, n, k) ==
    /\ \A i \in 1 .. Len(rest) : \E j \in (n + 1) .. k : rest[i] = frontier[j]
    /\ \A j \in (n + 1) .. k : frontier[j].node \in Queued(rest)
    /\ rest = <<>> => Queued(rest) = {}

LEMMA RestIs ==
    ASSUME Inv, NEW n \in Nat, n = Len(call.nodes), NEW k \in Nat, k = Len(frontier)
    PROVE  Left(Rest, n, k)
<1>1. \A i \in 1 .. k : frontier[i] \in Entries
  BY LenProperties, ElementOfSeq DEF Inv, Waiting
<1>2. PICK l \in Nat : l = n + 1
  OBVIOUS
<1>3. PICK rest : rest = SubSeq(frontier, l, k)
  OBVIOUS
<1>4. /\ Len(rest) = (IF l <= k THEN k - l + 1 ELSE 0)
      /\ \A i \in 1 .. k - l + 1 : rest[i] = frontier[l + i - 1]
  <2>1. \A i \in l .. k : frontier[i] \in Entries
    BY <1>1, <1>2
  <2> QED
    BY <1>3, <2>1, SubSeqProperties
<1>5. ASSUME NEW i \in 1 .. Len(rest) PROVE \E j \in (n + 1) .. k : rest[i] = frontier[j]
  <2>1. l <= k /\ i \in 1 .. k - l + 1
    BY <1>4
  <2>2. l + i - 1 \in (n + 1) .. k
    BY <1>2, <2>1
  <2> QED
    BY <1>4, <2>1, <2>2
<1>6. ASSUME NEW j \in (n + 1) .. k PROVE frontier[j].node \in Queued(rest)
  <2>3. j \in Nat /\ l <= j /\ j <= k
    BY <1>2
  <2>1. PICK i \in Nat : i = j - l + 1 /\ i \in 1 .. k - l + 1 /\ l <= k /\ l + i - 1 = j
    BY <2>3
  <2>2. rest[i] = frontier[j] /\ i \in 1 .. Len(rest)
    BY <1>4, <2>1
  <2> QED
    BY <2>2 DEF Queued
<1>7. rest = <<>> => Queued(rest) = {}
  BY DEF Queued
<1>8. Rest = rest
  BY <1>2, <1>3 DEF Rest
<1> QED
  BY <1>5, <1>6, <1>7, <1>8 DEF Left

LEMMA CoverTakes == ASSUME Inv, Covers, Fetched, Take PROVE Covers'
<1>1. /\ server' = server /\ failed' = failed \cup {frontier[i].path : i \in call.failed}
      /\ call.pending = {} /\ call.refused = {} /\ stage = "walking" /\ server \in Servers
  BY DEF Take, Inv
<1>2. PICK taken : /\ taken = Taken
                   /\ frontier' = IF Rest = <<>> THEN taken.upcoming ELSE Rest
                   /\ upcoming' = IF Rest = <<>> THEN <<>> ELSE taken.upcoming
                   /\ visited' = taken.visited /\ found' = taken.found
                   /\ stage' = IF Rest = <<>> /\ taken.upcoming = <<>> THEN "found" ELSE stage
  BY DEF Take
<1>3. PICK n \in Nat, k \in Nat : n = Len(call.nodes) /\ k = Len(frontier) /\ n <= k
  BY LenProperties DEF Inv, Waiting, Asking, Batched
<1>4. \A i \in 1 .. k : frontier[i] \in Entries
  BY <1>3, LenProperties, ElementOfSeq DEF Inv, Waiting
<1>5. PICK fails : fails = failed'
  OBVIOUS
<1>6. PICK acc : acc = Untaken
  OBVIOUS
<1>7. /\ {"visited", "found", "upcoming", "unit", "filtered", "kept"} \subseteq DOMAIN acc
      /\ acc.upcoming = upcoming /\ acc.found = found /\ acc.visited = visited /\ acc.kept = kept
  BY <1>6 DEF Untaken
<1>8. Accumulated(acc) /\ Walked(acc)
  BY <1>7 DEF Accumulated, Walked, Inv, Covers
<1>9. ASSUME NEW i \in 1 .. n
      PROVE  /\ frontier[i] \in Entries /\ call.refs[i] \in Seq(Ref) /\ Whole(frontier[i], call.refs[i], fails)
             /\ \E q : On(frontier[i], q, acc.visited)
  <2>1. call.nodes[i] = frontier[i].node /\ call.refs[i] \in Seq(Ref)
    BY <1>3 DEF Inv, Batched, Asking
  <2>2. \E q : On(frontier[i], q, acc.visited)
    BY <1>3, <1>7 DEF Covers
  <2>3. Range(call.refs[i]) \subseteq Range(server.refs[frontier[i].node])
    BY <1>3, <2>1 DEF Fetched
  <2>4. i \in call.failed => frontier[i].path \in fails
    BY <1>1, <1>5
  <2>5. ASSUME i \notin call.failed PROVE Range(server.refs[frontier[i].node]) \subseteq Range(call.refs[i])
    <3>1. i \in (1 .. Len(call.nodes)) \ (call.failed \cup call.refused) /\ i \notin call.pending
      BY <1>1, <1>3, <2>5
    <3> QED
      BY <2>1, <3>1 DEF Fetched
  <2>6. frontier[i] \in Entries
    BY <1>3, <1>4
  <2>7. Whole(frontier[i], call.refs[i], fails)
    BY <2>3, <2>4, <2>5 DEF Whole
  <2> QED
    BY <2>1, <2>2, <2>6, <2>7
<1>10. BatchTo(n, fails, taken)
  BY <1>1, <1>2, <1>3, <1>6, <1>8, <1>9, TakenWalks
<1>11. /\ Walked(taken) /\ visited \subseteq taken.visited /\ taken.visited \subseteq visited \cup Queued(taken.upcoming)
       /\ Queued(upcoming) \subseteq Queued(taken.upcoming) /\ \A i \in 1 .. n : Done(frontier[i].node, taken.visited, fails)
  BY <1>6, <1>7, <1>10 DEF BatchTo, Extends
<1>12. PICK wait, queue : wait = frontier' /\ queue = upcoming'
  OBVIOUS
<1>13. Left(Rest, n, k)
  BY <1>3, RestIs
<1>14. Queued(wait) \cup Queued(queue) = Queued(Rest) \cup Queued(taken.upcoming)
  BY <1>2, <1>12, <1>13 DEF Left
<1>15. Reaching(queue, taken.visited, taken.found)
  <2>1. Reaching(taken.upcoming, taken.visited, taken.found)
    BY <1>11 DEF Walked
  <2>2. Reaching(<<>>, taken.visited, taken.found)
    BY <2>1 DEF Reaching
  <2> QED
    BY <1>2, <1>12, <2>1, <2>2
<1>16. ASSUME NEW j \in 1 .. Len(wait) PROVE \E q : On(wait[j], q, taken.visited)
  <2>1. CASE Rest = <<>>
    BY <1>2, <1>11, <1>12, <2>1 DEF Walked, Reaching
  <2>2. CASE Rest # <<>>
    <3>1. PICK m \in (n + 1) .. k : wait[j] = frontier[m]
      BY <1>2, <1>12, <1>13, <2>2 DEF Left
    <3>2. m \in 1 .. Len(frontier)
      BY <1>3
    <3>3. PICK q : On(frontier[m], q, visited)
      BY <3>2 DEF Covers
    <3>4. On(frontier[m], q, taken.visited)
      BY <1>11, <3>3 DEF On
    <3> QED
      BY <3>1, <3>4
  <2> QED
    BY <2>1, <2>2
<1>17. ASSUME NEW m \in {Root} \cup (taken.visited \ {ServerNode})
       PROVE  m \in Queued(wait) \cup Queued(queue) \/ Done(m, taken.visited, fails)
  <2>1. CASE m \in Queued(taken.upcoming)
    BY <1>14, <2>1
  <2>2. CASE m \notin Queued(taken.upcoming)
    <3>1. m \in {Root} \cup (visited \ {ServerNode})
      BY <1>11, <2>2
    <3>2. m \in Queued(frontier) \/ Done(m, visited, failed)
      BY <1>11, <2>2, <3>1 DEF Covers
    <3>3. CASE Done(m, visited, failed)
      <4>1. failed \subseteq fails
        BY <1>1, <1>5
      <4> QED
        BY <1>11, <3>3, <4>1, DoneStays
    <3>4. CASE m \in Queued(frontier)
      <4>1. PICK j \in 1 .. k : m = frontier[j].node
        BY <1>3, <3>4 DEF Queued
      <4>2. j \in 1 .. n \/ j \in (n + 1) .. k
        BY <1>3
      <4>3. CASE j \in 1 .. n
        BY <1>11, <4>1, <4>3
      <4>4. CASE j \in (n + 1) .. k
        BY <1>13, <1>14, <4>1, <4>4 DEF Left
      <4> QED
        BY <4>2, <4>3, <4>4
    <3> QED
      BY <3>2, <3>3, <3>4
  <2> QED
    BY <2>1, <2>2
<1>18. stage' = "found" => wait = <<>> /\ queue = <<>>
  BY <1>1, <1>2, <1>12
<1> QED
  BY <1>1, <1>2, <1>5, <1>12, <1>15, <1>16, <1>17, <1>18, CoversFrom

LEMMA CoversHolds == Spec => [](Inv /\ Covers /\ Fetched)
<1>1. Init => Inv /\ Covers /\ Fetched
  BY Starts, CoverStarts
<1>2. ASSUME Inv /\ Covers /\ Fetched, Inv', [Next]_vars PROVE (Inv /\ Covers /\ Fetched)'
  <2>1. CASE BrowseBatch
    <3>1. server' = server /\ UNCHANGED walked /\ stage' = stage
      BY <2>1 DEF BrowseBatch
    <3> QED
      BY <1>2, <2>1, <3>1, CoverWaits, BatchFetches
  <2>2. CASE BrowseNext
    <3>1. server' = server /\ UNCHANGED walked /\ stage' = stage
      BY <2>2 DEF BrowseNext
    <3> QED
      BY <1>2, <2>2, <3>1, CoverWaits, NextFetches
  <2>3. CASE BrowseAlone
    <3>1. server' = server /\ UNCHANGED walked /\ stage' = stage
      BY <2>3 DEF BrowseAlone
    <3> QED
      BY <1>2, <2>3, <3>1, CoverWaits, AloneFetches
  <2>4. CASE Take
    BY <1>2, <2>4, CoverTakes, TakeFetches
  <2>5. CASE Describe \/ NameNodes \/ Raises \/ UNCHANGED vars
    <3>1. server' = server /\ UNCHANGED walked /\ UNCHANGED <<call, points>> /\ (stage' = "found" => stage = "found")
      BY <2>5 DEF Describe, NameNodes, Raises, vars
    <3> QED
      BY <1>2, <3>1, CoverWaits, FetchedAlike
  <2> QED
    BY <1>2, <2>1, <2>2, <2>3, <2>4, <2>5 DEF Next, Walk
<1> QED
  BY <1>1, <1>2, InvHolds, PTL DEF Spec

\* A path ends at a child of the walk's root or of a node that may be browsed below.
EndsAt(p, q, n) ==
    /\ q \in Seq(Nodes) /\ n \in Nodes /\ p = Append(q, n) /\ Route(q) /\ n \in Children(End(q)) /\ ~Ignored(n)
    /\ Front(p) = q /\ Last(p) = n /\ Range(p) = Range(q) \cup {n} /\ n \notin {Root, ServerNode} /\ p \in Seq(Nodes) /\ p # <<>>
    /\ End(p) = n

LEMMA PathEnds == ASSUME server \in Servers, NEW p \in Paths PROVE \E q, n : EndsAt(p, q, n)
<1>1. PICK q \in Seq(Nodes) :
        \E n \in Children(End(q)) : p = Append(q, n) /\ Route(q) /\ n \notin Range(q) /\ ~Ignored(n) /\ n \in Nodes
  BY PathIs
<1>2. PICK n \in Children(End(q)) : p = Append(q, n) /\ Route(q) /\ ~Ignored(n) /\ n \in Nodes
  BY <1>1
<1>3. Front(p) = q /\ Last(p) = n /\ Range(p) = Range(q) \cup {n}
  BY <1>2, Split
<1>4. p \in Seq(Nodes) /\ p # <<>>
  BY <1>2, Added
<1>5. n \notin {Root, ServerNode}
  BY DEF Children
<1> QED
  BY <1>2, <1>3, <1>4, <1>5 DEF EndsAt, End

\* A path to a node the walk did not visit has a node on it that failed.
Excused(p) == <<>> \in failed \/ \E q \in Paths : Last(q) \in Range(p) /\ NamesOf(q) \in failed
Agreed == \A p, q \in Paths : Last(p) = Last(q) => Agree(p, q)

\* Where the filters agree and both may be browsed, they agree on what is traced.
LEMMA AgreedTrace ==
    ASSUME Agreed, NEW p \in Paths, NEW q \in Paths, Last(p) = Last(q), Browsed(NamesOf(p)), Browsed(NamesOf(q)),
           Trace(NamesOf(p))
    PROVE  Trace(NamesOf(q))
<1>1. Agree(p, q)
  BY DEF Agreed
<1> QED
  BY <1>1, Zenon DEF Agree

LEMMA AgreedBrowse ==
    ASSUME Agreed, NEW p \in Paths, NEW q \in Paths, Last(p) = Last(q), Browsed(NamesOf(p)),
           Front(p) = Front(q) \/ (Front(p) # <<>> /\ Front(q) # <<>> /\ Last(Front(p)) = Last(Front(q)))
    PROVE  Browsed(NamesOf(q))
<1>1. Agree(p, q)
  BY DEF Agreed
<1> QED
  BY <1>1, Zenon DEF Agree

\* The walk is over: every node visited was browsed.
Over == \A n \in {Root} \cup (visited \ {ServerNode}) : Done(n, visited, failed)

LEMMA StepReached ==
    ASSUME server \in Servers, Over, Agreed, NEW p \in Paths, Browsed(NamesOf(p)), NEW q, NEW n, EndsAt(p, q, n),
           q = <<>> \/ (q \in Paths /\ Last(q) \in visited)
    PROVE  n \in visited \/ Excused(p)
<1>1. PICK e : e = End(q)
  OBVIOUS
<1>2. q # <<>> => e = Last(q) /\ e \in Range(p) /\ e \notin {Root, ServerNode} /\ q \in Paths
  <2> SUFFICES ASSUME q # <<>> PROVE e = Last(q) /\ e \in Range(p) /\ e \notin {Root, ServerNode} /\ q \in Paths
    OBVIOUS
  <2>1. e = Last(q) /\ q \in Paths
    BY <1>1 DEF End
  <2>2. PICK q2, m : EndsAt(q, q2, m)
    BY <2>1, PathEnds
  <2> QED
    BY <2>1, <2>2 DEF EndsAt
<1>3. q = <<>> => e = Root
  BY <1>1 DEF End
<1>4. Done(e, visited, failed)
  BY <1>2, <1>3 DEF Over
<1>5. PICK r \in Seq(Nodes) :
        Route(r) /\ End(r) = e /\ (NamesOf(r) \in failed \/ \A m \in Children(e) : Handled(r, m, visited))
  BY <1>4 DEF Done
<1>6. r # <<>> => e = Last(r) /\ e # Root /\ r \in Paths
  <2> SUFFICES ASSUME r # <<>> PROVE e = Last(r) /\ e # Root /\ r \in Paths
    OBVIOUS
  <2>1. e = Last(r) /\ r \in Paths
    BY <1>5 DEF End, Route
  <2>2. PICK q2, m : EndsAt(r, q2, m)
    BY <2>1, PathEnds
  <2> QED
    BY <2>1, <2>2 DEF EndsAt
<1>7. r = <<>> => e = Root
  BY <1>5 DEF End
<1>8. q = r \/ (q # <<>> /\ r # <<>> /\ Last(q) = Last(r))
  BY <1>2, <1>3, <1>6, <1>7
<1>9. CASE NamesOf(r) \in failed
  <2>1. CASE r = <<>>
    <3>1. NamesOf(r) = <<>>
      BY <2>1 DEF NamesOf
    <3> QED
      BY <1>9, <3>1 DEF Excused
  <2>2. CASE r # <<>>
    <3>1. q # <<>>
      BY <1>3, <1>6, <2>2
    <3> QED
      BY <1>2, <1>6, <1>9, <2>2, <3>1 DEF Excused
  <2> QED
    BY <2>1, <2>2
<1>10. CASE \A m \in Children(e) : Handled(r, m, visited)
  <2>1. Handled(r, n, visited) /\ ~Ignored(n)
    BY <1>1, <1>10 DEF EndsAt
  <2>2. CASE n \in visited
    BY <2>2
  <2>3. CASE Append(r, n) \in Paths /\ ~Browsed(NamesOf(Append(r, n)))
    <3>1. PICK s : s = Append(r, n)
      OBVIOUS
    <3>2. Front(s) = r /\ Last(s) = n
      BY <1>5, <3>1, Split DEF EndsAt
    <3>3. Front(p) = q /\ Last(p) = n
      BY DEF EndsAt
    <3>4. Browsed(NamesOf(s))
      BY <1>8, <2>3, <3>1, <3>2, <3>3, AgreedBrowse
    <3> QED
      BY <2>3, <3>1, <3>4
  <2> QED
    BY <2>1, <2>2, <2>3 DEF Handled
<1> QED
  BY <1>5, <1>9, <1>10

LEMMA ExcusedBeyond ==
    ASSUME NEW p, NEW q, NEW n, EndsAt(p, q, n), Excused(q)
    PROVE  Excused(p)
  BY DEF Excused, EndsAt

\* Every path that may be browsed was walked to its end, or has a node on it that failed.
LEMMA AllReached ==
    ASSUME server \in Servers, Over, Agreed
    PROVE  \A p \in Paths : Browsed(NamesOf(p)) => Last(p) \in visited \/ Excused(p)
<1> DEFINE Met(p) == Browsed(NamesOf(p)) => Last(p) \in visited \/ Excused(p)
           S == {k \in Nat : \A p \in Paths : Len(p) = k => Met(p)}
<1>1. 0 \in S
  <2>1. ASSUME NEW p \in Paths PROVE Len(p) # 0
    <3>1. PICK q, n : EndsAt(p, q, n)
      BY PathEnds
    <3>2. p \in Seq(Nodes) /\ p # <<>>
      BY <3>1 DEF EndsAt
    <3> QED
      BY <3>2, EmptySeq
  <2> QED
    BY <2>1
<1>2. ASSUME NEW k \in Nat, k \in S PROVE k + 1 \in S
  <2>1. ASSUME NEW p \in Paths, Len(p) = k + 1, Browsed(NamesOf(p)) PROVE Last(p) \in visited \/ Excused(p)
    <3>1. PICK q, n : EndsAt(p, q, n)
      BY PathEnds
    <3>2. q = <<>> \/ (q \in Paths /\ Browsed(NamesOf(q)) /\ Len(q) = k)
      <4>1. Len(q) \in Nat /\ Len(p) = Len(q) + 1
        BY <3>1, Added DEF EndsAt
      <4> QED
        BY <2>1, <3>1, <4>1 DEF EndsAt, Route
    <3>3. q = <<>> \/ (q \in Paths /\ (Last(q) \in visited \/ Excused(q)))
      BY <1>2, <3>2
    <3>4. CASE q # <<>> /\ Excused(q)
      BY <3>1, <3>4, ExcusedBeyond
    <3>5. CASE q = <<>> \/ (q \in Paths /\ Last(q) \in visited)
      <4>1. n \in visited \/ Excused(p)
        BY <2>1, <3>1, <3>5, StepReached
      <4> QED
        BY <3>1, <4>1 DEF EndsAt
    <3> QED
      BY <3>3, <3>4, <3>5
  <2> QED
    BY <2>1
<1> HIDE DEF S
<1>3. \A k \in Nat : k \in S
  BY <1>1, <1>2, NatSetInduction
<1>4. ASSUME NEW p \in Paths PROVE Met(p)
  <2>1. PICK q, n : EndsAt(p, q, n)
    BY PathEnds
  <2>2. Len(p) \in Nat
    BY <2>1, LenProperties DEF EndsAt
  <2> QED
    BY <1>3, <2>2 DEF S
<1> QED
  BY <1>4

\* Nothing is lost without a word (discovery.py walk): whatever is shared, paged, refused a
\* continuation point or filtered out on another path, a Variable on a path the filters keep
\* is found, or a node on the path is reported as failed, where the filters agree on every
\* shared node; and what is found is on such a path.
THEOREM NothingIsMissed == Spec => []FoundOrReported
<1>1. Inv /\ Covers => FoundOrReported
  <2> SUFFICES ASSUME Inv, Covers, stage = "found" PROVE FoundOrReported
    BY DEF FoundOrReported
  <2>1. frontier = <<>> /\ upcoming = <<>> /\ server \in Servers /\ found \in Seq(Finds)
    BY DEF Inv, Covers, Sound
  <2>2. Queued(frontier) = {} /\ Queued(upcoming) = {}
    BY <2>1 DEF Queued
  <2>3. Over
    BY <2>2 DEF Covers, Over
  <2>4. Range(found) = {found[i] : i \in 1 .. Len(found)}
    BY <2>1, RangeEquality
  <2>5. FoundNodes = Queued(found)
    BY <2>4 DEF FoundNodes, Queued
  <2>6. ASSUME NEW v \in Range(found)
        PROVE  \E p \in Paths : Last(p) = v.node /\ NamesOf(Front(p)) = v.path /\ Trace(NamesOf(p))
    <3>1. PICK i \in 1 .. Len(found) : v = found[i]
      BY <2>4
    <3>2. Way(v.node, v.path)
      BY <3>1 DEF Covers, Reaching
    <3> QED
      BY <3>2 DEF Way
  <2>7. ASSUME Agreed, NEW p \in Paths, server.class[Last(p)] = "Variable", Trace(NamesOf(p))
        PROVE  Last(p) \in FoundNodes \/ Excused(p)
    <3>1. Browsed(NamesOf(p))
      BY <2>7 DEF Trace, Browsed
    <3>2. Last(p) \in visited \/ Excused(p)
      BY <2>1, <2>3, <2>7, <3>1, AllReached
    <3>3. CASE Last(p) \in visited
      <4>1. Last(p) \notin {Root, ServerNode}
        <5>1. PICK q, n : EndsAt(p, q, n)
          BY <2>1, PathEnds
        <5> QED
          BY <5>1 DEF EndsAt
      <4>2. Visit(Last(p), found)
        BY <3>3, <4>1 DEF Covers, Reaching
      <4>3. PICK q \in Paths :
              /\ Last(q) = Last(p) /\ Browsed(NamesOf(q))
              /\ server.class[Last(p)] = "Variable" /\ Trace(NamesOf(q)) => Last(p) \in Queued(found)
        BY <4>2 DEF Visit
      <4>4. Trace(NamesOf(q))
        BY <2>7, <3>1, <4>3, AgreedTrace
      <4> QED
        BY <2>5, <2>7, <4>3, <4>4
    <3> QED
      BY <3>2, <3>3
  <2> QED
    BY <2>6, <2>7 DEF FoundOrReported, Agreed, Excused
<1> QED
  BY <1>1, CoversHolds, PTL

-----------------------------------------------------------------------------
(* Describing *)

\* The answers to the first m items, one after the other.
Prefix(items, m) == [i \in 1 .. m |-> Answer(items[i])]

\* A batch is answered item by item, whether or not it decodes as a whole.
LEMMA ReceivedIs == ASSUME NEW batch PROVE Received(batch) = [i \in DOMAIN batch |-> Answer(batch[i])]
<1>1. ASSUME NEW i \in DOMAIN batch
      PROVE  (IF Decodes(<<batch[i]>>) THEN Answer(batch[i]) ELSE Garbled) = Answer(batch[i])
  <2>1. Decodes(<<batch[i]>>) <=> Answer(batch[i]) # Garbled
    <3>1. PICK one : one = <<batch[i]>>
      OBVIOUS
    <3>2. DOMAIN one = {1} /\ one[1] = batch[i]
      BY <3>1
    <3> QED
      BY <3>1, <3>2, Zenon DEF Decodes
  <2> QED
    BY <2>1
<1> QED
  BY <1>1 DEF Received

LEMMA DivIs ==
    ASSUME NEW n \in Nat, NEW d \in Nat \ {0}
    PROVE  LET q == n \div d IN q \in Nat /\ q * d <= n /\ n < q * d + d
  OBVIOUS

LEMMA Products ==
    ASSUME NEW a \in Int, NEW b \in Int, NEW d \in Nat
    PROVE  a * d \in Int /\ (a - 1) * d = a * d - d /\ (a <= b => a * d <= b * d)
  OBVIOUS

\* The first requests are full and the last has what is left.
LEMMA RequestsAre ==
    ASSUME NEW S, NEW items \in Seq(S), NEW size \in Nat \ {0}
    PROVE  /\ Requests(items, size) \in Nat /\ Len(items) <= Requests(items, size) * size
           /\ \A k \in 1 .. Requests(items, size) : (k - 1) * size < Len(items)
<1>1. PICK n \in Nat : n = Len(items) /\ n + size - 1 \in Nat
  BY LenProperties
<1>2. PICK q : q = Requests(items, size)
  OBVIOUS
<1>3. q \in Nat /\ q * size <= n + size - 1 /\ n + size - 1 < q * size + size
  BY <1>1, <1>2, DivIs DEF Requests
<1>4. PICK w \in Int : w = q * size /\ w <= n + size - 1 /\ n + size - 1 < w + size
  BY <1>3, Products
<1>5. ASSUME NEW k \in 1 .. q PROVE (k - 1) * size < n
  <2>1. PICK v \in Int : v = k * size /\ (k - 1) * size = v - size /\ v <= w
    BY <1>3, <1>4, Products
  <2> QED
    BY <1>1, <1>4, <2>1
<1> QED
  BY <1>1, <1>2, <1>3, <1>4, <1>5

\* How many answers there are after k requests.
Upto(items, size, k) == Min({k * size, Len(items)})

\* A batch is the items after position a, up to position h.
Consecutive(batch, items, a, h) ==
    DOMAIN batch = 1 .. h - a /\ \A p \in 1 .. h - a : batch[p] = items[p + a]

LEMMA RequestedIs ==
    ASSUME NEW S, NEW items \in Seq(S), NEW size \in Nat \ {0}, NEW k \in 1 .. Requests(items, size)
    PROVE  \E a \in Nat, h \in Nat :
              /\ a = Upto(items, size, k - 1) /\ h = Upto(items, size, k) /\ a < h /\ h <= Len(items)
              /\ Consecutive(Requested(items, size, k), items, a, h)
<1>1. PICK n \in Nat : n = Len(items) /\ \A i \in 1 .. n : items[i] \in S
  BY LenProperties, ElementOfSeq
<1>2. k \in Nat \ {0} /\ (k - 1) * size < n
  BY <1>1, RequestsAre
<1>3. PICK a \in Int, b \in Int : a = (k - 1) * size /\ b = k * size /\ a = b - size
  BY <1>2, Products
<1>4. a \in Nat
  <2>1. 0 * size <= (k - 1) * size /\ 0 * size = 0
    BY <1>2, Products
  <2> QED
    BY <1>3, <2>1
<1>5. PICK h \in Nat : h = Min({b, n}) /\ h <= n /\ h <= b /\ (h = b \/ h = n)
  BY <1>1, <1>3, <1>4, MinOf
<1>6. a < h
  BY <1>2, <1>3, <1>5
<1>7. Min({a, n}) = a
  <2>1. Min({a, n}) <= n /\ Min({a, n}) \in {a, n} /\ Min({a, n}) <= a
    BY <1>4, MinOf
  <2> QED
    BY <1>2, <1>3, <1>4, <2>1
<1>8. Requested(items, size, k) = SubSeq(items, a + 1, h)
  BY <1>1, <1>3, <1>5 DEF Requested
<1>9. PICK c \in Int : c = a + 1
  BY <1>4
<1>10. \A i \in c .. h : items[i] \in S
  BY <1>1, <1>4, <1>5, <1>9
<1>11. /\ Len(SubSeq(items, c, h)) = (IF c <= h THEN h - c + 1 ELSE 0)
       /\ SubSeq(items, c, h) \in Seq(S)
       /\ \A i \in 1 .. h - c + 1 : SubSeq(items, c, h)[i] = items[c + i - 1]
  BY <1>10, SubSeqProperties
<1>12. PICK batch : batch = SubSeq(items, c, h)
  OBVIOUS
<1>13. DOMAIN batch = 1 .. Len(batch) /\ Len(batch) = h - a
  <2>1. h - c + 1 = h - a /\ c <= h
    BY <1>4, <1>6, <1>9
  <2> QED
    BY <1>11, <1>12, <2>1, LenProperties
<1>14. ASSUME NEW p \in 1 .. h - a PROVE batch[p] = items[p + a]
  <2>1. c + p - 1 = p + a /\ p \in 1 .. h - c + 1
    BY <1>4, <1>9
  <2> QED
    BY <1>11, <1>12, <2>1
<1>15. Consecutive(Requested(items, size, k), items, a, h)
  BY <1>8, <1>9, <1>12, <1>13, <1>14 DEF Consecutive
<1> QED
  BY <1>1, <1>3, <1>4, <1>5, <1>6, <1>7, <1>15 DEF Upto

\* A list is its first part followed by the rest.
Piece(f, a, m) == [p \in 1 .. m |-> f[p + a]]

LEMMA TwoParts ==
    ASSUME NEW f, NEW a \in Nat, NEW h \in Nat, a <= h
    PROVE  [i \in 1 .. h |-> f[i]] = [i \in 1 .. a |-> f[i]] \o Piece(f, a, h - a)
<1>1. PICK S : S = {f[i] : i \in 1 .. h}
  OBVIOUS
<1>2. PICK x, z : x = [i \in 1 .. a |-> f[i]] /\ z = [i \in 1 .. h |-> f[i]]
  OBVIOUS
<1>3. PICK m \in Nat : m = h - a
  OBVIOUS
<1>0. PICK r : r = Piece(f, a, m)
  OBVIOUS
<1>4. x \in Seq(S) /\ Len(x) = a
  <2>1. \A i \in 1 .. a : f[i] \in S
    BY <1>1
  <2> QED
    BY <1>2, <2>1
<1>5. r \in Seq(S) /\ Len(r) = m
  <2>1. \A i \in 1 .. m : f[i + a] \in S
    BY <1>1, <1>3
  <2>2. r = [i \in 1 .. m |-> f[i + a]]
    BY <1>0 DEF Piece
  <2> QED
    BY <2>1, <2>2
<1>6. /\ x \o r \in Seq(S) /\ Len(x \o r) = a + m
      /\ \A i \in 1 .. a + m : (x \o r)[i] = IF i <= a THEN x[i] ELSE r[i - a]
  BY <1>4, <1>5, ConcatProperties
<1>7. PICK y : y = x \o r
  OBVIOUS
<1>8. y = [i \in 1 .. h |-> y[i]]
  <2>1. Len(y) = h /\ y \in Seq(S)
    BY <1>3, <1>6, <1>7
  <2> QED
    BY <2>1
<1>9. ASSUME NEW i \in 1 .. h PROVE y[i] = f[i]
  <2>1. i \in 1 .. a + m
    BY <1>3
  <2>2. CASE i <= a
    BY <1>2, <1>6, <1>7, <2>1, <2>2
  <2>3. CASE ~(i <= a)
    <3>1. i - a \in 1 .. m /\ (i - a) + a = i
      BY <1>3, <2>3
    <3>2. r[i - a] = f[i]
      BY <1>0, <3>1 DEF Piece
    <3> QED
      BY <1>6, <1>7, <2>1, <2>3, <3>2
  <2> QED
    BY <2>2, <2>3
<1>10. z = y
  BY <1>2, <1>8, <1>9
<1> QED
  BY <1>0, <1>2, <1>3, <1>7, <1>10

LEMMA Gathers ==
    ASSUME NEW S, NEW items \in Seq(S), NEW size \in Nat \ {0}, NEW k \in 1 .. Requests(items, size)
    PROVE  Prefix(items, Upto(items, size, k))
             = Prefix(items, Upto(items, size, k - 1)) \o Received(Requested(items, size, k))
<1>1. PICK a \in Nat, h \in Nat :
        /\ a = Upto(items, size, k - 1) /\ h = Upto(items, size, k) /\ a < h /\ h <= Len(items)
        /\ Consecutive(Requested(items, size, k), items, a, h)
  BY RequestedIs
<1>2. PICK f : f = [i \in 1 .. h |-> Answer(items[i])]
  OBVIOUS
<1>3. PICK r : r = Received(Requested(items, size, k))
  OBVIOUS
<1>4. r = Piece(f, a, h - a)
  <2>1. PICK batch : batch = Requested(items, size, k)
    OBVIOUS
  <2>2. r = [p \in 1 .. h - a |-> Answer(batch[p])]
    BY <1>1, <1>3, <2>1, ReceivedIs, Zenon DEF Consecutive
  <2>3. ASSUME NEW p \in 1 .. h - a PROVE Answer(batch[p]) = f[p + a]
    <3>1. p + a \in 1 .. h
      BY <1>1
    <3>2. batch[p] = items[p + a]
      BY <1>1, <2>1, Zenon DEF Consecutive
    <3>3. f[p + a] = Answer(items[p + a])
      BY <1>2, <3>1
    <3> QED
      BY <3>2, <3>3
  <2> QED
    BY <2>2, <2>3 DEF Piece
<1>5. [i \in 1 .. h |-> f[i]] = [i \in 1 .. a |-> f[i]] \o r
  <2>1. a <= h
    BY <1>1
  <2>2. [i \in 1 .. h |-> f[i]] = [i \in 1 .. a |-> f[i]] \o Piece(f, a, h - a)
    BY <2>1, TwoParts, Zenon
  <2> QED
    BY <1>4, <2>2, Zenon
<1>6. [i \in 1 .. h |-> f[i]] = Prefix(items, h) /\ [i \in 1 .. a |-> f[i]] = Prefix(items, a)
  <2>1. \A i \in 1 .. a : i \in 1 .. h
    BY <1>1
  <2> QED
    BY <1>2, <2>1 DEF Prefix
<1> QED
  BY <1>1, <1>3, <1>5, <1>6

GathersTo(items, size, n, f) ==
    f = [k \in 0 .. n |-> IF k = 0 THEN <<>> ELSE f[k - 1] \o Received(Requested(items, size, k))]

\* However the items are split into requests, and whichever do not decode, the i-th answer is
\* the i-th item's.
LEMMA ReadManyIs ==
    ASSUME NEW S, NEW items \in Seq(S), NEW size \in Nat \ {0}
    PROVE  ReadMany(items, size) = [i \in 1 .. Len(items) |-> Answer(items[i])]
<1>1. PICK n \in Nat : n = Requests(items, size)
  BY RequestsAre
<1>2. PICK g : g = [k \in 0 .. n |-> Prefix(items, Upto(items, size, k))]
  OBVIOUS
<1>3. Len(items) \in Nat /\ Upto(items, size, 0) = 0 /\ Upto(items, size, n) = Len(items)
  <2>1. PICK m \in Nat : m = Len(items)
    BY LenProperties
  <2>2. PICK w \in Nat : w = n * size /\ m <= w
    BY <1>1, <2>1, RequestsAre
  <2>3. 0 * size = 0
    OBVIOUS
  <2>4. Min({0, m}) = 0
    BY <2>1, MinOf
  <2>5. Min({w, m}) <= w /\ Min({w, m}) <= m /\ Min({w, m}) \in {w, m}
    BY MinOf
  <2>6. Min({w, m}) = m
    BY <2>2, <2>5
  <2> QED
    BY <2>1, <2>2, <2>3, <2>4, <2>6 DEF Upto
<1>4. Prefix(items, 0) = <<>>
  BY DEF Prefix
<1>5. ASSUME NEW k \in 0 .. n, k # 0
      PROVE  k - 1 \in 0 .. n /\ g[k] = g[k - 1] \o Received(Requested(items, size, k))
  <2>1. k \in 1 .. n /\ k - 1 \in 0 .. n
    BY <1>5
  <2>2. Prefix(items, Upto(items, size, k))
           = Prefix(items, Upto(items, size, k - 1)) \o Received(Requested(items, size, k))
    BY <1>1, <2>1, Gathers
  <2> QED
    BY <1>2, <2>1, <2>2
<1>6. GathersTo(items, size, n, g)
  <2>1. \A k \in 0 .. n : g[k] = IF k = 0 THEN <<>> ELSE g[k - 1] \o Received(Requested(items, size, k))
    <3>1. g[0] = <<>>
      BY <1>2, <1>3, <1>4
    <3> QED
      BY <1>5, <3>1
  <2>2. DOMAIN g = 0 .. n /\ g = [k \in 0 .. n |-> g[k]]
    BY <1>2
  <2> QED
    BY <2>1, <2>2 DEF GathersTo
<1>7. PICK f : f = CHOOSE x : GathersTo(items, size, n, x)
  OBVIOUS
<1>8. GathersTo(items, size, n, f)
  BY <1>6, <1>7, Zenon
<1>9. \A k \in 0 .. n : f[k] = IF k = 0 THEN <<>> ELSE f[k - 1] \o Received(Requested(items, size, k))
  BY <1>8 DEF GathersTo
<1> DEFINE D == {k \in Nat : k <= n => f[k] = g[k]}
<1>10. 0 \in D
  <2>1. f[0] = <<>> /\ g[0] = <<>>
    BY <1>2, <1>3, <1>4, <1>9
  <2> QED
    BY <2>1
<1>11. ASSUME NEW k \in Nat, k \in D PROVE k + 1 \in D
  <2> SUFFICES ASSUME k + 1 <= n PROVE f[k + 1] = g[k + 1]
    OBVIOUS
  <2>1. PICK j \in 0 .. n : j = k + 1 /\ j # 0 /\ j - 1 = k /\ k <= n
    OBVIOUS
  <2>2. f[j] = f[k] \o Received(Requested(items, size, j)) /\ g[j] = g[k] \o Received(Requested(items, size, j))
    BY <1>5, <1>9, <2>1
  <2>3. f[k] = g[k]
    BY <1>11, <2>1
  <2> QED
    BY <2>1, <2>2, <2>3
<1>12. n \in D
  <2> HIDE DEF D
  <2> QED
    BY <1>10, <1>11, NatSetInduction
<1>13. f[n] = Prefix(items, Len(items))
  BY <1>2, <1>3, <1>12
<1>14. ReadMany(items, size) = f[n]
  BY <1>1, <1>7, Zenon DEF ReadMany, GathersTo
<1> QED
  BY <1>13, <1>14 DEF Prefix

\* A number is found at its place in the order.
LEMMA PlaceIs ==
    ASSUME NEW S, S \subseteq Nat, IsFiniteSet(S), NEW i \in S
    PROVE  Place(S, i) \in 1 .. Cardinality(S) /\ InOrder(S)[Place(S, i)] = i
<1> DEFINE T(k) == {j \in S : j <= k}
<1>1. PICK c \in Nat : c = Cardinality(S)
  BY FS_CardinalityType
<1>2. \A k \in S : /\ IsFiniteSet(T(k)) /\ T(k) \subseteq S /\ k \in T(k)
                   /\ Place(S, k) = Cardinality(T(k)) /\ Cardinality(T(k)) \in Nat /\ Cardinality(T(k)) <= c
  BY <1>1, FS_Subset, FS_CardinalityType DEF Place
<1>3. ASSUME NEW k \in S PROVE Place(S, k) \in 1 .. c
  <2>1. Cardinality(T(k)) # 0
    <3> HIDE DEF T
    <3> QED
      BY <1>2, FS_EmptySet
  <2> QED
    BY <1>2, <2>1
<1>4. ASSUME NEW k \in S, NEW m \in S, k < m PROVE Place(S, k) # Place(S, m)
  <2>1. T(k) \subseteq T(m) /\ m \notin T(k)
    <3> HIDE DEF T
    <3>1. k \in Nat /\ m \in Nat /\ ~(m <= k) /\ \A j \in S : j \in Nat
      BY <1>4
    <3>2. ASSUME NEW j \in S, j <= k PROVE j <= m
      <4>1. j \in Nat
        BY <3>1
      <4> QED
        BY <1>4, <3>1, <3>2, <4>1
    <3> QED
      BY <3>1, <3>2 DEF T
  <2> HIDE DEF T
  <2>2. T(k) # T(m) /\ IsFiniteSet(T(m))
    BY <1>2, <2>1
  <2>3. Cardinality(T(k)) # Cardinality(T(m))
    BY <2>1, <2>2, FS_Subset
  <2> QED
    BY <1>2, <2>3
<1>5. \A k \in S : Place(S, k) = Place(S, i) => k = i
  <2> SUFFICES ASSUME NEW k \in S, Place(S, k) = Place(S, i), k # i PROVE FALSE
    OBVIOUS
  <2>1. k < i \/ i < k
    OBVIOUS
  <2> QED
    BY <1>4, <2>1
<1>6. PICK p \in 1 .. c : p = Place(S, i)
  BY <1>3
<1>7. (CHOOSE k \in S : Place(S, k) = p) = i
  BY <1>5, <1>6, Zenon
<1>8. InOrder(S)[p] = i
  BY <1>1, <1>6, <1>7 DEF InOrder
<1> QED
  BY <1>1, <1>6, <1>8

LEMMA LimitIs == ASSUME server \in Servers PROVE Limit(server.maxRead) \in Nat \ {0}
  BY DiscoveryAssumption DEF Limit

LEMMA ThreeAttributes ==
    /\ Len(Attributes) = 3
    /\ Attributes[1] = "DataType" /\ Attributes[2] = "ValueRank" /\ Attributes[3] = "AccessLevel"
  BY DEF Attributes

\* The items asked for: three for each Variable found, then one for each unit.
AsksFor(asked, n, m) ==
    /\ Len(asked) = 3 * n + m
    /\ \A i \in 1 .. n : /\ asked[3 * (i - 1) + 1] = Item(found[i].node, "DataType")
                         /\ asked[3 * (i - 1) + 2] = Item(found[i].node, "ValueRank")
                         /\ asked[3 * (i - 1) + 3] = Item(found[i].node, "AccessLevel")
    /\ \A i \in WithUnit : /\ Place(WithUnit, i) \in 1 .. m
                           /\ asked[3 * n + Place(WithUnit, i)] = Item(unit[found[i].node], "Value")

LEMMA FoundList ==
    ASSUME Inv
    PROVE  /\ Len(found) \in Nat /\ DOMAIN found = 1 .. Len(found)
           /\ \A i \in DOMAIN found : found[i].node \in Nodes
           /\ \A i, j \in DOMAIN found : found[i].node = found[j].node => i = j
           /\ WithUnit \subseteq 1 .. Len(found) /\ WithUnit \subseteq Nat /\ IsFiniteSet(WithUnit)
<1>1. found \in Seq(Finds) /\ \A i, j \in 1 .. Len(found) : found[i].node = found[j].node => i = j
  BY DEF Inv, Sound
<1>2. PICK n \in Nat : n = Len(found) /\ DOMAIN found = 1 .. n
  BY <1>1, LenProperties
<1>3. \A i \in 1 .. n : found[i].node \in Nodes
  <2> SUFFICES ASSUME NEW i \in 1 .. n PROVE found[i].node \in Nodes
    OBVIOUS
  <2>1. found[i] \in Finds
    BY <1>1, <1>2, ElementOfSeq
  <2> QED
    BY <2>1 DEF Finds
<1>4. WithUnit \subseteq 1 .. n
  BY <1>2 DEF WithUnit
<1>5. IsFiniteSet(1 .. n) /\ (1 .. n) \subseteq Nat
  BY FS_Interval
<1>6. WithUnit \subseteq Nat /\ IsFiniteSet(WithUnit)
  BY <1>4, <1>5, FS_Subset
<1> QED
  BY <1>1, <1>2, <1>3, <1>4, <1>6

LEMMA Thirds ==
    ASSUME NEW n \in Nat, NEW i \in 1 .. n, NEW a \in 1 .. 3
    PROVE  /\ 3 * (i - 1) + a \in 1 .. 3 * n
           /\ (((3 * (i - 1) + a) - 1) \div 3) + 1 = i /\ (((3 * (i - 1) + a) - 1) % 3) + 1 = a
  OBVIOUS

LEMMA AskedIs ==
    ASSUME Inv
    PROVE  \E n \in Nat, m \in Nat :
              /\ n = Len(found) /\ m = Cardinality(WithUnit) /\ AsksFor(Asked, n, m)
              /\ \E S : Asked \in Seq(S)
<1>1. PICK n \in Nat, m \in Nat : n = Len(found) /\ m = Cardinality(WithUnit)
  BY FoundList, FS_CardinalityType
<1>2. PICK x : x = [k \in 1 .. 3 * n |->
                      Item(found[((k - 1) \div 3) + 1].node, Attributes[((k - 1) % 3) + 1])]
  OBVIOUS
<1>3. PICK y : y = [k \in 1 .. m |-> Item(unit[found[InOrder(WithUnit)[k]].node], "Value")]
  OBVIOUS
<1>4. Asked = x \o y
  BY <1>1, <1>2, <1>3, ThreeAttributes DEF Asked
<1>5. PICK l \in Nat : l = 3 * n
  OBVIOUS
<1>6. PICK S : S = {x[k] : k \in 1 .. l} \cup {y[k] : k \in 1 .. m}
  OBVIOUS
<1>7. x \in Seq(S) /\ Len(x) = l
  <2>1. x = [k \in 1 .. l |-> x[k]] /\ \A k \in 1 .. l : x[k] \in S
    BY <1>2, <1>5, <1>6
  <2> QED
    BY <2>1
<1>8. y \in Seq(S) /\ Len(y) = m
  <2>1. y = [k \in 1 .. m |-> y[k]] /\ \A k \in 1 .. m : y[k] \in S
    BY <1>3, <1>6
  <2> QED
    BY <2>1
<1>9. /\ x \o y \in Seq(S) /\ Len(x \o y) = l + m
      /\ \A k \in 1 .. l + m : (x \o y)[k] = IF k <= l THEN x[k] ELSE y[k - l]
  BY <1>7, <1>8, ConcatProperties
<1>10. ASSUME NEW i \in 1 .. n, NEW a \in 1 .. 3
       PROVE  Asked[3 * (i - 1) + a] = Item(found[i].node, Attributes[a])
  <2>1. PICK k \in 1 .. l : k = 3 * (i - 1) + a /\ ((k - 1) \div 3) + 1 = i /\ ((k - 1) % 3) + 1 = a
    BY <1>5, Thirds
  <2>2. x[k] = Item(found[i].node, Attributes[a])
    BY <1>2, <1>5, <2>1
  <2>3. k \in 1 .. l + m /\ k <= l
    OBVIOUS
  <2> QED
    BY <1>4, <1>9, <2>1, <2>2, <2>3
<1>11. ASSUME NEW i \in WithUnit
       PROVE  /\ Place(WithUnit, i) \in 1 .. m
              /\ Asked[3 * n + Place(WithUnit, i)] = Item(unit[found[i].node], "Value")
  <2>1. PICK p \in 1 .. m : p = Place(WithUnit, i) /\ InOrder(WithUnit)[p] = i
    BY <1>1, FoundList, PlaceIs
  <2>2. l + p \in 1 .. l + m /\ ~(l + p <= l) /\ (l + p) - l = p
    OBVIOUS
  <2>3. y[p] = Item(unit[found[i].node], "Value")
    BY <1>3, <2>1
  <2> QED
    BY <1>4, <1>5, <1>9, <2>1, <2>2, <2>3
<1>12. AsksFor(Asked, n, m)
  <2>1. Len(Asked) = 3 * n + m
    BY <1>4, <1>5, <1>9
  <2>2. ASSUME NEW i \in 1 .. n
        PROVE  /\ Asked[3 * (i - 1) + 1] = Item(found[i].node, "DataType")
               /\ Asked[3 * (i - 1) + 2] = Item(found[i].node, "ValueRank")
               /\ Asked[3 * (i - 1) + 3] = Item(found[i].node, "AccessLevel")
    BY <1>10, ThreeAttributes
  <2> QED
    BY <1>11, <2>1, <2>2 DEF AsksFor
<1> QED
  BY <1>1, <1>4, <1>9, <1>12

\* What a node's attribute reads as, and the unit it has.
Own(v, a) == ValueOf(server.attrs[v][a])
UnitOf(v) ==
    IF v \in DOMAIN unit /\ server.attrs[unit[v]]["Value"] \in server.units
    THEN server.attrs[unit[v]]["Value"] ELSE ""
RowOf(f) ==
    [node |-> f.node, path |-> f.path, dtype |-> Own(f.node, "DataType"), rank |-> Own(f.node, "ValueRank"),
     access |-> Own(f.node, "AccessLevel"), unit |-> UnitOf(f.node)]

LEMMA AnswerOf == ASSUME NEW v, NEW a PROVE Answer(Item(v, a)) = server.attrs[v][a]
  BY DEF Answer, Item

\* Each Variable has the answers to its own items.
LEMMA AnsweredIs ==
    ASSUME Inv
    PROVE  Answered(ReadMany(Asked, Limit(server.maxRead))) = [i \in DOMAIN found |-> RowOf(found[i])]
<1>1. PICK n \in Nat, m \in Nat :
        /\ n = Len(found) /\ m = Cardinality(WithUnit) /\ AsksFor(Asked, n, m)
        /\ \E S : Asked \in Seq(S)
  BY AskedIs
<1>2. PICK asked, S : asked = Asked /\ asked \in Seq(S)
  BY <1>1
<1>3. PICK got : got = ReadMany(Asked, Limit(server.maxRead))
  OBVIOUS
<1>4. PICK l \in Nat : l = 3 * n
  OBVIOUS
<1>5. got = [k \in 1 .. l + m |-> Answer(asked[k])]
  <2>1. Limit(server.maxRead) \in Nat \ {0}
    BY LimitIs DEF Inv
  <2>2. got = [k \in 1 .. Len(asked) |-> Answer(asked[k])]
    BY <1>2, <1>3, <2>1, ReadManyIs
  <2>3. Len(asked) = l + m
    BY <1>1, <1>2, <1>4 DEF AsksFor
  <2> QED
    BY <2>2, <2>3
<1>6. ASSUME NEW i \in 1 .. n
      PROVE  /\ got[3 * (i - 1) + 1] = server.attrs[found[i].node]["DataType"]
             /\ got[3 * (i - 1) + 2] = server.attrs[found[i].node]["ValueRank"]
             /\ got[3 * (i - 1) + 3] = server.attrs[found[i].node]["AccessLevel"]
  <2>1. /\ asked[3 * (i - 1) + 1] = Item(found[i].node, "DataType")
        /\ asked[3 * (i - 1) + 2] = Item(found[i].node, "ValueRank")
        /\ asked[3 * (i - 1) + 3] = Item(found[i].node, "AccessLevel")
    BY <1>1, <1>2 DEF AsksFor
  <2>2. PICK a \in 1 .. l + m, b \in 1 .. l + m, c \in 1 .. l + m :
           a = 3 * (i - 1) + 1 /\ b = 3 * (i - 1) + 2 /\ c = 3 * (i - 1) + 3
    BY <1>4
  <2>3. got[a] = Answer(asked[a]) /\ got[b] = Answer(asked[b]) /\ got[c] = Answer(asked[c])
    BY <1>5
  <2> QED
    BY <2>1, <2>2, <2>3, AnswerOf
<1>7. ASSUME NEW i \in WithUnit
      PROVE  got[3 * n + Place(WithUnit, i)] = server.attrs[unit[found[i].node]]["Value"]
  <2>1. PICK p \in 1 .. m : p = Place(WithUnit, i) /\ asked[3 * n + p] = Item(unit[found[i].node], "Value")
    BY <1>1, <1>2 DEF AsksFor
  <2>2. got[l + p] = Answer(asked[l + p])
    BY <1>5
  <2> QED
    BY <1>4, <2>1, <2>2, AnswerOf
<1>8. DOMAIN found = 1 .. n /\ \A i \in DOMAIN found : i \in WithUnit <=> found[i].node \in DOMAIN unit
  BY <1>1, FoundList DEF WithUnit
<1> DEFINE text(i) == got[3 * n + Place(WithUnit, i)]
           row(i) == [node |-> found[i].node, path |-> found[i].path, dtype |-> ValueOf(got[3 * (i - 1) + 1]),
                      rank |-> ValueOf(got[3 * (i - 1) + 2]), access |-> ValueOf(got[3 * (i - 1) + 3]),
                      unit |-> IF i \in WithUnit /\ text(i) \in server.units THEN text(i) ELSE ""]
<1>9. Answered(got) = [i \in DOMAIN found |-> row(i)]
  BY <1>1, ThreeAttributes DEF Answered
<1>10. ASSUME NEW i \in DOMAIN found PROVE row(i) = RowOf(found[i])
  <2>1. /\ ValueOf(got[3 * (i - 1) + 1]) = Own(found[i].node, "DataType")
        /\ ValueOf(got[3 * (i - 1) + 2]) = Own(found[i].node, "ValueRank")
        /\ ValueOf(got[3 * (i - 1) + 3]) = Own(found[i].node, "AccessLevel")
    BY <1>6, <1>8 DEF Own
  <2>2. (IF i \in WithUnit /\ text(i) \in server.units THEN text(i) ELSE "") = UnitOf(found[i].node)
    BY <1>7, <1>8 DEF UnitOf
  <2> QED
    BY <2>1, <2>2 DEF RowOf
<1> HIDE DEF row
<1> QED
  BY <1>3, <1>9, <1>10

TypeOf(v, subtypes) ==
    IF NeedsValue(Own(v, "DataType"), Own(v, "ValueRank"), subtypes)
    THEN FieldDatatype(Own(v, "DataType"), server.attrs[v]["Value"], subtypes)
    ELSE As(Declared(Own(v, "DataType"), subtypes))

AreRows(all) == all = [i \in DOMAIN found |-> RowOf(found[i])]
TypedAs(all, keep, subtypes) ==
    Typed(all, keep, subtypes) =
        [i \in keep |-> [node |-> found[i].node, path |-> found[i].path,
                         datatype |-> TypeOf(found[i].node, subtypes).datatype,
                         unit |-> UnitOf(found[i].node)]]

\* Each Variable kept is typed by its own declaration and, where that leaves it open, its own value.
LEMMA TypedIs ==
    ASSUME Inv, NEW all, AreRows(all), NEW keep, keep \subseteq DOMAIN found, NEW subtypes
    PROVE  TypedAs(all, keep, subtypes)
<1>1. ASSUME NEW i \in keep
      PROVE  /\ all[i].node = found[i].node /\ all[i].path = found[i].path
             /\ all[i].dtype = Own(found[i].node, "DataType") /\ all[i].rank = Own(found[i].node, "ValueRank")
             /\ all[i].unit = UnitOf(found[i].node)
  <2>1. all[i] = RowOf(found[i])
    BY DEF AreRows
  <2> QED
    BY <2>1 DEF RowOf
<1> DEFINE N == {i \in keep : NeedsValue(all[i].dtype, all[i].rank, subtypes)}
<1>2. PICK needs : needs = N
  OBVIOUS
<1>3. needs \subseteq keep /\ needs \subseteq Nat /\ IsFiniteSet(needs)
  <2>1. needs \subseteq 1 .. Len(found) /\ Len(found) \in Nat /\ needs \subseteq keep
    BY <1>2, FoundList
  <2>2. IsFiniteSet(1 .. Len(found)) /\ (1 .. Len(found)) \subseteq Nat
    BY <2>1, FS_Interval
  <2> QED
    BY <2>1, <2>2, FS_Subset
<1>4. PICK m \in Nat : m = Cardinality(needs)
  BY <1>3, FS_CardinalityType
<1>5. PICK asked : asked = [k \in 1 .. m |-> Item(all[InOrder(needs)[k]].node, "Value")]
  OBVIOUS
<1>6. PICK S : S = {asked[k] : k \in 1 .. m}
  OBVIOUS
<1>7. asked \in Seq(S) /\ Len(asked) = m
  <2>1. asked = [k \in 1 .. m |-> asked[k]] /\ \A k \in 1 .. m : asked[k] \in S
    BY <1>5, <1>6
  <2> QED
    BY <2>1
<1>8. PICK values : values = ReadMany(asked, Limit(server.maxRead))
  OBVIOUS
<1>9. values = [k \in 1 .. m |-> Answer(asked[k])]
  <2>1. Limit(server.maxRead) \in Nat \ {0}
    BY LimitIs DEF Inv
  <2> QED
    BY <1>7, <1>8, <2>1, ReadManyIs
<1>10. ASSUME NEW i \in needs PROVE values[ValueIndex(needs, i)] = server.attrs[found[i].node]["Value"]
  <2>1. PICK p \in 1 .. m : p = Place(needs, i) /\ InOrder(needs)[p] = i
    BY <1>3, <1>4, PlaceIs
  <2>2. asked[p] = Item(all[i].node, "Value")
    BY <1>5, <2>1
  <2>3. all[i].node = found[i].node
    BY <1>1, <1>3
  <2>4. values[p] = Answer(asked[p])
    BY <1>9
  <2> QED
    BY <2>1, <2>2, <2>3, <2>4, AnswerOf DEF ValueIndex
<1> DEFINE type(i) == IF i \in needs
                      THEN FieldDatatype(all[i].dtype, values[ValueIndex(needs, i)], subtypes)
                      ELSE As(Declared(all[i].dtype, subtypes))
           row(i) == [node |-> all[i].node, path |-> all[i].path, datatype |-> type(i).datatype,
                      unit |-> all[i].unit]
<1>11. Typed(all, keep, subtypes) = [i \in keep |-> row(i)]
  <2>1. values = ReadMany([k \in 1 .. Cardinality(N) |-> Item(all[InOrder(N)[k]].node, "Value")],
                          Limit(server.maxRead))
    BY <1>2, <1>4, <1>5, <1>8
  <2> DEFINE V == ReadMany([k \in 1 .. Cardinality(N) |-> Item(all[InOrder(N)[k]].node, "Value")],
                          Limit(server.maxRead))
             typed(T, w) == [i \in keep |->
                [node |-> all[i].node, path |-> all[i].path,
                 datatype |-> (IF i \in T THEN FieldDatatype(all[i].dtype, w[ValueIndex(T, i)], subtypes)
                               ELSE As(Declared(all[i].dtype, subtypes))).datatype,
                 unit |-> all[i].unit]]
  <2>2. Typed(all, keep, subtypes) = typed(N, V)
    BY DEF Typed
  <2>3. values = V
    BY <2>1
  <2> HIDE DEF N, V
  <2>4. typed(N, V) = typed(needs, values)
    BY <1>2, <2>3, Zenon
  <2> QED
    BY <2>2, <2>4
<1>12. ASSUME NEW i \in keep PROVE type(i) = TypeOf(found[i].node, subtypes)
  <2>1. i \in needs <=> NeedsValue(Own(found[i].node, "DataType"), Own(found[i].node, "ValueRank"), subtypes)
    BY <1>1, <1>2
  <2>2. CASE i \in needs
    BY <1>1, <1>10, <2>1, <2>2 DEF TypeOf
  <2>3. CASE i \notin needs
    BY <1>1, <2>1, <2>3 DEF TypeOf
  <2> QED
    BY <2>2, <2>3
<1> HIDE DEF type
<1>13. ASSUME NEW i \in keep
       PROVE  row(i) = [node |-> found[i].node, path |-> found[i].path,
                        datatype |-> TypeOf(found[i].node, subtypes).datatype,
                        unit |-> UnitOf(found[i].node)]
  BY <1>1, <1>12
<1> HIDE DEF row
<1> QED
  BY <1>11, <1>13 DEF TypedAs

-----------------------------------------------------------------------------
(* The hierarchy of types *)

Above(t, before) == IF before \in Standard \cup {None} THEN before ELSE server.super[before]

LineageTo(t, n, f) ==
    f = [k \in 0 .. n |-> IF k = 0 THEN t
            ELSE IF f[k - 1] \in Standard \cup {None} THEN f[k - 1]
            ELSE server.super[f[k - 1]]]

LEMMA LineagesExist == ASSUME NEW t PROVE \A n \in Nat : \E f : LineageTo(t, n, f)
<1> DEFINE S == {n \in Nat : \E f : LineageTo(t, n, f)}
           E(j, before) == IF j = 0 THEN t ELSE Above(t, before)
<1>0. \A n, f : LineageTo(t, n, f) <=> f = [j \in 0 .. n |-> E(j, f[j - 1])]
  BY Zenon DEF LineageTo, Above
<1>1. \A x, y : E(0, x) = E(0, y)
  OBVIOUS
<1> HIDE DEF E
<1>2. 0 \in S
  <2>1. PICK f : f = [j \in 0 .. 0 |-> E(0, t)]
    OBVIOUS
  <2>2. f = [j \in 0 .. 0 |-> E(j, f[j - 1])]
    BY <1>1, <2>1
  <2>3. LineageTo(t, 0, f)
    BY <1>0, <2>2
  <2> QED
    BY <2>3
<1>3. ASSUME NEW n \in Nat, n \in S PROVE n + 1 \in S
  <2>1. PICK f : f = [j \in 0 .. n |-> E(j, f[j - 1])]
    BY <1>0, <1>3
  <2>2. PICK g : g = [j \in 0 .. (n + 1) |-> IF j = n + 1 THEN E(n + 1, f[n]) ELSE f[j]]
    OBVIOUS
  <2>3. ASSUME NEW j \in 0 .. (n + 1) PROVE g[j] = E(j, g[j - 1])
    <3>1. CASE j = 0
      <4>1. g[0] = E(0, f[0 - 1])
        BY <2>1, <2>2, <3>1
      <4> QED
        BY <1>1, <3>1, <4>1
    <3>2. CASE j # 0 /\ j \in 0 .. n
      <4>1. j - 1 \in 0 .. n /\ g[j - 1] = f[j - 1] /\ g[j] = f[j] /\ f[j] = E(j, f[j - 1])
        BY <2>1, <2>2, <3>2
      <4> QED
        BY <4>1
    <3>3. CASE j = n + 1
      <4>1. j - 1 = n /\ g[j] = E(j, f[n]) /\ g[n] = f[n]
        BY <2>2, <3>3
      <4> QED
        BY <4>1
    <3> QED
      BY <3>1, <3>2, <3>3
  <2>4. g = [j \in 0 .. (n + 1) |-> E(j, g[j - 1])]
    BY <2>2, <2>3
  <2>5. LineageTo(t, n + 1, g)
    BY <1>0, <2>4
  <2> QED
    BY <2>5
<1> HIDE DEF S
<1>4. \A n \in Nat : n \in S
  BY <1>2, <1>3, NatSetInduction
<1> QED
  BY <1>4 DEF S

LEMMA LineageIs ==
    ASSUME NEW t
    PROVE  /\ Lineage(t)[0] = t
           /\ \A k \in 1 .. TypeDepth : Lineage(t)[k] = Above(t, Lineage(t)[k - 1])
<1>1. TypeDepth \in Nat
  BY DiscoveryAssumption
<1>2. Lineage(t) = CHOOSE f : LineageTo(t, TypeDepth, f)
  BY Zenon DEF Lineage, LineageTo
<1>3. LineageTo(t, TypeDepth, Lineage(t))
  BY <1>1, <1>2, LineagesExist, Zenon
<1>4. \A k \in 0 .. TypeDepth : Lineage(t)[k] = IF k = 0 THEN t ELSE Above(t, Lineage(t)[k - 1])
  BY <1>3, Zenon DEF LineageTo, Above
<1> QED
  BY <1>1, <1>4

\* The types of a level: those that still have an ancestor.
Levels(types, n, f) ==
    f = [k \in 0 .. n |-> IF k = 0 THEN [t \in types |-> t] ELSE Supertypes(f[k - 1])]
Ancestors(types, k) == [t \in {u \in types : Lineage(u)[k] # None} |-> Lineage(t)[k]]

LEMMA NextLevel ==
    ASSUME NEW types, NEW k \in 1 .. TypeDepth
    PROVE  Supertypes(Ancestors(types, k - 1)) = Ancestors(types, k)
<1>1. TypeDepth \in Nat /\ k - 1 \in Nat
  BY DiscoveryAssumption
<1>2. PICK a : a = Ancestors(types, k - 1)
  OBVIOUS
<1>3. PICK D : D = {u \in types : Lineage(u)[k - 1] # None}
  OBVIOUS
<1>4. a = [t \in D |-> Lineage(t)[k - 1]]
  BY <1>2, <1>3 DEF Ancestors
<1> DEFINE parent(t) == IF a[t] \in Standard THEN a[t] ELSE server.super[a[t]]
<1>5. ASSUME NEW u \in types PROVE Lineage(u)[k] = Above(u, Lineage(u)[k - 1])
  BY LineageIs
<1>6. ASSUME NEW t \in D PROVE parent(t) = Lineage(t)[k]
  <2>1. t \in types /\ a[t] = Lineage(t)[k - 1] /\ a[t] # None
    BY <1>3, <1>4
  <2>2. Lineage(t)[k] = Above(t, a[t])
    BY <1>5, <2>1
  <2> QED
    BY <2>1, <2>2 DEF Above
<1>7. ASSUME NEW u \in types, Lineage(u)[k] # None PROVE u \in D
  <2>1. Lineage(u)[k - 1] = None => Lineage(u)[k] = None
    BY <1>5 DEF Above
  <2> QED
    BY <1>3, <1>7, <2>1
<1>8. Supertypes(a) = [t \in {u \in DOMAIN a : parent(u) # None} |-> parent(t)]
  BY Zenon DEF Supertypes
<1> HIDE DEF parent
<1>9. DOMAIN a = D /\ D \subseteq types
  BY <1>3, <1>4
<1>10. {u \in DOMAIN a : parent(u) # None} = {u \in types : Lineage(u)[k] # None}
  BY <1>6, <1>7, <1>9
<1>11. PICK E : E = {u \in types : Lineage(u)[k] # None}
  OBVIOUS
<1>12. E \subseteq D
  BY <1>7, <1>11
<1>13. Supertypes(a) = [t \in E |-> parent(t)]
  BY <1>8, <1>10, <1>11
<1>14. [t \in E |-> parent(t)] = [t \in E |-> Lineage(t)[k]]
  BY <1>6, <1>12
<1> QED
  BY <1>2, <1>11, <1>13, <1>14 DEF Ancestors

\* The subtypes found level by level are those whose lineage ends in a builtin integer.
LEMMA SubtypesAre ==
    ASSUME NEW types, None \notin types
    PROVE  IntegerSubtypes(types) = [t \in {u \in types : Lineage(u)[TypeDepth] \in IntegerTypes}
                                        |-> Builtin[Lineage(t)[TypeDepth]]]
<1>1. PICK n \in Nat : n = TypeDepth
  BY DiscoveryAssumption
<1>2. PICK g : g = [k \in 0 .. n |-> Ancestors(types, k)]
  OBVIOUS
<1>3. g[0] = [t \in types |-> t]
  <2>1. \A t \in types : Lineage(t)[0] = t /\ t # None
    BY LineageIs
  <2>2. {u \in types : Lineage(u)[0] # None} = types
    BY <2>1
  <2>3. Ancestors(types, 0) = [t \in types |-> Lineage(t)[0]]
    BY <2>2 DEF Ancestors
  <2> QED
    BY <1>2, <2>1, <2>3
<1>4. ASSUME NEW k \in 1 .. n PROVE k - 1 \in 0 .. n /\ g[k] = Supertypes(g[k - 1])
  <2>1. k - 1 \in 0 .. n /\ k \in 0 .. n
    OBVIOUS
  <2>2. g[k] = Ancestors(types, k) /\ g[k - 1] = Ancestors(types, k - 1)
    BY <1>2, <2>1
  <2> QED
    BY <1>1, <2>1, <2>2, NextLevel
<1>5. Levels(types, n, g)
  <2>1. \A k \in 0 .. n : g[k] = IF k = 0 THEN [t \in types |-> t] ELSE Supertypes(g[k - 1])
    BY <1>3, <1>4
  <2>2. g = [k \in 0 .. n |-> g[k]]
    BY <1>2
  <2> QED
    BY <2>1, <2>2 DEF Levels
<1>6. PICK f : f = CHOOSE x : Levels(types, n, x)
  OBVIOUS
<1>7. Levels(types, n, f)
  BY <1>5, <1>6, Zenon
<1>8. \A k \in 0 .. n : f[k] = IF k = 0 THEN [t \in types |-> t] ELSE Supertypes(f[k - 1])
  BY <1>7 DEF Levels
<1> DEFINE D == {k \in Nat : k <= n => f[k] = g[k]}
<1>9. 0 \in D
  <2>1. f[0] = [t \in types |-> t]
    BY <1>8
  <2> QED
    BY <1>3, <2>1
<1>10. ASSUME NEW k \in Nat, k \in D PROVE k + 1 \in D
  <2> SUFFICES ASSUME k + 1 <= n PROVE f[k + 1] = g[k + 1]
    OBVIOUS
  <2>1. PICK j \in 1 .. n : j = k + 1 /\ j # 0 /\ j - 1 = k /\ k <= n
    OBVIOUS
  <2>2. j \in 0 .. n
    OBVIOUS
  <2>3. f[j] = Supertypes(f[j - 1])
    BY <1>8, <2>1, <2>2
  <2>4. g[j] = Supertypes(g[j - 1])
    BY <1>4
  <2>5. f[k] = g[k]
    BY <1>10, <2>1
  <2> QED
    BY <2>1, <2>3, <2>4, <2>5
<1>11. n \in D
  <2> HIDE DEF D
  <2> QED
    BY <1>9, <1>10, NatSetInduction
<1>12. PICK top : top = f[n]
  OBVIOUS
<1>13. top = Ancestors(types, n)
  BY <1>2, <1>11, <1>12
<1>14. IntegerSubtypes(types) = [t \in {u \in DOMAIN top : top[u] \in IntegerTypes} |-> Builtin[top[t]]]
  <2> DEFINE L == CHOOSE x : Levels(types, TypeDepth, x)
             S(w) == [t \in {u \in DOMAIN w : w[u] \in IntegerTypes} |-> Builtin[w[t]]]
  <2>1. IntegerSubtypes(types) = S(L[TypeDepth])
    BY Zenon DEF IntegerSubtypes, Levels
  <2>2. L[TypeDepth] = top
    BY <1>1, <1>6, <1>12
  <2> HIDE DEF L
  <2> QED
    BY <2>1, <2>2, Zenon
<1>15. None \notin IntegerTypes
  BY DEF None, IntegerTypes
<1>16. {u \in DOMAIN top : top[u] \in IntegerTypes} = {u \in types : Lineage(u)[n] \in IntegerTypes}
  BY <1>13, <1>15 DEF Ancestors
<1>17. PICK E : E = {u \in types : Lineage(u)[n] \in IntegerTypes}
  OBVIOUS
<1>18. \A t \in E : top[t] = Lineage(t)[n]
  BY <1>13, <1>15, <1>17 DEF Ancestors
<1>19. IntegerSubtypes(types) = [t \in E |-> Builtin[top[t]]]
  BY <1>14, <1>16, <1>17
<1>20. [t \in E |-> Builtin[top[t]]] = [t \in E |-> Builtin[Lineage(t)[n]]]
  BY <1>18
<1> QED
  BY <1>1, <1>17, <1>19, <1>20

-----------------------------------------------------------------------------
(* What is described *)

SubtypesOf(d) == IF d \in Standard \cup {None} THEN <<>> ELSE Derived(d)
DatatypeOf(v) == TypeOf(v, SubtypesOf(Own(v, "DataType"))).datatype
Barred(v) == Skipped([rank |-> Own(v, "ValueRank"), access |-> Own(v, "AccessLevel")])

\* The Variables that are read, and those that get a type; and the row of one.
Readable == {i \in DOMAIN found : ~Barred(found[i].node)}
Typeable == {i \in Readable : DatatypeOf(found[i].node) # None}
TypedRow(f) ==
    [node |-> f.node, path |-> f.path, datatype |-> DatatypeOf(f.node), unit |-> UnitOf(f.node)]
DescribedTo(r, s) ==
    /\ r = [i \in Typeable |-> TypedRow(found[i])]
    /\ s.unreadable = {found[i].node : i \in DOMAIN found \ Readable}
    /\ s.untyped = {found[i].node : i \in Readable \ Typeable}

\* The subtypes of every type asked about say of one what its own lineage does.
LEMMA SameDeclared ==
    ASSUME NEW types, types \cap (Standard \cup {None}) = {}, NEW d, d \in types \cup Standard \cup {None}
    PROVE  Declared(d, IntegerSubtypes(types)) = Declared(d, SubtypesOf(d))
<1>1. PICK top : top = Lineage(d)[TypeDepth]
  OBVIOUS
<1>2. PICK D : D = {u \in types : Lineage(u)[TypeDepth] \in IntegerTypes}
  OBVIOUS
<1>3. PICK s : s = IntegerSubtypes(types)
  OBVIOUS
<1>4. s = [t \in D |-> Builtin[Lineage(t)[TypeDepth]]]
  BY <1>2, <1>3, SubtypesAre
<1>5. CASE d \in Standard \cup {None}
  <2>1. d \notin DOMAIN s /\ SubtypesOf(d) = <<>>
    BY <1>2, <1>4, <1>5 DEF SubtypesOf
  <2> QED
    BY <1>3, <2>1 DEF Declared
<1>6. CASE d \notin Standard \cup {None}
  <2>1. d \in types /\ SubtypesOf(d) = IF top \in IntegerTypes THEN [u \in {d} |-> Builtin[top]] ELSE <<>>
    BY <1>1, <1>6 DEF SubtypesOf, Derived
  <2>2. CASE top \in IntegerTypes
    <3>1. d \in DOMAIN s /\ s[d] = Builtin[top]
      BY <1>1, <1>2, <1>4, <2>1, <2>2
    <3>2. d \in DOMAIN SubtypesOf(d) /\ SubtypesOf(d)[d] = Builtin[top]
      BY <2>1, <2>2
    <3> QED
      BY <1>3, <3>1, <3>2 DEF Declared
  <2>3. CASE top \notin IntegerTypes
    <3>1. d \notin DOMAIN s /\ d \notin DOMAIN SubtypesOf(d)
      BY <1>1, <1>2, <1>4, <2>1, <2>3
    <3> QED
      BY <1>3, <3>1 DEF Declared
  <2> QED
    BY <2>2, <2>3
<1> QED
  BY <1>5, <1>6

LEMMA SameType ==
    ASSUME NEW types, types \cap (Standard \cup {None}) = {}, NEW v,
           Own(v, "DataType") \in types \cup Standard \cup {None}
    PROVE  TypeOf(v, IntegerSubtypes(types)).datatype = DatatypeOf(v)
<1>1. PICK d, s, w : d = Own(v, "DataType") /\ s = IntegerSubtypes(types) /\ w = SubtypesOf(d)
  OBVIOUS
<1>2. Declared(d, s) = Declared(d, w)
  BY <1>1, SameDeclared
<1>3. TypeOf(v, s) = TypeOf(v, w)
  <2>1. NeedsValue(d, Own(v, "ValueRank"), s) <=> NeedsValue(d, Own(v, "ValueRank"), w)
    BY <1>2 DEF NeedsValue
  <2>2. FieldDatatype(d, server.attrs[v]["Value"], s) = FieldDatatype(d, server.attrs[v]["Value"], w)
    BY <1>2 DEF FieldDatatype
  <2> QED
    BY <1>1, <1>2, <2>1, <2>2 DEF TypeOf
<1> QED
  BY <1>1, <1>3 DEF DatatypeOf

\* Describe's values, one by one.
DescribeAs(all, keep, vendor, typed) ==
    /\ all = Answered(ReadMany(Asked, Limit(server.maxRead)))
    /\ keep = {i \in DOMAIN all : ~Skipped(all[i])}
    /\ vendor = {all[i].dtype : i \in keep} \ (Standard \cup {None})
    /\ typed = Typed(all, keep, IntegerSubtypes(vendor))
    /\ rows' = Restrict(typed, {i \in keep : typed[i].datatype # None})
    /\ skipped' = [filtered |-> filtered \ kept,
                   unreadable |-> {all[i].node : i \in DOMAIN all \ keep},
                   untyped |-> {typed[i].node : i \in {k \in keep : typed[k].datatype = None}}]

LEMMA DescribeIs == ASSUME Describe PROVE \E all, keep, vendor, typed : DescribeAs(all, keep, vendor, typed)
<1> DEFINE Keep(all) == {i \in DOMAIN all : ~Skipped(all[i])}
           Vendor(all) == {all[i].dtype : i \in Keep(all)} \ (Standard \cup {None})
           Last3(all, typed) ==
                /\ rows' = Restrict(typed, {i \in Keep(all) : typed[i].datatype # None})
                /\ skipped' = [filtered |-> filtered \ kept,
                               unreadable |-> {all[i].node : i \in DOMAIN all \ Keep(all)},
                               untyped |-> {typed[i].node : i \in {k \in Keep(all) : typed[k].datatype = None}}]
<1>1. \E got \in {ReadMany(Asked, Limit(server.maxRead))} : \E all \in {Answered(got)} :
        \E subtypes \in {IntegerSubtypes(Vendor(all))} : \E typed \in {Typed(all, Keep(all), subtypes)} :
           Last3(all, typed)
  BY Zenon DEF Describe
<1> HIDE DEF Keep, Vendor, Last3
<1>2. PICK all, typed : /\ all = Answered(ReadMany(Asked, Limit(server.maxRead)))
                        /\ typed = Typed(all, Keep(all), IntegerSubtypes(Vendor(all))) /\ Last3(all, typed)
  BY <1>1, Zenon
<1>3. DescribeAs(all, Keep(all), Vendor(all), typed)
  BY <1>2, Zenon DEF DescribeAs, Keep, Vendor, Last3
<1> QED
  BY <1>3

LEMMA DescribesAll == ASSUME Inv, Describe PROVE DescribedTo(rows', skipped')
<1>1. PICK all, keep, vendor, typed : DescribeAs(all, keep, vendor, typed)
  BY DescribeIs
<1>2. all = [i \in DOMAIN found |-> RowOf(found[i])]
  BY <1>1, AnsweredIs DEF DescribeAs
<1>3. ASSUME NEW i \in DOMAIN found
      PROVE  all[i].node = found[i].node /\ all[i].dtype = Own(found[i].node, "DataType")
             /\ (Skipped(all[i]) <=> Barred(found[i].node))
  <2>1. all[i] = RowOf(found[i])
    BY <1>2
  <2> QED
    BY <2>1 DEF RowOf, Skipped, Barred
<1>4. keep = Readable /\ DOMAIN all = DOMAIN found /\ keep \subseteq DOMAIN found
  BY <1>1, <1>2, <1>3 DEF DescribeAs, Readable
<1>5. ASSUME NEW i \in keep
      PROVE  TypeOf(found[i].node, IntegerSubtypes(vendor)).datatype = DatatypeOf(found[i].node)
  <2>1. vendor = {all[j].dtype : j \in keep} \ (Standard \cup {None})
    BY <1>1 DEF DescribeAs
  <2>2. Own(found[i].node, "DataType") \in vendor \cup Standard \cup {None}
    BY <1>3, <1>4, <2>1
  <2>3. vendor \cap (Standard \cup {None}) = {}
    BY <2>1
  <2> QED
    BY <2>2, <2>3, SameType
<1>6. typed = [i \in keep |-> TypedRow(found[i])]
  <2>1. typed = [i \in keep |-> [node |-> found[i].node, path |-> found[i].path,
                                 datatype |-> TypeOf(found[i].node, IntegerSubtypes(vendor)).datatype,
                                 unit |-> UnitOf(found[i].node)]]
    <3>1. PICK w : w = IntegerSubtypes(vendor)
      OBVIOUS
    <3>2. typed = Typed(all, keep, w)
      BY <1>1, <3>1 DEF DescribeAs
    <3>3. Typed(all, keep, w) =
             [i \in keep |-> [node |-> found[i].node, path |-> found[i].path,
                              datatype |-> TypeOf(found[i].node, w).datatype, unit |-> UnitOf(found[i].node)]]
      <4>1. AreRows(all)
        BY <1>2 DEF AreRows
      <4> QED
        BY <1>4, <4>1, TypedIs DEF TypedAs
    <3> QED
      BY <3>1, <3>2, <3>3, Zenon
  <2> QED
    BY <1>5, <2>1 DEF TypedRow
<1>7. \A i \in keep : typed[i].node = found[i].node /\ typed[i].datatype = DatatypeOf(found[i].node)
  BY <1>6 DEF TypedRow
<1>8. {i \in keep : typed[i].datatype # None} = Typeable
  BY <1>4, <1>7 DEF Typeable
<1>9. {k \in keep : typed[k].datatype = None} = Readable \ Typeable
  BY <1>4, <1>7 DEF Typeable
<1>10. rows' = [i \in Typeable |-> TypedRow(found[i])]
  <2>1. rows' = Restrict(typed, Typeable)
    BY <1>1, <1>8 DEF DescribeAs
  <2>2. Typeable \subseteq keep
    BY <1>8
  <2> QED
    BY <1>6, <2>1, <2>2 DEF Restrict
<1>11. skipped'.unreadable = {found[i].node : i \in DOMAIN found \ Readable}
  <2>1. skipped'.unreadable = {all[i].node : i \in DOMAIN all \ keep}
    BY <1>1 DEF DescribeAs
  <2> QED
    BY <1>3, <1>4, <2>1
<1>12. skipped'.untyped = {found[i].node : i \in Readable \ Typeable}
  <2>1. skipped'.untyped = {typed[i].node : i \in Readable \ Typeable}
    BY <1>1, <1>9 DEF DescribeAs
  <2> QED
    BY <1>4, <1>7, <2>1
<1> QED
  BY <1>10, <1>11, <1>12 DEF DescribedTo

LEMMA DescribedAlike ==
    ASSUME server' = server, found' = found, unit' = unit, NEW r, NEW s
    PROVE  DescribedTo(r, s) => DescribedTo(r, s)'
<1>1. \A v : \A a : Own(v, a)' = Own(v, a)
  BY DEF Own, ValueOf
<1>2. \A v : UnitOf(v)' = UnitOf(v)
  BY DEF UnitOf
<1>3. \A t : Lineage(t)' = Lineage(t)
  BY DEF Lineage
<1>4. \A d : SubtypesOf(d)' = SubtypesOf(d)
  BY <1>3 DEF SubtypesOf, Derived
<1>5. \A v : \A w : TypeOf(v, w)' = TypeOf(v, w)
  BY <1>1 DEF TypeOf
<1>6. \A v : DatatypeOf(v)' = DatatypeOf(v)
  BY <1>1, <1>4, <1>5 DEF DatatypeOf
<1>7. \A v : Barred(v)' <=> Barred(v)
  BY <1>1 DEF Barred, Skipped
<1>8. Readable' = Readable
  BY <1>7 DEF Readable
<1>9. Typeable' = Typeable
  BY <1>6, <1>8 DEF Typeable
<1>10. \A f : TypedRow(f)' = TypedRow(f)
  BY <1>2, <1>6 DEF TypedRow
<1> QED
  BY <1>8, <1>9, <1>10 DEF DescribedTo

\* What is said of a Variable: counted by the reason, or in one row.
Served(v, got) ==
    IF Barred(v) THEN got = {} /\ v \in skipped.unreadable \ skipped.untyped
    ELSE IF DatatypeOf(v) = None THEN got = {} /\ v \in skipped.untyped \ skipped.unreadable
    ELSE /\ Cardinality(got) = 1 /\ v \notin skipped.unreadable \cup skipped.untyped
         /\ \A r \in got : r.datatype = DatatypeOf(v) /\ r.unit = UnitOf(v)

LEMMA EachServed ==
    ASSUME Inv, DescribedTo(rows, skipped), NEW i \in DOMAIN found, NEW v, v = found[i].node,
           NEW got, got = {r \in Range(rows) : r.node = v}
    PROVE  Served(v, got)
<1>1. \A j, k \in DOMAIN found : found[j].node = found[k].node => j = k
  BY FoundList
<1>2. Readable \subseteq DOMAIN found /\ Typeable \subseteq Readable
  BY DEF Readable, Typeable
<1>3. /\ DOMAIN rows = Typeable
      /\ \A j \in Typeable : /\ rows[j].node = found[j].node /\ rows[j].datatype = DatatypeOf(found[j].node)
                             /\ rows[j].unit = UnitOf(found[j].node)
  BY DEF DescribedTo, TypedRow
<1>4. ASSUME NEW r \in got PROVE i \in Typeable /\ r = rows[i]
  <2>1. PICK j \in Typeable : r = rows[j] /\ r.node = v
    BY <1>3 DEF Range
  <2>2. j = i
    BY <1>1, <1>2, <1>3, <2>1
  <2> QED
    BY <2>1, <2>2
<1>5. i \in Typeable => got = {rows[i]}
  <2>1. i \in Typeable => rows[i] \in got
    BY <1>3 DEF Range
  <2> QED
    BY <1>4, <2>1
<1>6. i \notin Typeable => got = {}
  BY <1>4
<1>7. v \in skipped.unreadable <=> i \notin Readable
  <2>1. skipped.unreadable = {found[j].node : j \in DOMAIN found \ Readable}
    BY DEF DescribedTo
  <2> QED
    BY <1>1, <1>2, <2>1
<1>8. v \in skipped.untyped <=> i \in Readable /\ i \notin Typeable
  <2>1. skipped.untyped = {found[j].node : j \in Readable \ Typeable}
    BY DEF DescribedTo
  <2> QED
    BY <1>1, <1>2, <2>1
<1>9. (i \in Readable <=> ~Barred(v)) /\ (i \in Typeable <=> i \in Readable /\ DatatypeOf(v) # None)
  BY DEF Readable, Typeable
<1>10. CASE Barred(v)
  BY <1>6, <1>7, <1>8, <1>9, <1>10 DEF Served
<1>11. CASE ~Barred(v) /\ DatatypeOf(v) = None
  BY <1>6, <1>7, <1>8, <1>9, <1>11 DEF Served
<1>12. CASE ~Barred(v) /\ DatatypeOf(v) # None
  <2>1. got = {rows[i]} /\ i \in Typeable
    BY <1>5, <1>9, <1>12
  <2>2. Cardinality(got) = 1
    BY <2>1, FS_Singleton
  <2>3. \A r \in got : r.datatype = DatatypeOf(v) /\ r.unit = UnitOf(v)
    BY <1>3, <2>1
  <2> QED
    BY <1>7, <1>8, <1>9, <1>12, <2>1, <2>2, <2>3 DEF Served
<1> QED
  BY <1>10, <1>11, <1>12

Rowed == stage \in {"described", "mapped"} => DescribedTo(rows, skipped)

LEMMA RowedHolds == Spec => []Rowed
<1>1. Init => Rowed
  BY DEF Init, Rowed
<1>2. ASSUME Inv, Rowed, [Next]_vars PROVE Rowed'
  <2>1. CASE Describe
    <3>1. server' = server /\ found' = found /\ unit' = unit
      BY <2>1 DEF Describe, walked
    <3>2. PICK r, s : r = rows' /\ s = skipped'
      OBVIOUS
    <3>3. DescribedTo(r, s)
      BY <1>2, <2>1, <3>2, DescribesAll
    <3>4. DescribedTo(r, s)'
      BY <3>1, <3>3, DescribedAlike
    <3> QED
      BY <3>2, <3>4 DEF Rowed, DescribedTo
  <2>2. CASE NameNodes \/ UNCHANGED vars
    <3>1. /\ server' = server /\ found' = found /\ unit' = unit /\ rows' = rows /\ skipped' = skipped
          /\ stage' \in {"described", "mapped"} => stage \in {"described", "mapped"}
      BY <2>2 DEF NameNodes, vars, walked
    <3>2. PICK r, s : r = rows /\ s = skipped
      OBVIOUS
    <3>3. DescribedTo(r, s) => DescribedTo(r, s)'
      BY <3>1, DescribedAlike
    <3> QED
      BY <1>2, <3>1, <3>2, <3>3 DEF Rowed, DescribedTo
  <2>3. CASE Walk \/ Raises
    <3>1. stage' \notin {"described", "mapped"}
      BY <2>3 DEF Walk, Raises, BrowseBatch, BrowseNext, BrowseAlone, Take
    <3> QED
      BY <3>1 DEF Rowed
  <2> QED
    BY <1>2, <2>1, <2>2, <2>3 DEF Next
<1> QED
  BY <1>1, <1>2, InvHolds, PTL DEF Spec

\* Each Variable found is described by its own attributes, value and type, or counted by the
\* reason it is not, whatever the server's limits split the requests into and whichever answers
\* do not decode (discovery.py describe, read_many, integer_subtypes).
THEOREM DescribedLikeServed == Spec => []DescribedAsServed
<1>1. Inv /\ Rowed => DescribedAsServed
  <2> SUFFICES ASSUME Inv, Rowed, stage \in {"described", "mapped"}, NEW v \in FoundNodes PROVE AsServed(v)
    BY DEF DescribedAsServed
  <2>0. PICK i \in DOMAIN found : v = found[i].node
    BY DEF FoundNodes, Range
  <2> DEFINE own == [a \in DOMAIN server.attrs[v] |-> IF a = "Value" THEN server.attrs[v][a]
                                                      ELSE ValueOf(server.attrs[v][a])]
             got == {r \in Range(rows) : r.node = v}
             subtypes == IF own.DataType \in Standard \cup {None} THEN <<>> ELSE Derived(own.DataType)
             datatype == IF NeedsValue(own.DataType, own.ValueRank, subtypes)
                         THEN FieldDatatype(own.DataType, own.Value, subtypes).datatype
                         ELSE Declared(own.DataType, subtypes)
             text == IF v \in DOMAIN unit /\ server.attrs[unit[v]].Value \in server.units
                     THEN server.attrs[unit[v]].Value ELSE ""
  <2>1. /\ own.DataType = Own(v, "DataType") /\ own.ValueRank = Own(v, "ValueRank")
        /\ own.AccessLevel = Own(v, "AccessLevel") /\ own.Value = server.attrs[v]["Value"]
    <3>1. v \in Nodes /\ server \in Servers
      BY <2>0, FoundList DEF Inv
    <3>2. {"DataType", "ValueRank", "AccessLevel", "Value"} \subseteq DOMAIN server.attrs[v]
      BY <3>1, DiscoveryAssumption
    <3> QED
      BY <3>2 DEF Own
  <2>2. Skipped([rank |-> own.ValueRank, access |-> own.AccessLevel]) <=> Barred(v)
    BY <2>1 DEF Barred
  <2> HIDE DEF own
  <2>3. datatype = DatatypeOf(v)
    <3>1. subtypes = SubtypesOf(Own(v, "DataType"))
      BY <2>1 DEF SubtypesOf
    <3> HIDE DEF subtypes
    <3> QED
      BY <2>1, <3>1 DEF DatatypeOf, TypeOf, As
  <2>4. text = UnitOf(v)
    BY DEF UnitOf
  <2>5. Served(v, got)
    BY <2>0, EachServed DEF Rowed
  <2> HIDE DEF got, datatype, text
  <2>6. /\ Barred(v) => got = {} /\ v \in skipped.unreadable \ skipped.untyped
        /\ ~Barred(v) => IF datatype = None THEN got = {} /\ v \in skipped.untyped \ skipped.unreadable
                         ELSE /\ Cardinality(got) = 1 /\ v \notin skipped.unreadable \cup skipped.untyped
                              /\ \A r \in got : r.datatype = datatype /\ r.unit = text
    BY <2>3, <2>4, <2>5 DEF Served
  <2>7. AsServed(v) <=>
           IF Skipped([rank |-> own.ValueRank, access |-> own.AccessLevel])
           THEN got = {} /\ v \in skipped.unreadable \ skipped.untyped
           ELSE IF datatype = None THEN got = {} /\ v \in skipped.untyped \ skipped.unreadable
           ELSE /\ Cardinality(got) = 1 /\ v \notin skipped.unreadable \cup skipped.untyped
                /\ \A r \in got : r.datatype = datatype /\ r.unit = text
    BY Zenon DEF AsServed, own, got, subtypes, datatype, text
  <2> QED
    BY <2>2, <2>6, <2>7
<1> QED
  BY <1>1, InvHolds, RowedHolds, PTL

-----------------------------------------------------------------------------
(* Naming *)

\* A row describes the Variable found at its index.
Described ==
    stage \in {"described", "mapped"} =>
        /\ DOMAIN rows \subseteq 1 .. Len(found)
        /\ \A i \in DOMAIN rows : rows[i].node = found[i].node /\ rows[i].path = found[i].path

Mapped == stage = "mapped" => nodeMap = AssignNames({Named(rows[i]) : i \in DOMAIN rows})

LEMMA DescribesFound == ASSUME Inv, Rowed PROVE Described
<1> SUFFICES ASSUME stage \in {"described", "mapped"}
             PROVE  /\ DOMAIN rows \subseteq 1 .. Len(found)
                    /\ \A i \in DOMAIN rows : rows[i].node = found[i].node /\ rows[i].path = found[i].path
  BY DEF Described
<1>1. rows = [i \in Typeable |-> TypedRow(found[i])]
  BY DEF Rowed, DescribedTo
<1>2. Typeable \subseteq 1 .. Len(found)
  BY FoundList DEF Typeable, Readable
<1> QED
  BY <1>1, <1>2 DEF TypedRow

LEMMA NamedAlike ==
    ASSUME server' = server, rows' = rows
    PROVE  {Named(rows[i]) : i \in DOMAIN rows}' = {Named(rows[i]) : i \in DOMAIN rows}
  BY SMT DEF Named, Event, VendorSegments, Traced

LEMMA DescribedHolds == Spec => [](Described /\ Mapped)
<1>1. Init => Mapped
  BY DEF Init, Mapped
<1>2. ASSUME Mapped, [Next]_vars PROVE Mapped'
  <2>1. CASE NameNodes
    <3>1. server' = server /\ rows' = rows /\ nodeMap' = AssignNames({Named(rows[i]) : i \in DOMAIN rows})
      BY <2>1 DEF NameNodes, walked
    <3>2. {Named(rows[i]) : i \in DOMAIN rows}' = {Named(rows[i]) : i \in DOMAIN rows}
      BY <3>1, NamedAlike
    <3> QED
      BY <3>1, <3>2 DEF Mapped
  <2>2. CASE Walk \/ Raises \/ Describe
    <3>1. stage' # "mapped"
      BY <2>2 DEF Walk, Raises, Describe, BrowseBatch, BrowseNext, BrowseAlone, Take
    <3> QED
      BY <3>1 DEF Mapped
  <2>3. CASE UNCHANGED vars
    <3>1. stage' = stage /\ server' = server /\ rows' = rows /\ nodeMap' = nodeMap
      BY <2>3 DEF vars, walked
    <3>2. {Named(rows[i]) : i \in DOMAIN rows}' = {Named(rows[i]) : i \in DOMAIN rows}
      BY <3>1, NamedAlike
    <3> QED
      BY <1>2, <3>1, <3>2 DEF Mapped
  <2> QED
    BY <1>2, <2>1, <2>2, <2>3 DEF Next
<1> QED
  BY <1>1, <1>2, InvHolds, RowedHolds, DescribesFound, PTL DEF Spec

\* The rows to name: each from a Variable found, an ident of its own, an event that is not empty.
Separate(R) ==
    /\ \A r, s \in R : r.id.ident = s.id.ident => r = s
    /\ \A r \in R : r.id.ident \in Nodes /\ r.event # <<>> /\ \E n \in Names : r.name = Sane[n]

LEMMA LastOfHashed ==
    ASSUME NEW n \in Names, NEW h \in STRING
    PROVE  Last(Hashed(Sane[n], h)) = h
<1>1. PICK name \in Seq(STRING) : name = Sane[n]
  BY NodeMapAssumption DEF NodeMapAssumption
<1>2. Last(Append(name, h)) = h
  BY Added
<1> QED
  BY <1>1, <1>2 DEF Hashed

\* Names differ within an event: a name with ten digits ends as no other does, and of two
\* rows left with the same shorter name each would have been hashed again.
LEMMA NamesDiffer ==
    ASSUME NEW R, Separate(R), NEW r \in R, NEW s \in R, r.event = s.event, FinalName(R, r) = FinalName(R, s)
    PROVE  r = s
<1> SUFFICES ASSUME r # s PROVE FALSE
  OBVIOUS
<1> DEFINE Ten(x) == /\ x \in Colliders(R)
                     /\ \E y \in R : y # x /\ y.event = x.event /\ ShortName(R, y) = ShortName(R, x)
<1>1. \A x \in R : FinalName(R, x) = IF Ten(x) THEN Hashed(x.name, Hash10[x.id.ident]) ELSE ShortName(R, x)
  BY DEF FinalName
<1>2. ASSUME NEW x \in R
      PROVE  /\ x.id.ident \in Nodes /\ Hash10[x.id.ident] \in STRING
             /\ Last(Hashed(x.name, Hash10[x.id.ident])) = Hash10[x.id.ident]
             /\ \A y \in Nodes : Last(ShortName(R, x)) # Hash10[y]
  <2>1. PICK n \in Names : x.name = Sane[n]
    BY DEF Separate
  <2>2. x.id.ident \in Nodes
    BY DEF Separate
  <2>3. Hash10[x.id.ident] \in STRING /\ Hash6[x.id.ident] \in STRING
    BY <2>2, NodeMapAssumption DEF NodeMapAssumption
  <2>4. Last(Hashed(x.name, Hash10[x.id.ident])) = Hash10[x.id.ident] /\ Last(Hashed(x.name, Hash6[x.id.ident])) = Hash6[x.id.ident]
    BY <2>1, <2>3, LastOfHashed
  <2>5. ASSUME NEW y \in Nodes PROVE Last(x.name) # Hash10[y] /\ Hash6[x.id.ident] # Hash10[y]
    BY <2>1, <2>2, NodeMapAssumption DEF NodeMapAssumption
  <2> QED
    BY <2>2, <2>3, <2>4, <2>5 DEF ShortName
<1>3. CASE Ten(r) /\ Ten(s)
  <2>1. Hash10[r.id.ident] = Hash10[s.id.ident]
    BY <1>1, <1>2, <1>3
  <2>2. r.id.ident = s.id.ident
    BY <1>2, <2>1, NodeMapAssumption DEF NodeMapAssumption, IsInjective
  <2> QED
    BY <2>2 DEF Separate
<1>4. CASE Ten(r) /\ ~Ten(s)
  BY <1>1, <1>2, <1>4
<1>5. CASE ~Ten(r) /\ Ten(s)
  BY <1>1, <1>2, <1>5
<1>6. CASE ~Ten(r) /\ ~Ten(s)
  <2>1. ShortName(R, r) = ShortName(R, s)
    BY <1>1, <1>6
  <2>2. r \notin Colliders(R) /\ s \notin Colliders(R)
    BY <1>6, <2>1
  <2>3. r.name = s.name
    BY <2>1, <2>2 DEF ShortName
  <2> QED
    BY <2>2, <2>3 DEF Colliders
<1> QED
  BY <1>3, <1>4, <1>5, <1>6

LEMMA RowsSeparate ==
    ASSUME Inv, Described, stage = "mapped"
    PROVE  /\ Separate({Named(rows[i]) : i \in DOMAIN rows}) /\ IsFiniteSet(DOMAIN rows)
           /\ \A i, j \in DOMAIN rows : Named(rows[i]) = Named(rows[j]) => i = j
<1>1. /\ found \in Seq(Finds) /\ DOMAIN rows \subseteq 1 .. Len(found)
      /\ \A i, j \in 1 .. Len(found) : found[i].node = found[j].node => i = j
      /\ \A i \in DOMAIN rows : rows[i].node = found[i].node /\ rows[i].path = found[i].path
  BY DEF Inv, Sound, Described
<1>2. Len(found) \in Nat /\ \A i \in 1 .. Len(found) : found[i] \in Finds
  BY <1>1, LenProperties, ElementOfSeq
<1>3. IsFiniteSet(DOMAIN rows)
  <2>1. IsFiniteSet(1 .. Len(found))
    BY <1>2, FS_Interval
  <2> QED
    BY <1>1, <2>1, FS_Subset
<1>4. ASSUME NEW i \in DOMAIN rows
      PROVE  /\ Named(rows[i]).id.ident = rows[i].node /\ rows[i].node \in Nodes
             /\ Named(rows[i]).event # <<>> /\ \E n \in Names : Named(rows[i]).name = Sane[n]
  <2>1. rows[i].node \in Nodes /\ rows[i].path \in Seq(Names)
    BY <1>1, <1>2 DEF Finds
  <2>2. Named(rows[i]).id.ident = rows[i].node
    BY DEF Named, NodeIdString
  <2>3. server.name[rows[i].node] \in Names /\ Named(rows[i]).name = Sane[server.name[rows[i].node]]
    BY <2>1, DiscoveryAssumption DEF Named, DiscoveryAssumption, Inv
  <2>4. PICK p : p = IF VendorSegments(rows[i].node) # <<>> THEN VendorSegments(rows[i].node)
                     ELSE IF rows[i].path # <<>> THEN rows[i].path ELSE <<server.name[Root]>>
    OBVIOUS
  <2>5. p \in Seq(Names) /\ p # <<>>
    <3>1. <<server.name[Root]>> \in Seq(Names) /\ <<server.name[Root]>> # <<>>
      <4>1. PICK name \in Names : name = server.name[Root]
        BY DiscoveryAssumption DEF DiscoveryAssumption, Inv
      <4>2. <<name>> \in Seq(Names) /\ <<name>> # <<>>
        OBVIOUS
      <4> QED
        BY <4>1, <4>2
    <3>2. VendorSegments(rows[i].node) \in Seq(Names)
      <4>1. PICK v : v = server.vendor[rows[i].node] /\ v \in Seq(Names) /\ Len(v) \in Nat
        <5>1. server.vendor[rows[i].node] \in Seq(Names)
          BY <2>1, DiscoveryAssumption DEF DiscoveryAssumption, Inv
        <5> QED
          BY <5>1, LenProperties
      <4>2. Len(v) >= 2 => Front(v) \in Seq(Names)
        <5>1. Len(v) >= 2 => Len(v) - 1 \in Nat /\ Len(v) - 1 <= Len(v)
          BY <4>1
        <5> QED
          BY <4>1, <5>1, Parts DEF Front
      <4> QED
        BY <4>1, <4>2 DEF VendorSegments
    <3> QED
      BY <2>1, <2>4, <3>1, <3>2
  <2>6. Named(rows[i]).event = Traced(p)
    BY <2>4 DEF Named, Event
  <2>7. DOMAIN Traced(p) # {}
    <3>1. DOMAIN Traced(p) = 1 .. Len(p) /\ Len(p) \in Nat /\ Len(p) # 0
      BY <2>5, LenProperties, EmptySeq DEF Traced
    <3>2. 1 \in 1 .. Len(p)
      BY <3>1
    <3> QED
      BY <3>1, <3>2
  <2>8. Named(rows[i]).event # <<>>
    BY <2>6, <2>7
  <2> QED
    BY <2>1, <2>2, <2>3, <2>8
<1>5. ASSUME NEW i \in DOMAIN rows, NEW j \in DOMAIN rows, Named(rows[i]).id.ident = Named(rows[j]).id.ident PROVE i = j
  BY <1>1, <1>4, <1>5
<1>6. \A i, j \in DOMAIN rows : Named(rows[i]) = Named(rows[j]) => i = j
  BY <1>5
<1>7. Separate({Named(rows[i]) : i \in DOMAIN rows})
  BY <1>4, <1>5 DEF Separate
<1> QED
  BY <1>3, <1>6, <1>7

\* The node a row becomes, and the nodes of an event of the map.
NodeOf(R, r) == [id |-> r.id, name |-> FinalName(R, r), datatype |-> r.datatype, unit |-> r.unit,
                 scale |-> 1, writable |-> FALSE]
OfRow(R, e, n) == \E r \in R : r.event = e /\ n = NodeOf(R, r)

LEMMA MapIs ==
    ASSUME NEW R
    PROVE  AssignNames(R) = [e \in {r.event : r \in R} |-> {NodeOf(R, r) : r \in {s \in R : s.event = e}}]
  BY DEF AssignNames, NodeOf

LEMMA OfMap ==
    ASSUME NEW R
    PROVE  /\ DOMAIN AssignNames(R) = {r.event : r \in R}
           /\ \A e \in DOMAIN AssignNames(R) : \A n : n \in AssignNames(R)[e] <=> OfRow(R, e, n)
  BY MapIs DEF OfRow

\* Two nodes of an event with one name are one.
LEMMA NodesDiffer ==
    ASSUME NEW R, Separate(R), NEW e \in DOMAIN AssignNames(R), NEW m \in AssignNames(R)[e], NEW n \in AssignNames(R)[e],
           m.name = n.name
    PROVE  m = n
<1>1. OfRow(R, e, m) /\ OfRow(R, e, n)
  BY OfMap
<1>2. PICK r \in R, s \in R : r.event = e /\ m = NodeOf(R, r) /\ s.event = e /\ n = NodeOf(R, s)
  BY <1>1 DEF OfRow
<1>3. FinalName(R, r) = FinalName(R, s)
  BY <1>2 DEF NodeOf
<1> QED
  BY <1>2, <1>3, NamesDiffer

\* However the names of a server collide, no two of its nodes share a field of an event, none
\* that was described is left out, and the qualified name finds its node alone.
THEOREM NamesStayApart == Spec => []NamesApart
<1>1. Inv /\ Described /\ Mapped => NamesApart
  <2> SUFFICES ASSUME Inv, Described, Mapped, stage = "mapped" PROVE NamesApart
    BY DEF NamesApart
  <2>1. PICK R : R = {Named(rows[i]) : i \in DOMAIN rows} /\ Separate(R) /\ nodeMap = AssignNames(R)
    BY RowsSeparate DEF Mapped
  <2>2. PICK f : f = [i \in DOMAIN rows |-> <<Named(rows[i]).event, FinalName(R, Named(rows[i]))>>]
    OBVIOUS
  <2>3. UNION {{<<e, n.name>> : n \in nodeMap[e]} : e \in DOMAIN nodeMap} = {f[i] : i \in DOMAIN rows}
    <3>1. ASSUME NEW e \in DOMAIN nodeMap, NEW n \in nodeMap[e] PROVE \E i \in DOMAIN rows : <<e, n.name>> = f[i]
      <4>1. OfRow(R, e, n)
        BY <2>1, OfMap
      <4>2. PICK r \in R : r.event = e /\ n = NodeOf(R, r)
        BY <4>1 DEF OfRow
      <4>3. n.name = FinalName(R, r)
        BY <4>2 DEF NodeOf
      <4>4. PICK i \in DOMAIN rows : r = Named(rows[i])
        BY <2>1
      <4> QED
        BY <2>2, <4>2, <4>3, <4>4
    <3>2. ASSUME NEW i \in DOMAIN rows PROVE \E e \in DOMAIN nodeMap : \E n \in nodeMap[e] : f[i] = <<e, n.name>>
      <4>1. PICK r \in R : r = Named(rows[i])
        BY <2>1
      <4>2. r.event \in DOMAIN nodeMap /\ OfRow(R, r.event, NodeOf(R, r))
        <5>1. DOMAIN nodeMap = {x.event : x \in R}
          BY <2>1, OfMap
        <5>2. OfRow(R, r.event, NodeOf(R, r))
          BY DEF OfRow
        <5> QED
          BY <5>1, <5>2
      <4>3. NodeOf(R, r) \in nodeMap[r.event]
        BY <2>1, <4>2, OfMap
      <4>4. f[i] = <<r.event, NodeOf(R, r).name>>
        BY <2>2, <4>1 DEF NodeOf
      <4> QED
        BY <4>2, <4>3, <4>4
    <3>3. PICK U : U = UNION {{<<e, n.name>> : n \in nodeMap[e]} : e \in DOMAIN nodeMap}
      OBVIOUS
    <3>4. ASSUME NEW u \in U PROVE u \in {f[i] : i \in DOMAIN rows}
      <4>1. PICK e \in DOMAIN nodeMap : \E n \in nodeMap[e] : u = <<e, n.name>>
        BY <3>3
      <4> QED
        BY <3>1, <4>1
    <3>5. ASSUME NEW i \in DOMAIN rows PROVE f[i] \in U
      <4>1. PICK e \in DOMAIN nodeMap : \E n \in nodeMap[e] : f[i] = <<e, n.name>>
        BY <3>2
      <4> QED
        BY <3>3, <4>1
    <3> QED
      BY <3>3, <3>4, <3>5
  <2>4. ASSUME NEW i \in DOMAIN rows, NEW j \in DOMAIN rows, f[i] = f[j] PROVE i = j
    <3>1. PICK r \in R, s \in R : r = Named(rows[i]) /\ s = Named(rows[j])
      BY <2>1
    <3>2. r.event = s.event /\ FinalName(R, r) = FinalName(R, s)
      BY <2>2, <2>4, <3>1
    <3>3. r = s
      BY <2>1, <3>2, NamesDiffer
    <3> QED
      BY <3>1, <3>3, RowsSeparate
  <2>5. Cardinality({f[i] : i \in DOMAIN rows}) = Cardinality(DOMAIN rows)
    <3>1. PICK S : S = DOMAIN rows /\ IsFiniteSet(S)
      BY RowsSeparate
    <3>2. DOMAIN f = S /\ f = [i \in S |-> f[i]] /\ \A i, j \in S : f[i] = f[j] => i = j
      BY <2>2, <2>4, <3>1
    <3> QED
      BY <3>1, <3>2, Counted
  <2>6. ASSUME NEW e \in DOMAIN nodeMap, NEW n \in nodeMap[e] PROVE Lookup(nodeMap, e, n.name) = {n}
    <3>1. OfRow(R, e, n)
      BY <2>1, OfMap
    <3>2. e # <<>>
      BY <2>1, <3>1 DEF OfRow, Separate
    <3>3. Lookup(nodeMap, e, n.name) = {m \in nodeMap[e] : m.name = n.name}
      BY <3>2 DEF Lookup
    <3>4. ASSUME NEW m \in nodeMap[e], m.name = n.name PROVE m = n
      BY <2>1, <3>4, NodesDiffer
    <3> QED
      BY <3>3, <3>4
  <2> QED
    BY <2>3, <2>5, <2>6 DEF NamesApart
<1> QED
  BY <1>1, InvHolds, DescribedHolds, PTL

\* A permutation of a finite list's indices reaches each of them.
LEMMA Reached ==
    ASSUME NEW n \in Nat, NEW p \in [1 .. n -> 1 .. n], IsInjective(p), NEW at \in 1 .. n
    PROVE  \E i \in 1 .. n : p[i] = at
<1>1. p \in Injection(1 .. n, 1 .. n)
  BY DEF Injection, IsInjective
<1>2. IsFiniteSet(1 .. n)
  BY FS_Interval
<1>3. p \in Surjection(1 .. n, 1 .. n)
  BY <1>1, <1>2, FS_Injection
<1> QED
  BY <1>3 DEF Surjection

AtFirst(names, uri, m) == names[m] = uri /\ \A k \in 1 .. (m - 1) : names[k] # uri

LEMMA FirstOf ==
    ASSUME NEW n \in Nat, NEW names, NEW uri, NEW i \in 1 .. n, names[i] = uri
    PROVE  \E m \in 1 .. n : AtFirst(names, uri, m)
<1>1. PICK J : J = {j \in 1 .. n : names[j] = uri}
  OBVIOUS
<1>2. J \subseteq Nat /\ i \in J
  BY <1>1
<1>3. PICK m \in J : \A j \in J : m <= j
  BY <1>2, MinIs
<1>4. ASSUME NEW k \in 1 .. (m - 1) PROVE names[k] # uri
  <2>1. m \in 1 .. n /\ k \in 1 .. n /\ ~(m <= k)
    BY <1>1, <1>3
  <2> QED
    BY <1>1, <1>3, <2>1
<1> QED
  BY <1>1, <1>3, <1>4 DEF AtFirst

\* What a parsed id names: the namespace with its URI, and the node itself.
Resolves(id, names, uri, ident) ==
    /\ ParseNodeId(id, names) # {}
    /\ \A h \in ParseNodeId(id, names) : names[h.index + 1] = uri /\ h.ident = ident

\* An id with a namespace's URI finds that namespace in any array that has it.
LEMMA Found ==
    ASSUME NEW n \in Nat, NEW names \in Seq(STRING), Len(names) = n, NEW uri, uri # NoUri, NEW index, NEW ident,
           NEW i \in 1 .. n, names[i] = uri, NEW id, id = [uri |-> uri, index |-> index, ident |-> ident]
    PROVE  Resolves(id, names, uri, ident)
<1>1. PICK F : F = {j \in 1 .. n : AtFirst(names, uri, j)}
  OBVIOUS
<1>2. ParseNodeId(id, names) = {[index |-> j - 1, ident |-> ident] : j \in F}
  <2>1. id.uri = uri /\ id.ident = ident
    OBVIOUS
  <2> QED
    BY <1>1, <2>1 DEF ParseNodeId, AtFirst
<1>3. PICK m \in 1 .. n : AtFirst(names, uri, m)
  BY FirstOf
<1>4. m \in F
  BY <1>1, <1>3
<1>5. ASSUME NEW j \in F PROVE (j - 1) + 1 = j /\ names[j] = uri
  BY <1>1 DEF AtFirst
<1>6. ASSUME NEW h \in ParseNodeId(id, names) PROVE names[h.index + 1] = uri /\ h.ident = ident
  <2>1. PICK j \in F : h = [index |-> j - 1, ident |-> ident]
    BY <1>2
  <2>2. h.index + 1 = j /\ h.ident = ident
    BY <1>5, <2>1
  <2> QED
    BY <1>5, <2>1, <2>2
<1> QED
  BY <1>2, <1>4, <1>6 DEF Resolves

\* Saved and loaded again, the map is the one discovered: what a file leaves out is 1.
LEMMA SavedIsSame == ASSUME NEW R PROVE FromDict(ToDict(AssignNames(R))) = AssignNames(R)
<1> DEFINE Saved(n) == [id |-> n.id, name |-> n.name, datatype |-> n.datatype, unit |-> n.unit, writable |-> n.writable]
           Loaded(n) == [id |-> n.id, name |-> n.name, datatype |-> n.datatype, unit |-> n.unit,
                         scale |-> IF "scale" \in DOMAIN n THEN n.scale ELSE 1, writable |-> n.writable]
<1>1. PICK m : m = AssignNames(R) /\ m = [e \in DOMAIN m |-> m[e]]
  BY MapIs
<1>2. ASSUME NEW e \in DOMAIN m, NEW n \in m[e] PROVE Loaded(Saved(n)) = n
  <2>1. OfRow(R, e, n)
    BY <1>1, OfMap
  <2>2. PICK r \in R : n = NodeOf(R, r)
    BY <2>1 DEF OfRow
  <2> QED
    BY <2>2 DEF NodeOf
<1>3. PICK d : d = ToDict(m) /\ d = [e \in DOMAIN m |-> {Saved(n) : n \in m[e]}]
  BY DEF ToDict
<1>4. FromDict(d) = [e \in DOMAIN d |-> {Loaded(n) : n \in d[e]}]
  BY DEF FromDict
<1> HIDE DEF Saved, Loaded
<1>5. ASSUME NEW e \in DOMAIN m PROVE {Loaded(n) : n \in d[e]} = m[e]
  <2>1. d[e] = {Saved(n) : n \in m[e]}
    BY <1>3
  <2>2. {Loaded(n) : n \in {Saved(k) : k \in m[e]}} = {Loaded(Saved(k)) : k \in m[e]}
    OBVIOUS
  <2>3. {Loaded(Saved(k)) : k \in m[e]} = m[e]
    BY <1>2
  <2> QED
    BY <2>1, <2>2, <2>3
<1>6. DOMAIN d = DOMAIN m
  BY <1>3
<1>7. FromDict(d) = [e \in DOMAIN m |-> m[e]]
  BY <1>4, <1>5, <1>6
<1> QED
  BY <1>1, <1>3, <1>7

\* What was discovered can be kept as a file (node_map.py to_dict, from_dict): the same map,
\* whose ids name the same nodes wherever the server has moved its namespaces since.
THEOREM PinsLikeAFile == Spec => []PinsAsFile
<1>1. Inv /\ Described /\ Mapped => PinsAsFile
  <2> SUFFICES ASSUME Inv, Described, Mapped, stage = "mapped" PROVE PinsAsFile
    BY DEF PinsAsFile
  <2>1. PICK R : R = {Named(rows[i]) : i \in DOMAIN rows} /\ Separate(R) /\ nodeMap = AssignNames(R)
    BY RowsSeparate DEF Mapped
  <2>2. ~Duplicates(ToDict(nodeMap))
    <3> SUFFICES ASSUME NEW e \in DOMAIN ToDict(nodeMap), NEW a \in ToDict(nodeMap)[e], NEW b \in ToDict(nodeMap)[e], a.name = b.name
                 PROVE  a = b
      BY DEF Duplicates
    <3>1. e \in DOMAIN nodeMap
      BY DEF ToDict
    <3>2. PICK m \in nodeMap[e], n \in nodeMap[e] :
            /\ a = [id |-> m.id, name |-> m.name, datatype |-> m.datatype, unit |-> m.unit, writable |-> m.writable]
            /\ b = [id |-> n.id, name |-> n.name, datatype |-> n.datatype, unit |-> n.unit, writable |-> n.writable]
      BY <3>1 DEF ToDict
    <3>3. m.name = n.name
      BY <3>2
    <3>4. m = n
      BY <2>1, <3>1, <3>3, NodesDiffer
    <3> QED
      BY <3>2, <3>4
  <2>3. FromDict(ToDict(nodeMap)) = nodeMap
    BY <2>1, SavedIsSame
  <2>4. ASSUME NEW n \in UNION Range(nodeMap),
               NEW p \in [DOMAIN server.namespaces -> DOMAIN server.namespaces], IsInjective(p), p[1] = 1,
               NEW later, later = [i \in DOMAIN p |-> server.namespaces[p[i]]],
               NEW at, at = server.ns[n.id.ident], at < Len(server.namespaces)
        PROVE  /\ ParseNodeId(n.id, later) # {}
               /\ \A h \in ParseNodeId(n.id, later) :
                     later[h.index + 1] = server.namespaces[at + 1] /\ h.ident = n.id.ident
    <3>1. PICK spaces : spaces = server.namespaces /\ spaces \in Seq(STRING) /\ NoUri \notin Range(spaces)
      BY DiscoveryAssumption DEF DiscoveryAssumption, Inv
    <3>2. PICK k \in Nat : k = Len(spaces) /\ DOMAIN spaces = 1 .. k
      BY <3>1, LenProperties
    <3>3. PICK i \in DOMAIN rows : n.id = Named(rows[i]).id
      <4>1. PICK e \in DOMAIN nodeMap : n \in nodeMap[e]
        BY DEF Range
      <4>2. OfRow(R, e, n)
        BY <2>1, <4>1, OfMap
      <4>3. PICK r \in R : n = NodeOf(R, r)
        BY <4>2 DEF OfRow
      <4> QED
        BY <2>1, <4>3 DEF NodeOf
    <3>4. n.id.ident = rows[i].node /\ rows[i].node \in Nodes
      <4>1. Named(rows[i]) \in R
        BY <2>1
      <4>2. n.id.ident = rows[i].node
        <5>1. Named(rows[i]).id.ident = rows[i].node
          BY DEF Named, NodeIdString
        <5> QED
          BY <3>3, <5>1
      <4> QED
        BY <2>1, <3>3, <4>1, <4>2 DEF Separate
    <3>5. at \in Nat /\ at + 1 \in 1 .. k /\ n.id = NodeIdString(rows[i].node, at, spaces)
      <4>1. server.ns \in [Nodes -> Nat]
        BY DiscoveryAssumption DEF DiscoveryAssumption, Inv
      <4>2. at \in Nat /\ at < k /\ at = server.ns[rows[i].node]
        BY <2>4, <3>1, <3>2, <3>4, <4>1
      <4>3. Named(rows[i]).id = NodeIdString(rows[i].node, server.ns[rows[i].node], server.namespaces)
        BY DEF Named
      <4>4. n.id = NodeIdString(rows[i].node, at, spaces)
        BY <3>1, <3>3, <4>2, <4>3
      <4>5. at + 1 \in 1 .. k
        BY <4>2
      <4> QED
        BY <4>2, <4>4, <4>5
    <3>6. p \in [1 .. k -> 1 .. k] /\ later = [j \in 1 .. k |-> spaces[p[j]]]
      BY <2>4, <3>1, <3>2
    <3>7. later \in Seq(STRING) /\ Len(later) = k
      <4>1. \A j \in 1 .. k : spaces[j] \in STRING
        BY <3>1, <3>2, ElementOfSeq
      <4> QED
        BY <3>6, <4>1
    <3>8. CASE at = 0
      <4>1. n.id = [uri |-> NoUri, index |-> at, ident |-> rows[i].node]
        <5>1. ~(at > 0 /\ at < Len(spaces))
          BY <3>8
        <5> QED
          BY <3>5, <5>1, Zenon DEF NodeIdString
      <4>2. n.id.uri = NoUri /\ n.id.index = at
        BY <3>5, <4>1
      <4>3. ParseNodeId(n.id, later) = {[index |-> at, ident |-> n.id.ident]}
        BY <4>2, Zenon DEF ParseNodeId
      <4>4. later[at + 1] = spaces[at + 1]
        <5>1. at + 1 = 1 /\ 1 \in 1 .. k
          BY <3>5, <3>8
        <5>2. later[1] = spaces[p[1]]
          BY <3>6, <5>1
        <5> QED
          BY <2>4, <5>1, <5>2
      <4>5. ParseNodeId(n.id, later) # {} /\ \A h \in ParseNodeId(n.id, later) : h.index = at /\ h.ident = n.id.ident
        BY <4>3
      <4> QED
        BY <3>1, <4>4, <4>5
    <3>9. CASE at > 0
      <4>1. n.id = [uri |-> spaces[at + 1], index |-> 0, ident |-> rows[i].node]
        <5>1. at > 0 /\ at < Len(spaces)
          BY <2>4, <3>1, <3>9
        <5> QED
          BY <3>5, <5>1, Zenon DEF NodeIdString
      <4>2. n.id.uri = spaces[at + 1]
        BY <4>1
      <4>3. n.id.uri # NoUri
        BY <3>1, <3>2, <3>5, <4>2 DEF Range
      <4>4. PICK j \in 1 .. k : p[j] = at + 1
        BY <2>4, <3>5, <3>6, Reached
      <4>5. later[j] = n.id.uri
        BY <3>6, <4>2, <4>4
      <4>6. /\ ParseNodeId(n.id, later) # {}
            /\ \A h \in ParseNodeId(n.id, later) : later[h.index + 1] = spaces[at + 1] /\ h.ident = rows[i].node
        <5>1. PICK uri, ident, id : uri = spaces[at + 1] /\ ident = rows[i].node /\ id = n.id
          OBVIOUS
        <5>2. later[j] = uri /\ uri # NoUri /\ id = [uri |-> uri, index |-> 0, ident |-> ident]
          BY <4>1, <4>2, <4>3, <4>5, <5>1
        <5>3. Resolves(id, later, uri, ident)
          BY <3>7, <4>4, <5>2, Found
        <5> QED
          BY <5>1, <5>3 DEF Resolves
      <4> QED
        BY <3>1, <3>4, <4>6
    <3> QED
      BY <3>5, <3>8, <3>9
  <2>5. \A n \in UNION Range(nodeMap) :
           \A p \in {f \in [DOMAIN server.namespaces -> DOMAIN server.namespaces] : IsInjective(f) /\ f[1] = 1} :
              LET later == [i \in DOMAIN p |-> server.namespaces[p[i]]]
                  at    == server.ns[n.id.ident]
              IN  at < Len(server.namespaces) =>
                    /\ ParseNodeId(n.id, later) # {}
                    /\ \A h \in ParseNodeId(n.id, later) :
                        later[h.index + 1] = server.namespaces[at + 1] /\ h.ident = n.id.ident
    BY <2>4
  <2> QED
    BY <2>2, <2>3, <2>5, Zenon DEF PinsAsFile
<1> QED
  BY <1>1, InvHolds, DescribedHolds, PTL
=============================================================================
