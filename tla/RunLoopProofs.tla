--------------------------- MODULE RunLoopProofs ---------------------------
(***************************************************************************)
(* The run loop: what Runner says of the loops of any number of clients,   *)
(* and what Reads says of the jobs of one of them, for any items.  The two *)
(* modules share neither names nor state.                                  *)
(***************************************************************************)
EXTENDS Runner, Reads, SequenceTheorems, WellFoundedInduction, FiniteSetTheorems, TLAPS

-----------------------------------------------------------------------------
(* Runner: the decision over the first contacts, and the end *)


\* The stop event is set for a reason, and servers are named only to stop.
StopReason ==
    /\ stop => asked \/ failed # {} \/ main = "done"
    /\ main \in {"contact", "serve"} => failed = {}
    /\ main = "finish" => failed # {}

\* A connection not yet told to stop is one that succeeded; a loop that ends without being
\* told to never connected.
OwnEnd ==
    \A c \in Clients :
        /\ connected[c] /\ ~stop => ever[c]
        /\ loop[c] \in {"close", "done"} => stop \/ ~ever[c]

RunnerInv == TypeOK /\ StopReason /\ OwnEnd /\ ServesTheContacted /\ EndsForAReason

LEMMA RunnerStarts == Init => RunnerInv
<1> SUFFICES ASSUME Init PROVE RunnerInv
  OBVIOUS
<1> USE DEF Init
<1>1. TypeOK
  <2>1. failures \in [Clients -> 0 .. MaxFailures - 1] /\ losses \in [Clients -> 0 .. 1]
    BY RunnerAssumption DEF RunnerAssumption
  <2>2. loop \in [Clients -> {"connect", "backoff", "wait", "job", "close", "done"}]
    OBVIOUS
  <2>3. /\ atStart \in [Clients -> BOOLEAN] /\ contacted \in [Clients -> BOOLEAN]
        /\ connected \in [Clients -> BOOLEAN] /\ ever \in [Clients -> BOOLEAN]
    OBVIOUS
  <2>4. faults \in 0 .. MaxFaults
    BY RunnerAssumption DEF RunnerAssumption
  <2>5. \A c \in Clients : (loop[c] # "connect" => contacted[c]) /\ (ever[c] => ~atStart[c])
    OBVIOUS
  <2> QED
    BY <2>1, <2>2, <2>3, <2>4, <2>5 DEF TypeOK
<1>2. StopReason /\ OwnEnd /\ ServesTheContacted /\ EndsForAReason
  BY DEF StopReason, OwnEnd, ServesTheContacted, EndsForAReason
<1> QED
  BY <1>1, <1>2 DEF RunnerInv

\* Every step keeps the types.
LEMMA RunnerStepTypes == TypeOK /\ [Next]_vars => TypeOK'
<1> SUFFICES ASSUME TypeOK, [Next]_vars PROVE TypeOK'
  OBVIOUS
<1> USE RunnerAssumption DEF RunnerAssumption, TypeOK, mine, run, link, tally
<1>1. CASE \E c \in Clients : Connects(c)
  <2> SUFFICES ASSUME NEW c \in Clients, Connects(c) PROVE TypeOK'
    BY <1>1
  <2> QED
    BY DEF Connects, FirstOver, At
<1>2. CASE \E c \in Clients : ConnectFails(c)
  <2> SUFFICES ASSUME NEW c \in Clients, ConnectFails(c) PROVE TypeOK'
    BY <1>2
  <2> QED
    BY DEF ConnectFails, FirstOver, At, Fault
<1>3. CASE \E c \in Clients : Due(c)
  <2> SUFFICES ASSUME NEW c \in Clients, Due(c) PROVE TypeOK'
    BY <1>3
  <2> QED
    BY DEF Due, At, Round
<1>4. CASE \E c \in Clients : BackedOff(c)
  <2> SUFFICES ASSUME NEW c \in Clients, BackedOff(c) PROVE TypeOK'
    BY <1>4
  <2> QED
    BY DEF BackedOff, At, Round
<1>5. CASE \E c \in Clients : JobDone(c)
  <2> SUFFICES ASSUME NEW c \in Clients, JobDone(c) PROVE TypeOK'
    BY <1>5
  <2> QED
    BY DEF JobDone, At, Round
<1>6. CASE \E c \in Clients : JobLosesLink(c)
  <2> SUFFICES ASSUME NEW c \in Clients, JobLosesLink(c) PROVE TypeOK'
    BY <1>6
  <2> QED
    BY DEF JobLosesLink, At, Round, Fault
<1>7. CASE \E c \in Clients : JobFails(c)
  <2> SUFFICES ASSUME NEW c \in Clients, JobFails(c) PROVE TypeOK'
    BY <1>7
  <2> QED
    BY DEF JobFails, At, Round, Fault
<1>8. CASE \E c \in Clients : Stopped(c)
  <2> SUFFICES ASSUME NEW c \in Clients, Stopped(c) PROVE TypeOK'
    BY <1>8
  <2> USE DEF Stopped, FirstOver
  <2>1. CASE loop[c] = "connect"
    <3>1. loop' \in [Clients -> {"connect", "backoff", "wait", "job", "close", "done"}]
      OBVIOUS
    <3>2. connected' \in [Clients -> BOOLEAN]
      OBVIOUS
    <3>3. contacted' \in [Clients -> BOOLEAN] /\ atStart' \in [Clients -> BOOLEAN]
      BY <2>1, ZenonT(30)
    <3>4. \A d \in Clients : (loop'[d] # "connect" => contacted'[d]) /\ (ever'[d] => ~atStart'[d])
      BY <2>1
    <3> QED
      BY <3>1, <3>2, <3>3, <3>4
  <2>2. CASE loop[c] # "connect"
    BY <2>2
  <2> QED
    BY <2>1, <2>2
<1>9. CASE \E c \in Clients : Closes(c)
  <2> SUFFICES ASSUME NEW c \in Clients, Closes(c) PROVE TypeOK'
    BY <1>9
  <2> USE DEF Closes, At, FirstOver
  <2>1. CASE UNCHANGED faults
    BY <2>1
  <2>2. CASE Fault
    BY <2>2 DEF Fault
  <2> QED
    BY <2>1, <2>2
<1>10. CASE \E c \in Clients : LinkDrops(c)
  <2> SUFFICES ASSUME NEW c \in Clients, LinkDrops(c) PROVE TypeOK'
    BY <1>10
  <2> QED
    BY DEF LinkDrops, Fault
<1>11. CASE Decide
  BY <1>11 DEF Decide, Named, AllContacted
<1>12. CASE Finish
  BY <1>12 DEF Finish
<1>13. CASE Stop
  BY <1>13 DEF Stop
<1>14. CASE UNCHANGED vars
  BY <1>14 DEF vars
<1> QED
  BY <1>1, <1>2, <1>3, <1>4, <1>5, <1>6, <1>7, <1>8, <1>9, <1>10, <1>11, <1>12, <1>13, <1>14 DEF Next, Loop, Main

\* Every step keeps the reasons: the runner decides to serve only over connected clients,
\* and it ends only after loops that were told to.
LEMMA RunnerStepReasons == RunnerInv /\ [Next]_vars => (StopReason /\ OwnEnd /\ ServesTheContacted /\ EndsForAReason)'
<1> SUFFICES ASSUME RunnerInv, [Next]_vars
             PROVE  (StopReason /\ OwnEnd /\ ServesTheContacted /\ EndsForAReason)'
  OBVIOUS
<1> USE RunnerAssumption DEF RunnerAssumption, RunnerInv, TypeOK, StopReason, OwnEnd, ServesTheContacted, EndsForAReason,
                             mine, run, link, tally
<1>1. CASE \E c \in Clients : Connects(c)
  <2> SUFFICES ASSUME NEW c \in Clients, Connects(c) PROVE (StopReason /\ OwnEnd /\ ServesTheContacted /\ EndsForAReason)'
    BY <1>1
  <2> QED
    BY DEF Connects, FirstOver, At
<1>2. CASE \E c \in Clients : ConnectFails(c)
  <2> SUFFICES ASSUME NEW c \in Clients, ConnectFails(c) PROVE (StopReason /\ OwnEnd /\ ServesTheContacted /\ EndsForAReason)'
    BY <1>2
  <2> QED
    BY DEF ConnectFails, FirstOver, At, Fault
<1>3. CASE \E c \in Clients : Due(c)
  <2> SUFFICES ASSUME NEW c \in Clients, Due(c) PROVE (StopReason /\ OwnEnd /\ ServesTheContacted /\ EndsForAReason)'
    BY <1>3
  <2> QED
    BY DEF Due, At, Round
<1>4. CASE \E c \in Clients : BackedOff(c)
  <2> SUFFICES ASSUME NEW c \in Clients, BackedOff(c) PROVE (StopReason /\ OwnEnd /\ ServesTheContacted /\ EndsForAReason)'
    BY <1>4
  <2> QED
    BY DEF BackedOff, At, Round
<1>5. CASE \E c \in Clients : JobDone(c)
  <2> SUFFICES ASSUME NEW c \in Clients, JobDone(c) PROVE (StopReason /\ OwnEnd /\ ServesTheContacted /\ EndsForAReason)'
    BY <1>5
  <2> QED
    BY DEF JobDone, At, Round
<1>6. CASE \E c \in Clients : JobLosesLink(c)
  <2> SUFFICES ASSUME NEW c \in Clients, JobLosesLink(c) PROVE (StopReason /\ OwnEnd /\ ServesTheContacted /\ EndsForAReason)'
    BY <1>6
  <2> QED
    BY DEF JobLosesLink, At, Round, Fault
<1>7. CASE \E c \in Clients : JobFails(c)
  <2> SUFFICES ASSUME NEW c \in Clients, JobFails(c) PROVE (StopReason /\ OwnEnd /\ ServesTheContacted /\ EndsForAReason)'
    BY <1>7
  <2> QED
    BY DEF JobFails, At, Round, Fault
<1>8. CASE \E c \in Clients : Stopped(c)
  <2> SUFFICES ASSUME NEW c \in Clients, Stopped(c) PROVE (StopReason /\ OwnEnd /\ ServesTheContacted /\ EndsForAReason)'
    BY <1>8
  <2> QED
    BY DEF Stopped, Raced, FirstOver
<1>9. CASE \E c \in Clients : Closes(c)
  <2> SUFFICES ASSUME NEW c \in Clients, Closes(c) PROVE (StopReason /\ OwnEnd /\ ServesTheContacted /\ EndsForAReason)'
    BY <1>9
  <2> QED
    BY DEF Closes, At, FirstOver, Fault
<1>10. CASE \E c \in Clients : LinkDrops(c)
  <2> SUFFICES ASSUME NEW c \in Clients, LinkDrops(c) PROVE (StopReason /\ OwnEnd /\ ServesTheContacted /\ EndsForAReason)'
    BY <1>10
  <2> QED
    BY DEF LinkDrops, Fault
<1>11. CASE Decide
  BY <1>11 DEF Decide, Named, AllContacted
<1>12. CASE Finish
  BY <1>12 DEF Finish
<1>13. CASE Stop
  BY <1>13 DEF Stop
<1>14. CASE UNCHANGED vars
  BY <1>14 DEF vars
<1> QED
  BY <1>1, <1>2, <1>3, <1>4, <1>5, <1>6, <1>7, <1>8, <1>9, <1>10, <1>11, <1>12, <1>13, <1>14 DEF Next, Loop, Main

\* The inductive invariant.
THEOREM RunnerInvariant == Spec => []RunnerInv
<1>1. RunnerInv /\ [Next]_vars => RunnerInv'
  BY RunnerStepTypes, RunnerStepReasons DEF RunnerInv
<1> QED
  BY RunnerStarts, <1>1, PTL DEF Spec

\* Every variable keeps to its values, and a loop past its first connect is contacted.
THEOREM TypeCorrect == Spec => []TypeOK
  BY RunnerInvariant, PTL DEF RunnerInv

\* While the extension serves and nobody asked it to stop, every server has connected once.
THEOREM FirstContactIsHard == Spec => []ServesTheContacted
  BY RunnerInvariant, PTL DEF RunnerInv

\* The extension ends only when asked to, or with a server to name.
THEOREM NeverJustEnds == Spec => []EndsForAReason
  BY RunnerInvariant, PTL DEF RunnerInv

-----------------------------------------------------------------------------
(* Numbers, and sets of them *)

LEMMA SmallestSet ==
    ASSUME NEW S, NEW F, F \subseteq FiniteSubsetsOf(S), F # {}
    PROVE  \E A \in F : \A B \in F : B \subseteq A => B = A
<1> DEFINE R == StrictSubsetOrdering(S)
<1>1. IsWellFoundedOn(R, FiniteSubsetsOf(S))
  BY FS_StrictSubsetOrderingWellFounded
<1>2. PICK A \in F : \A B \in F : ~(<<B, A>> \in R)
  <2> HIDE DEF R
  <2> QED
    BY <1>1, WFMin
<1>3. \A B \in F : B \subseteq A => B = A
  BY <1>2 DEF StrictSubsetOrdering, FiniteSubsetsOf
<1> QED
  BY <1>3

\* A set that has 0 and the successors of its members has every natural number.
LEMMA NatSetInduction ==
    ASSUME NEW S, 0 \in S, \A n \in Nat : n \in S => n + 1 \in S
    PROVE  \A n \in Nat : n \in S
<1> DEFINE T == Nat \ S
           F == {0 .. n : n \in T}
<1> SUFFICES ASSUME T # {} PROVE FALSE
  OBVIOUS
<1>1. \A n \in T : n \in Nat /\ (0 .. n) \subseteq Nat /\ IsFiniteSet(0 .. n)
  BY FS_Interval
<1>2. F \subseteq FiniteSubsetsOf(Nat) /\ F # {}
  BY <1>1 DEF FiniteSubsetsOf
<1>3. PICK A \in F : \A B \in F : B \subseteq A => B = A
  <2> HIDE DEF F
  <2> QED
    BY <1>2, SmallestSet
<1>4. PICK m \in T : A = 0 .. m
  OBVIOUS
<1>5. m # 0 /\ m \in Nat
  OBVIOUS
<1>6. m - 1 \in Nat /\ m = (m - 1) + 1
  BY <1>5
<1>7. m - 1 \notin T
  <2> SUFFICES ASSUME m - 1 \in T PROVE FALSE
    OBVIOUS
  <2>1. 0 .. (m - 1) \in F /\ 0 .. (m - 1) \subseteq 0 .. m /\ m \in 0 .. m /\ m \notin 0 .. (m - 1)
    BY <1>5
  <2> QED
    BY <1>3, <1>4, <2>1
<1> QED
  BY <1>5, <1>6, <1>7

\* A set of naturals that is not empty has a least member.
LEMMA LeastOf == ASSUME NEW S, S \subseteq Nat, S # {} PROVE \E m \in S : \A n \in S : m <= n
<1> DEFINE F == {0 .. n : n \in S}
<1>1. \A n \in S : n \in Nat /\ (0 .. n) \subseteq Nat /\ IsFiniteSet(0 .. n)
  BY FS_Interval
<1>2. F \subseteq FiniteSubsetsOf(Nat) /\ F # {}
  BY <1>1 DEF FiniteSubsetsOf
<1>3. PICK A \in F : \A B \in F : B \subseteq A => B = A
  <2> HIDE DEF F
  <2> QED
    BY <1>2, SmallestSet
<1>4. PICK m \in S : A = 0 .. m
  OBVIOUS
<1>5. ASSUME NEW n \in S PROVE m <= n
  <2> SUFFICES ASSUME n < m PROVE FALSE
    BY <1>1
  <2>1. n \in Nat /\ m \in Nat
    BY <1>1
  <2>2. 0 .. n \in F /\ 0 .. n \subseteq 0 .. m /\ m \in 0 .. m /\ m \notin 0 .. n
    BY <2>1
  <2> QED
    BY <1>3, <1>4, <2>2
<1> QED
  BY <1>5

LEMMA DivIs ==
  ASSUME NEW n \in Nat, NEW d \in Nat \ {0}
  PROVE  LET q == n \div d IN q \in Nat /\ q * d <= n /\ n < q * d + d
  OBVIOUS

LEMMA CeilIs ==
  ASSUME NEW n \in Nat, NEW d \in Nat \ {0}
  PROVE  /\ CeilDiv(n, d) \in Nat
         /\ n <= CeilDiv(n, d) * d /\ CeilDiv(n, d) * d < n + d
<1>1. n + d - 1 \in Nat
  OBVIOUS
<1>2. PICK q : q = CeilDiv(n, d)
  OBVIOUS
<1>3. q \in Nat /\ q * d <= n + d - 1 /\ n + d - 1 < q * d + d
  BY <1>1, <1>2, DivIs DEF CeilDiv
<1> QED
  BY <1>2, <1>3


\* A product grows with its factor.
LEMMA Times ==
    ASSUME NEW a \in Int, NEW b \in Int, NEW d \in Nat
    PROVE  /\ a * d \in Int /\ (a + b) * d = a * d + b * d /\ (a - b) * d = a * d - b * d
           /\ a <= b => a * d <= b * d
           /\ a * d < b * d => a < b
  OBVIOUS

LEMMA TimesLess ==
    ASSUME NEW a \in Int, NEW b \in Int, NEW d \in Nat, a < b
    PROVE  a * d + d <= b * d
<1>1. (a + 1) * d <= b * d
  BY Times
<1> QED
  BY <1>1

LEMMA TimesNext == ASSUME NEW a \in Int, NEW d \in Int PROVE (a + 1) * d = a * d + d
  OBVIOUS

-----------------------------------------------------------------------------
(* Reads: what its helpers make of sets and sequences *)

Increasing(s) == \A i, j \in DOMAIN s : i < j => s[i] < s[j]
Distinct(s) == \A i, j \in DOMAIN s : s[i] = s[j] => i = j

LEMMA SortedExists ==
    ASSUME NEW T, T \subseteq Nat, IsFiniteSet(T)
    PROVE  \E s \in [1 .. Cardinality(T) -> T] : Increasing(s)
<1> DEFINE S == {n \in Nat : \A U \in SUBSET Nat : IsFiniteSet(U) /\ Cardinality(U) = n
                    => \E s \in [1 .. n -> U] : Increasing(s)}
<1>1. 0 \in S
  <2> SUFFICES ASSUME NEW U \in SUBSET Nat PROVE \E s \in [1 .. 0 -> U] : Increasing(s)
    OBVIOUS
  <2> WITNESS [i \in 1 .. 0 |-> 0] \in [1 .. 0 -> U]
  <2> QED
    BY DEF Increasing
<1>2. ASSUME NEW n \in Nat, n \in S PROVE n + 1 \in S
  <2> SUFFICES ASSUME NEW U \in SUBSET Nat, IsFiniteSet(U), Cardinality(U) = n + 1
               PROVE  \E s \in [1 .. n + 1 -> U] : Increasing(s)
    OBVIOUS
  <2>1. U # {}
    BY FS_EmptySet
  <2>2. PICK m \in U : \A x \in U : m <= x
    BY <2>1, LeastOf
  <2>3. IsFiniteSet(U \ {m}) /\ Cardinality(U \ {m}) = n
    <3>1. IsFiniteSet(U \ {m}) /\ Cardinality(U \ {m}) = Cardinality(U) - 1
      BY FS_RemoveElement
    <3> QED
      BY <3>1
  <2>4. PICK s \in [1 .. n -> U \ {m}] : Increasing(s)
    BY <1>2, <2>3
  <2>5. \A i \in 1 .. n : s[i] \in U /\ m < s[i]
    <3>1. \A x \in U \ {m} : x \in U /\ x \in Nat /\ m \in Nat /\ m <= x /\ x # m
      BY <2>2
    <3>2. \A x \in U \ {m} : x \in U /\ m < x
      BY <3>1
    <3> QED
      BY <2>4, <3>2
  <2> DEFINE r == [i \in 1 .. n + 1 |-> IF i = 1 THEN m ELSE s[i - 1]]
  <2>6. \A i \in 1 .. n + 1 : i # 1 => i - 1 \in 1 .. n
    OBVIOUS
  <2>7. r \in [1 .. n + 1 -> U]
    BY <2>5, <2>6
  <2>8. ASSUME NEW i \in 1 .. n + 1, NEW j \in 1 .. n + 1, i < j PROVE r[i] < r[j]
    <3>1. j # 1 /\ r[j] = s[j - 1] /\ j - 1 \in 1 .. n
      BY <2>6, <2>8
    <3>2. CASE i = 1
      BY <2>5, <3>1, <3>2
    <3>3. CASE i # 1
      BY <2>4, <2>6, <2>8, <3>1, <3>3 DEF Increasing
    <3> QED
      BY <3>2, <3>3
  <2> QED
    BY <2>7, <2>8 DEF Increasing
<1>3. Cardinality(T) \in Nat
  BY FS_CardinalityType
<1> HIDE DEF S
<1>4. Cardinality(T) \in S
  BY <1>1, <1>2, <1>3, NatSetInduction
<1> QED
  BY <1>4 DEF S

LEMMA SortedIs ==
    ASSUME NEW T, T \subseteq Nat, IsFiniteSet(T)
    PROVE  /\ Cardinality(T) \in Nat /\ Sorted(T) \in [1 .. Cardinality(T) -> T]
           /\ Increasing(Sorted(T)) /\ Range(Sorted(T)) = T
<1>1. PICK n \in Nat : n = Cardinality(T)
  BY FS_CardinalityType
<1>2. PICK s : s = Sorted(T)
  OBVIOUS
<1>3. s \in [1 .. n -> T] /\ Increasing(s)
  BY <1>1, <1>2, SortedExists DEF Sorted, Increasing
<1>4. \A i, j \in 1 .. n : s[i] = s[j] => i = j
  <2> SUFFICES ASSUME NEW i \in 1 .. n, NEW j \in 1 .. n, s[i] = s[j], i # j PROVE FALSE
    OBVIOUS
  <2>1. s[i] \in Nat /\ s[j] \in Nat
    BY <1>3
  <2> QED
    BY <1>3, <2>1 DEF Increasing
<1>5. s \in Injection(1 .. n, T)
  BY <1>3, <1>4 DEF Injection, IsInjective
<1>6. Cardinality(1 .. n) = n /\ IsFiniteSet(1 .. n)
  BY FS_Interval
<1>7. s \in Surjection(1 .. n, T)
  BY <1>1, <1>5, <1>6, FS_Injection
<1>8. Range(s) = T
  BY <1>3, <1>7 DEF Surjection, Range
<1> QED
  BY <1>1, <1>2, <1>3, <1>8

LEMMA UpTo == ASSUME NEW n \in Nat PROVE IsFiniteSet(1 .. n) /\ Cardinality(1 .. n) = n
<1>1. Cardinality(1 .. n) = IF 1 > n THEN 0 ELSE n - 1 + 1
  BY FS_Interval
<1> QED
  BY <1>1, FS_Interval

\* Kept picks the places of s, in their order, that hold a member of T.
KeptAt(s, T) ==
    \E m \in Nat : \E at \in [1 .. m -> DOMAIN s] :
        /\ Increasing(at) /\ Kept(s, T) = [n \in 1 .. m |-> s[at[n]]]
        /\ \A i \in DOMAIN s : s[i] \in T <=> \E n \in 1 .. m : at[n] = i

LEMMA KeptPlaces == ASSUME NEW X, NEW s \in Seq(X), NEW T PROVE KeptAt(s, T)
<1> DEFINE D == {i \in DOMAIN s : s[i] \in T}
<1>1. DOMAIN s = 1 .. Len(s) /\ Len(s) \in Nat
  OBVIOUS
<1>2. IsFiniteSet(DOMAIN s) /\ DOMAIN s \subseteq Nat
  BY <1>1, FS_Interval
<1>3. D \subseteq Nat /\ IsFiniteSet(D)
  BY <1>2, FS_Subset
<1>4. PICK E : E = D
  OBVIOUS
<1>5. PICK m, at : m = Cardinality(E) /\ at = Sorted(E)
  OBVIOUS
<1>6. m \in Nat /\ at \in [1 .. m -> E] /\ Increasing(at) /\ Range(at) = E
  BY <1>3, <1>4, <1>5, SortedIs
<1>7. at \in [1 .. m -> DOMAIN s]
  BY <1>4, <1>6
<1>8. Kept(s, T) = [n \in 1 .. m |-> s[at[n]]]
  BY <1>4, <1>5, <1>6 DEF Kept
<1>9. \A i \in DOMAIN s : s[i] \in T <=> \E n \in 1 .. m : at[n] = i
  BY <1>4, <1>6 DEF Range
<1> QED
  BY <1>6, <1>7, <1>8, <1>9 DEF KeptAt

LEMMA KeptIs ==
    ASSUME NEW X, NEW s \in Seq(X), NEW T
    PROVE  /\ Kept(s, T) \in Seq(X) /\ Len(Kept(s, T)) <= Len(s)
           /\ Range(Kept(s, T)) = Range(s) \cap T
           /\ Distinct(s) => Distinct(Kept(s, T))
<1>0. KeptAt(s, T)
  BY KeptPlaces, Zenon
<1>1. PICK m \in Nat : \E at \in [1 .. m -> DOMAIN s] :
             /\ Increasing(at) /\ Kept(s, T) = [n \in 1 .. m |-> s[at[n]]]
             /\ \A i \in DOMAIN s : s[i] \in T <=> \E n \in 1 .. m : at[n] = i
  BY <1>0, Zenon DEF KeptAt
<1>2. PICK at \in [1 .. m -> DOMAIN s] :
             /\ Increasing(at) /\ Kept(s, T) = [n \in 1 .. m |-> s[at[n]]]
             /\ \A i \in DOMAIN s : s[i] \in T <=> \E n \in 1 .. m : at[n] = i
  BY <1>1
<1>3. PICK k : k = Kept(s, T)
  OBVIOUS
<1>4. DOMAIN s = 1 .. Len(s) /\ Len(s) \in Nat
  OBVIOUS
<1>5. k = [n \in 1 .. m |-> s[at[n]]] /\ \A n \in 1 .. m : at[n] \in DOMAIN s /\ s[at[n]] \in X
  BY <1>2, <1>3
<1>6. k \in Seq(X) /\ Len(k) = m
  BY <1>5
<1>7. \A i, j \in 1 .. m : at[i] = at[j] => i = j
  <2> SUFFICES ASSUME NEW i \in 1 .. m, NEW j \in 1 .. m, at[i] = at[j], i # j PROVE FALSE
    OBVIOUS
  <2>1. at[i] \in Nat /\ at[j] \in Nat
    BY <1>4
  <2> QED
    BY <1>2, <2>1 DEF Increasing
<1>8. m <= Len(s)
  <2>1. at \in Injection(1 .. m, 1 .. Len(s))
    BY <1>4, <1>7 DEF Injection, IsInjective
  <2>2. Cardinality(1 .. m) = m /\ Cardinality(1 .. Len(s)) = Len(s) /\ IsFiniteSet(1 .. Len(s))
    BY <1>4, UpTo
  <2> QED
    BY <2>1, <2>2, FS_Injection
<1>9. Range(k) = Range(s) \cap T
  <2>1. ASSUME NEW n \in 1 .. m PROVE k[n] \in Range(s) \cap T
    BY <1>2, <1>5 DEF Range
  <2>2. ASSUME NEW i \in DOMAIN s, s[i] \in T PROVE \E n \in 1 .. m : k[n] = s[i]
    BY <1>2, <1>5, <2>2
  <2>3. DOMAIN k = 1 .. m
    BY <1>5
  <2> QED
    BY <2>1, <2>2, <2>3 DEF Range
<1>10. Distinct(s) => Distinct(k)
  BY <1>5, <1>7 DEF Distinct
<1> QED
  BY <1>3, <1>6, <1>8, <1>9, <1>10

\* What is kept stays in the order of the places.
LEMMA KeptInOrder ==
    ASSUME NEW X, NEW s \in Seq(X), NEW T, NEW f \in [X -> Nat],
           \A i, j \in DOMAIN s : i <= j => f[s[j]] <= f[s[i]]
    PROVE  \A i, j \in DOMAIN Kept(s, T) : i <= j => f[Kept(s, T)[j]] <= f[Kept(s, T)[i]]
<1>1. PICK m \in Nat : \E at \in [1 .. m -> DOMAIN s] :
             Increasing(at) /\ Kept(s, T) = [n \in 1 .. m |-> s[at[n]]]
  BY KeptPlaces, SMTT(20) DEF KeptAt
<1>2. PICK at \in [1 .. m -> DOMAIN s] :
             Increasing(at) /\ Kept(s, T) = [n \in 1 .. m |-> s[at[n]]]
  BY <1>1
<1>3. PICK k : k = Kept(s, T) /\ k = [n \in 1 .. m |-> s[at[n]]]
  BY <1>2
<1> SUFFICES ASSUME NEW i \in 1 .. m, NEW j \in 1 .. m, i <= j PROVE f[k[j]] <= f[k[i]]
  BY <1>3
<1>4. PICK a \in DOMAIN s, b \in DOMAIN s : a = at[i] /\ b = at[j]
  OBVIOUS
<1>5. a \in Nat /\ b \in Nat
  OBVIOUS
<1>6. a <= b
  <2>1. DOMAIN at = 1 .. m /\ (i = j \/ i < j)
    OBVIOUS
  <2>2. CASE i = j
    BY <1>4, <1>5, <2>2
  <2>3. CASE i < j
    BY <1>2, <1>4, <1>5, <2>1, <2>3 DEF Increasing
  <2> QED
    BY <2>1, <2>2, <2>3
<1> QED
  BY <1>3, <1>4, <1>6

\* The number of members of a sequence that names none twice.
LEMMA DistinctCount ==
    ASSUME NEW X, NEW s \in Seq(X), Distinct(s)
    PROVE  IsFiniteSet(Range(s)) /\ Cardinality(Range(s)) = Len(s)
<1>1. DOMAIN s = 1 .. Len(s) /\ Len(s) \in Nat
  OBVIOUS
<1>2. s \in Bijection(1 .. Len(s), Range(s))
  BY <1>1 DEF Distinct, Range, Bijection, Injection, Surjection, IsInjective
<1>3. ExistsBijection(1 .. Len(s), Range(s))
  BY <1>2 DEF ExistsBijection
<1>4. IsFiniteSet(1 .. Len(s)) /\ Cardinality(1 .. Len(s)) = Len(s)
  BY <1>1, FS_Interval, SMTT(20)
<1> QED
  BY <1>3, <1>4, FS_Bijection

\* A job that is due before every other exists, whatever their due dates.
LEMMA EarliestIs ==
    ASSUME NEW js, NEW n \in Nat \ {0}, DOMAIN js = 1 .. n, \A i \in 1 .. n : js[i].wait \in Int,
           NEW b \in Nat, \A i \in 1 .. n : 0 <= js[i].wait + b
    PROVE  Earliest(js) \in DOMAIN js /\ \A i \in DOMAIN js : js[Earliest(js)].wait <= js[i].wait
<1> DEFINE W == {js[i].wait + b : i \in 1 .. n}
<1>1. W \subseteq Nat /\ W # {}
  OBVIOUS
<1>2. PICK w \in W : \A v \in W : w <= v
  BY <1>1, LeastOf
<1> DEFINE I == {i \in 1 .. n : js[i].wait + b = w}
<1>3. I \subseteq Nat /\ I # {}
  <2>1. PICK i \in 1 .. n : w = js[i].wait + b
    BY Zenon
  <2>2. i \in I
    BY <2>1, Zenon
  <2>3. I \subseteq 1 .. n
    BY Zenon
  <2>4. 1 .. n \subseteq Nat
    OBVIOUS
  <2> HIDE DEF I
  <2> QED
    BY <2>2, <2>3, <2>4, Zenon
<1>4. PICK e \in I : \A i \in I : e <= i
  BY <1>3, LeastOf
<1>5. e \in 1 .. n /\ js[e].wait + b = w
  OBVIOUS
<1>6. ASSUME NEW j \in 1 .. n PROVE js[e].wait < js[j].wait \/ (js[e].wait = js[j].wait /\ e <= j)
  <2>1. w <= js[j].wait + b
    BY <1>2
  <2>2. CASE j \in I
    BY <1>4, <1>5, <2>2
  <2>3. CASE j \notin I
    <3>1. js[j].wait + b # w
      BY <2>3
    <3> QED
      BY <1>5, <2>1, <3>1, SMTT(20)
  <2> QED
    BY <2>2, <2>3
<1>7. \E i \in DOMAIN js : \A j \in DOMAIN js :
          js[i].wait < js[j].wait \/ (js[i].wait = js[j].wait /\ i <= j)
  BY <1>5, <1>6
<1>8. PICK x : x = Earliest(js)
  BY Zenon
<1>9. x \in DOMAIN js /\ \A j \in DOMAIN js : js[x].wait < js[j].wait \/ (js[x].wait = js[j].wait /\ x <= j)
  BY <1>7, <1>8, Zenon DEF Earliest
<1>10. ASSUME NEW j \in DOMAIN js PROVE js[x].wait <= js[j].wait
  <2> HIDE DEF W, I
  <2>1. PICK y \in Int, z \in Int : y = js[x].wait /\ z = js[j].wait
    BY <1>9
  <2>2. y < z \/ y = z
    BY <1>9, <2>1, Zenon
  <2> QED
    BY <2>1, <2>2
<1> QED
  BY <1>8, <1>9, <1>10

\* z is x followed by y.
Joins(z, S, x, n, y, m) ==
    /\ z \in Seq(S) /\ Len(z) = n + m
    /\ \A i \in 1 .. n : z[i] = x[i]
    /\ \A i \in 1 .. m : z[n + i] = y[i]

LEMMA Joined ==
    ASSUME NEW S, NEW x \in Seq(S), NEW y \in Seq(S), NEW n \in Nat, NEW m \in Nat, Len(x) = n, Len(y) = m
    PROVE  Joins(x \o y, S, x, n, y, m)
<1>1. /\ x \o y \in Seq(S) /\ Len(x \o y) = n + m
      /\ \A i \in 1 .. n + m : (x \o y)[i] = IF i <= n THEN x[i] ELSE y[i - n]
  BY ConcatProperties
<1>2. ASSUME NEW i \in 1 .. n PROVE (x \o y)[i] = x[i]
  BY <1>1
<1>3. ASSUME NEW i \in 1 .. m PROVE (x \o y)[n + i] = y[i]
  <2>1. n + i \in 1 .. n + m /\ ~(n + i <= n) /\ (n + i) - n = i
    OBVIOUS
  <2> QED
    BY <1>1, <2>1
<1> QED
  BY <1>1, <1>2, <1>3 DEF Joins

LEMMA Parameters ==
    /\ ReadChunk \in Nat \ {0} /\ PollInterval \in Nat \ {0} /\ Interval \in Nat \ {0}
    /\ StaleAfter \in Nat \ {0} /\ SweepSteps \in Nat \ {0}
    /\ Longest \in Nat /\ MaxFailedReads \in Nat /\ Horizon \in Nat
    /\ Items \subseteq Nat \ {0} /\ IsFiniteSet(Items) /\ Subscribed \subseteq Items
  BY ReadsAssumption DEF ReadsAssumption

\* The sweep's items are the first of _stale, silent all of them, and all that are silent
\* unless its one Read is full.
LEMMA FrontIs ==
    ASSUME stale \in Seq(Items), age \in [Items -> Nat],
           \A i, j \in DOMAIN stale : i <= j => age[stale[j]] <= age[stale[i]]
    PROVE  \E n \in 0 .. Len(stale) :
             /\ SilentFront \in Seq(Items) /\ Len(SilentFront) = n /\ n <= ReadChunk
             /\ \A i \in 1 .. n : SilentFront[i] = stale[i] /\ Silent(stale[i])
             /\ n = ReadChunk \/ \A i \in DOMAIN stale : n < i => ~Silent(stale[i])
<1>1. PICK l \in Nat : l = Len(stale) /\ DOMAIN stale = 1 .. l
  OBVIOUS
<1> DEFINE S == {n \in 0 .. l : n = l \/ ~Silent(stale[n + 1])}
<1>2. S \subseteq Nat /\ l \in S
  BY <1>1
<1>3. PICK f \in S : \A n \in S : f <= n
  <2> HIDE DEF S
  <2> QED
    BY <1>2, LeastOf
<1>4. f \in 0 .. l /\ (f = l \/ ~Silent(stale[f + 1]))
  OBVIOUS
<1>5. ASSUME NEW i \in 1 .. f PROVE Silent(stale[i])
  <2>1. i - 1 \in 0 .. l /\ i - 1 # l /\ ~(f <= i - 1) /\ (i - 1) + 1 = i
    BY <1>4
  <2> QED
    BY <1>3, <2>1
<1> HIDE DEF S
<1>6. PICK g : g = CHOOSE n \in 0 .. Len(stale) :
            (\A i \in 1 .. n : Silent(stale[i])) /\ (n = Len(stale) \/ ~Silent(stale[n + 1]))
  OBVIOUS
<1>7. g \in 0 .. l /\ (\A i \in 1 .. g : Silent(stale[i])) /\ (g = l \/ ~Silent(stale[g + 1]))
  BY <1>1, <1>4, <1>5, <1>6
<1>8. PICK n \in Nat : n = Least(g, ReadChunk) /\ n <= g /\ n <= ReadChunk /\ (n = g \/ n = ReadChunk)
  BY <1>7, Parameters DEF Least
<1>9. SilentFront = SubSeq(stale, 1, n)
  BY <1>6, <1>8 DEF SilentFront
<1>10. n \in 0 .. Len(stale)
  BY <1>1, <1>7, <1>8
<1>11. SubSeq(stale, 1, n) \in Seq(Items) /\ Len(SubSeq(stale, 1, n)) = n
       /\ \A i \in 1 .. n : SubSeq(stale, 1, n)[i] = stale[i]
  BY <1>10
<1>12. \A i \in 1 .. n : Silent(stale[i])
  BY <1>7, <1>8
<1>13. ASSUME n # ReadChunk, NEW i \in DOMAIN stale, n < i PROVE ~Silent(stale[i])
  <2>1. n = g /\ g # l /\ g + 1 \in DOMAIN stale /\ g + 1 <= i
    BY <1>1, <1>7, <1>8, <1>13
  <2>2. age[stale[i]] <= age[stale[g + 1]] /\ ~Silent(stale[g + 1])
    BY <1>7, <2>1
  <2>3. PICK x \in Nat, y \in Nat : x = age[stale[i]] /\ y = age[stale[g + 1]]
    BY <2>1
  <2>4. x <= y /\ ~(y >= StaleAfter)
    BY <2>2, <2>3 DEF Silent
  <2>5. ~(x >= StaleAfter)
    BY <2>4, Parameters
  <2> QED
    BY <2>3, <2>5 DEF Silent
<1> QED
  BY <1>8, <1>9, <1>10, <1>11, <1>12, <1>13

\* z is the part of s after position a and up to position h.
Slice(z, T, s, a, h) ==
    z \in Seq(T) /\ \E l \in Nat : l = h - a /\ z = [p \in 1 .. l |-> s[p + a]]

LEMMA SliceIs ==
    ASSUME NEW T, NEW n \in Nat, NEW s \in [1 .. n -> T], NEW a \in Nat, NEW h \in Nat, a < h, h <= n
    PROVE  Slice(SubSeq(s, a + 1, h), T, s, a, h)
<1>1. s \in Seq(T) /\ Len(s) = n
  OBVIOUS
<1>2. PICK l \in Nat : l = h - a
  OBVIOUS
<1>3. \A p \in 1 .. l : p + a \in 1 .. n /\ a + 1 + p - 1 = p + a
  BY <1>2
<1>4. SubSeq(s, a + 1, h) = [p \in 1 .. h - (a + 1) + 1 |-> s[a + 1 + p - 1]]
  BY <1>1
<1>5. h - (a + 1) + 1 = l
  BY <1>2
<1>6. SubSeq(s, a + 1, h) = [p \in 1 .. l |-> s[p + a]]
  BY <1>3, <1>4, <1>5
<1>7. [p \in 1 .. l |-> s[p + a]] \in Seq(T)
  BY <1>3
<1> QED
  BY <1>2, <1>6, <1>7 DEF Slice

\* C lists share out T: each member is in one of them.
Shares(ch, C, T) ==
    /\ DOMAIN ch = 1 .. C
    /\ \A i \in 1 .. C : ch[i] \in Seq(T)
    /\ \A x \in T : \E i \in 1 .. C : \A j \in 1 .. C : x \in Range(ch[j]) <=> j = i

\* The chunks share the items out.
LEMMA ChunksIs ==
    ASSUME NEW T, T \subseteq Items
    PROVE  \E C \in Nat : C = CeilDiv(Cardinality(T), ReadChunk) /\ Shares(Chunks(T), C, T)
<1>1. T \subseteq Nat /\ IsFiniteSet(T) /\ ReadChunk \in Nat \ {0}
  BY Parameters, FS_Subset
<1>2. PICK n, s : n = Cardinality(T) /\ s = Sorted(T)
  OBVIOUS
<1>3. n \in Nat /\ s \in [1 .. n -> T] /\ Increasing(s) /\ Range(s) = T
  BY <1>1, <1>2, SortedIs
<1>4. \A i, j \in 1 .. n : s[i] = s[j] => i = j
  <2> SUFFICES ASSUME NEW i \in 1 .. n, NEW j \in 1 .. n, s[i] = s[j], i # j PROVE FALSE
    OBVIOUS
  <2>1. s[i] \in Nat /\ s[j] \in Nat
    BY <1>1, <1>3
  <2> QED
    BY <1>3, <2>1 DEF Increasing
<1>5. PICK C \in Nat : C = CeilDiv(n, ReadChunk) /\ n <= C * ReadChunk /\ C * ReadChunk < n + ReadChunk
  BY <1>1, <1>3, CeilIs
<1>6. PICK ch : ch = Chunks(T)
  OBVIOUS
<1>7. ch = [i \in 1 .. C |-> SubSeq(s, (i - 1) * ReadChunk + 1, Least(i * ReadChunk, n))]
  BY <1>2, <1>5, <1>6 DEF Chunks
<1>8. ASSUME NEW i \in 1 .. C
      PROVE  /\ ch[i] \in Seq(T)
             /\ \A p \in 1 .. n : s[p] \in Range(ch[i]) <=> (i - 1) * ReadChunk < p /\ p <= i * ReadChunk
  <2>1. PICK a \in Int, b \in Int : a = (i - 1) * ReadChunk /\ b = i * ReadChunk
    BY <1>1
  <2>2. 0 <= a /\ b = a + ReadChunk
    BY <1>1, <2>1, Times
  <2>3. a < n
    <3>1. i - 1 <= C - 1
      OBVIOUS
    <3>2. a <= (C - 1) * ReadChunk /\ (C - 1) * ReadChunk = C * ReadChunk - 1 * ReadChunk /\ (C - 1) * ReadChunk \in Int
          /\ C * ReadChunk \in Int /\ 1 * ReadChunk = ReadChunk
      BY <1>1, <2>1, <3>1, Times
    <3> QED
      BY <1>1, <1>3, <1>5, <2>1, <3>2, SMTT(20)
  <2>4. PICK h \in Int : h = Least(b, n) /\ h <= b /\ h <= n /\ (h = b \/ h = n) /\ a < h
    BY <1>1, <1>3, <2>1, <2>2, <2>3 DEF Least
  <2>5. ch[i] = SubSeq(s, a + 1, h)
    BY <1>7, <2>1, <2>4
  <2>6. a \in Nat /\ h \in Nat
    BY <2>2, <2>4
  <2>7. ch[i] \in Seq(T) /\ \E l \in Nat : l = h - a /\ ch[i] = [p \in 1 .. l |-> s[p + a]]
    <3>1. s \in [1 .. n -> T] /\ n \in Nat /\ a < h /\ h <= n
      BY <1>3, <2>4, Zenon
    <3>2. Slice(SubSeq(s, a + 1, h), T, s, a, h)
      BY <2>6, <3>1, SliceIs, Zenon
    <3> QED
      BY <2>5, <3>2, Zenon DEF Slice
  <2>8. PICK l \in Nat : l = h - a /\ ch[i] = [p \in 1 .. l |-> s[p + a]]
    BY <2>7
  <2>9. \A p \in 1 .. l : p + a \in 1 .. n
    BY <1>3, <2>4, <2>6, <2>8
  <2>10. ASSUME NEW p \in 1 .. n, a < p, p <= b PROVE p <= h
    BY <1>3, <2>4, <2>10
  <2>11. ASSUME NEW p \in 1 .. n, s[p] \in Range(ch[i]) PROVE a < p /\ p <= b
    <3>1. PICK k \in 1 .. l : s[p] = s[k + a]
      BY <2>8, <2>11 DEF Range
    <3>2. p = k + a
      BY <1>4, <2>9, <3>1
    <3>3. k >= 1 /\ k <= h - a
      BY <2>8
    <3> QED
      BY <2>4, <3>2, <3>3
  <2>12. ASSUME NEW p \in 1 .. n, a < p, p <= b PROVE s[p] \in Range(ch[i])
    <3>1. PICK k \in 1 .. l : k = p - a /\ k + a = p
      <4>1. l = h - a /\ p <= h
        BY <2>8, <2>10, <2>12
      <4>2. p - a \in 1 .. l /\ (p - a) + a = p
        BY <1>3, <2>6, <2>12, <4>1
      <4> QED
        BY <4>2
    <3>2. ch[i][k] = s[p] /\ k \in DOMAIN ch[i]
      BY <2>8, <3>1
    <3> QED
      BY <3>2 DEF Range
  <2> QED
    BY <2>1, <2>7, <2>11, <2>12
<1>9. ASSUME NEW x \in T PROVE \E i \in 1 .. C : \A j \in 1 .. C : x \in Range(ch[j]) <=> j = i
  <2>1. PICK p \in 1 .. n : x = s[p]
    BY <1>3 DEF Range
  <2>2. p \in Nat /\ 1 <= p /\ p <= n
    BY <1>3
  <2>3. PICK i \in Nat : i = CeilDiv(p, ReadChunk) /\ p <= i * ReadChunk /\ i * ReadChunk < p + ReadChunk
    BY <1>1, <2>2, CeilIs
  <2>4. (i - 1) * ReadChunk < p
    <3>1. PICK u \in Int, v \in Int : u = i * ReadChunk /\ v = (i - 1) * ReadChunk
      BY <1>1
    <3>2. v = u - ReadChunk
      BY <1>1, <3>1
    <3>3. u < p + ReadChunk
      BY <2>3, <3>1
    <3>4. v < p
      BY <1>1, <2>2, <3>2, <3>3
    <3> QED
      BY <3>1, <3>4
  <2>5. ASSUME NEW k \in Int, NEW l \in Int, k * ReadChunk < p, p <= l * ReadChunk PROVE k < l
    <3>1. PICK u \in Int, v \in Int : u = k * ReadChunk /\ v = l * ReadChunk
      BY <1>1
    <3>2. u < v
      BY <2>2, <2>5, <3>1
    <3> QED
      BY <1>1, <3>1, <3>2, Times
  <2>6. i \in 1 .. C
    <3>1. PICK u \in Int : u = C * ReadChunk
      BY <1>1
    <3>2. p <= u
      BY <1>3, <1>5, <2>2, <3>1
    <3>3. i - 1 < C
      BY <2>4, <2>5, <3>1, <3>2
    <3>4. 0 * ReadChunk < p
      BY <1>1, <2>2
    <3>5. 0 < i
      BY <2>3, <2>5, <3>4
    <3> QED
      BY <3>3, <3>5
  <2>7. x \in Range(ch[i])
    BY <1>8, <2>1, <2>3, <2>4, <2>6
  <2>8. ASSUME NEW j \in 1 .. C, x \in Range(ch[j]) PROVE j = i
    <3>1. (j - 1) * ReadChunk < p /\ p <= j * ReadChunk
      BY <1>8, <2>1, <2>8
    <3>2. j - 1 < i /\ i - 1 < j
      BY <2>3, <2>4, <2>5, <3>1
    <3> QED
      BY <3>2
  <2> QED
    BY <2>6, <2>7, <2>8
<1>10. DOMAIN ch = 1 .. C
  BY <1>7
<1>11. Shares(ch, C, T)
  BY <1>8, <1>9, <1>10 DEF Shares
<1> QED
  BY <1>2, <1>5, <1>6, <1>11

-----------------------------------------------------------------------------
(* Reads: the jobs *)

Waits == {w \in Int : 0 <= w + Horizon}
Jobs == [kind : {"health", "chunk", "sweep"}, targets : Seq(Items), wait : Waits, period : Nat \ {0}]

\* The jobs that poll an item.
PolledIn(js, i) == {k \in DOMAIN js : js[k].kind = "chunk" /\ i \in Range(js[k].targets)}

\* The jobs of a schedule that polls T: only the last may be a sweep, of period p.
Scheduled(js, T, swept, p) ==
    /\ js \in Seq(Jobs) /\ js # <<>> /\ js[1].wait = 0 /\ js[1].kind = "health"
    /\ \A k \in DOMAIN js : 0 <= js[k].wait
    /\ \A k \in DOMAIN js : js[k].kind = "sweep" => swept /\ k = Len(js)
    /\ \A k \in DOMAIN js : js[k].kind = "health" => js[k].targets = <<>>
    /\ swept => js[Len(js)].kind = "sweep" /\ js[Len(js)].period = p /\ js[Len(js)].wait = p
    /\ \A i \in T : \E k \in DOMAIN js : PolledIn(js, i) = {k}
    /\ \A i \in Items \ T : PolledIn(js, i) = {}

LEMMA PeriodIs == ASSUME NEW m \in Nat PROVE SweepPeriod(m) \in Nat \ {0}
<1>1. PICK c \in Nat : c = CeilDiv(m, ReadChunk)
  BY Parameters, CeilIs
<1>2. PICK d \in Nat \ {0} : d = Most(SweepSteps, c)
  BY Parameters DEF Most
<1>3. PICK q \in Nat : q = StaleAfter \div d
  BY Parameters, DivIs
<1> QED
  BY <1>1, <1>2, <1>3 DEF SweepPeriod, Most

LEMMA ScheduleIs ==
    ASSUME NEW T, T \subseteq Items, NEW m, m \subseteq Items
    PROVE  Scheduled(Schedule(T, m), T, m # {}, SweepPeriod(Cardinality(m)))
<1>1. PICK ch : ch = Chunks(T)
  OBVIOUS
<1>2. PICK C \in Nat : C = CeilDiv(Cardinality(T), ReadChunk) /\ Shares(ch, C, T)
  BY <1>1, ChunksIs
<1>36. /\ DOMAIN ch = 1 .. C /\ \A i \in 1 .. C : ch[i] \in Seq(T)
       /\ \A x \in T : \E i \in 1 .. C : \A j \in 1 .. C : x \in Range(ch[j]) <=> j = i
  BY <1>2 DEF Shares
<1>3. PICK p : p = SweepPeriod(Cardinality(m))
  OBVIOUS
<1>4. p \in Nat \ {0}
  BY <1>3, PeriodIs, Parameters, FS_Subset, FS_CardinalityType
<1>5. Len(ch) = C
  <2>1. ch \in Seq(Seq(T))
    <3>1. ch = [i \in 1 .. C |-> ch[i]]
      BY <1>1, <1>36 DEF Chunks
    <3> QED
      BY <1>36, <3>1
  <2> QED
    BY <1>36, <2>1
<1>6. PICK d \in Nat : d = Interval \div Most(1, Len(ch))
  <2>1. PICK e \in Nat \ {0} : e = Most(1, Len(ch))
    BY <1>2, <1>5 DEF Most
  <2> QED
    BY <2>1, Parameters, DivIs
<1>7. PICK a : a = <<Job("health", <<>>, 0, PollInterval)>>
  OBVIOUS
<1>8. PICK b : b = [i \in 1 .. C |-> Job("chunk", ch[i], (i - 1) * d, Interval)]
  OBVIOUS
<1>9. PICK c : c = IF m = {} THEN <<>> ELSE <<Job("sweep", <<>>, p, p)>>
  OBVIOUS
<1>10. PICK js : js = Schedule(T, m)
  OBVIOUS
<1>11. js = a \o b \o c
  BY <1>1, <1>3, <1>5, <1>6, <1>7, <1>8, <1>9, <1>10 DEF Schedule
<1>12. \A w \in Nat : w \in Waits
  BY Parameters DEF Waits
<1>13. Job("health", <<>>, 0, PollInterval) \in Jobs /\ Job("sweep", <<>>, p, p) \in Jobs
  BY <1>4, <1>12, Parameters DEF Job, Jobs
<1>14. \A i \in 1 .. C : (i - 1) * d \in Nat
  BY <1>6
<1>15. \A i \in 1 .. C : ch[i] \in Seq(Items)
  BY <1>36
<1>16. \A i \in 1 .. C : Job("chunk", ch[i], (i - 1) * d, Interval) \in Jobs
  BY <1>12, <1>14, <1>15, Parameters DEF Job, Jobs
<1>17. a \in Seq(Jobs) /\ Len(a) = 1 /\ a[1] = Job("health", <<>>, 0, PollInterval)
  BY <1>7, <1>13
<1>18. b \in Seq(Jobs) /\ Len(b) = C
  BY <1>8, <1>16
<1>19. PICK n \in 0 .. 1 : n = Len(c) /\ (n = 1 <=> m # {}) /\ c \in Seq(Jobs)
  BY <1>9, <1>13
<1>20. Joins(a \o b, Jobs, a, 1, b, C)
  BY <1>17, <1>18, Joined
<1>39. Joins(js, Jobs, a \o b, 1 + C, c, n)
  <2>1. a \o b \in Seq(Jobs) /\ Len(a \o b) = 1 + C
    BY <1>20 DEF Joins
  <2>2. Joins((a \o b) \o c, Jobs, a \o b, 1 + C, c, n)
    <3>1. PICK l \in Nat, k \in Nat : l = 1 + C /\ k = n
      OBVIOUS
    <3>2. PICK e : e = a \o b
      OBVIOUS
    <3>3. e \in Seq(Jobs) /\ Len(e) = l /\ c \in Seq(Jobs) /\ Len(c) = k
      BY <1>19, <2>1, <3>1, <3>2
    <3>4. Joins(e \o c, Jobs, e, l, c, k)
      BY <3>3, Joined
    <3> QED
      BY <3>1, <3>2, <3>4
  <2> QED
    BY <1>11, <2>2
<1> USE DEF Joins
<1>21. js[1] = Job("health", <<>>, 0, PollInterval)
  BY <1>17, <1>20, <1>39
<1>22. ASSUME NEW i \in 1 .. C
       PROVE  i + 1 \in 1 .. 1 + C + n /\ js[i + 1] = Job("chunk", ch[i], (i - 1) * d, Interval)
  <2>1. 1 + i \in 1 .. 1 + C /\ 1 + i = i + 1 /\ i + 1 \in 1 .. 1 + C + n
    OBVIOUS
  <2>2. js[i + 1] = b[i]
    BY <1>20, <1>39, <2>1
  <2> QED
    BY <1>8, <2>1, <2>2
<1>23. m # {} => 2 + C \in 1 .. 1 + C + n /\ js[2 + C] = Job("sweep", <<>>, p, p) /\ Len(js) = 2 + C
  <2> SUFFICES ASSUME m # {} PROVE 2 + C \in 1 .. 1 + C + n /\ js[2 + C] = Job("sweep", <<>>, p, p) /\ Len(js) = 2 + C
    OBVIOUS
  <2>1. n = 1 /\ c[1] = Job("sweep", <<>>, p, p)
    BY <1>9, <1>19
  <2>2. 1 + C + 1 = 2 + C /\ 1 \in 1 .. n
    BY <2>1
  <2> QED
    BY <1>39, <2>1, <2>2
<1>24. ASSUME NEW k \in 1 .. 1 + C + n
       PROVE  \/ k = 1
              \/ \E i \in 1 .. C : k = i + 1 /\ js[k] = Job("chunk", ch[i], (i - 1) * d, Interval)
              \/ k = 2 + C /\ m # {}
  <2>1. CASE k # 1 /\ k <= 1 + C
    <3>1. k - 1 \in 1 .. C /\ k = (k - 1) + 1
      BY <2>1
    <3>2. PICK i \in 1 .. C : k = i + 1
      BY <3>1
    <3> QED
      BY <1>22, <3>2
  <2>2. CASE k > 1 + C
    BY <1>19, <2>2
  <2> QED
    BY <2>1, <2>2
<1> HIDE DEF Joins
<1>25. DOMAIN js = 1 .. 1 + C + n
  BY <1>39 DEF Joins
<1>26. \A k \in DOMAIN js : 0 <= js[k].wait
  <2> SUFFICES ASSUME NEW k \in 1 .. 1 + C + n PROVE 0 <= js[k].wait
    BY <1>25
  <2>1. CASE k = 1
    BY <1>21, <2>1 DEF Job
  <2>2. CASE \E i \in 1 .. C : k = i + 1 /\ js[k] = Job("chunk", ch[i], (i - 1) * d, Interval)
    <3>1. PICK i \in 1 .. C : js[k] = Job("chunk", ch[i], (i - 1) * d, Interval)
      BY <2>2
    <3>2. js[k].wait = (i - 1) * d
      BY <3>1 DEF Job
    <3>3. (i - 1) * d \in Nat
      BY <1>14
    <3>4. PICK w \in Nat : w = (i - 1) * d
      BY <3>3
    <3> QED
      BY <3>2, <3>4
  <2>3. CASE k = 2 + C /\ m # {}
    BY <1>4, <1>23, <2>3 DEF Job
  <2> QED
    BY <1>24, <2>1, <2>2, <2>3
<1>27. \A k \in DOMAIN js : js[k].kind = "sweep" => m # {} /\ k = Len(js)
  <2> SUFFICES ASSUME NEW k \in 1 .. 1 + C + n, js[k].kind = "sweep" PROVE m # {} /\ k = Len(js)
    BY <1>25
  <2>1. k # 1
    BY <1>21 DEF Job
  <2>2. ~\E i \in 1 .. C : k = i + 1 /\ js[k] = Job("chunk", ch[i], (i - 1) * d, Interval)
    <3> SUFFICES ASSUME NEW i \in 1 .. C, js[k] = Job("chunk", ch[i], (i - 1) * d, Interval) PROVE FALSE
      OBVIOUS
    <3>1. js[k].kind = "chunk"
      BY DEF Job
    <3> QED
      BY <3>1
  <2> QED
    BY <1>23, <1>24, <2>1, <2>2
<1>28. \A k \in DOMAIN js : js[k].kind = "health" => js[k].targets = <<>>
  <2> SUFFICES ASSUME NEW k \in 1 .. 1 + C + n, js[k].kind = "health" PROVE js[k].targets = <<>>
    BY <1>25
  <2>1. ~\E i \in 1 .. C : k = i + 1 /\ js[k] = Job("chunk", ch[i], (i - 1) * d, Interval)
    <3> SUFFICES ASSUME NEW i \in 1 .. C, js[k] = Job("chunk", ch[i], (i - 1) * d, Interval) PROVE FALSE
      OBVIOUS
    <3>1. js[k].kind = "chunk"
      BY DEF Job
    <3> QED
      BY <3>1
  <2>2. k = 1 \/ (k = 2 + C /\ m # {})
    BY <1>24, <2>1
  <2> QED
    BY <1>21, <1>23, <2>2 DEF Job
<1>29. ASSUME NEW x \in Items, NEW k \in PolledIn(js, x)
       PROVE  \E i \in 1 .. C : k = i + 1 /\ x \in Range(ch[i])
  <2>1. k \in 1 .. 1 + C + n /\ js[k].kind = "chunk" /\ x \in Range(js[k].targets)
    BY <1>25, <1>29 DEF PolledIn
  <2>2. k # 1 /\ ~(k = 2 + C /\ m # {})
    BY <1>21, <1>23, <2>1 DEF Job
  <2>3. PICK i \in 1 .. C : k = i + 1 /\ js[k] = Job("chunk", ch[i], (i - 1) * d, Interval)
    BY <1>24, <2>1, <2>2
  <2> QED
    BY <2>1, <2>3 DEF Job
<1>30. ASSUME NEW i \in 1 .. C, NEW x, x \in Range(ch[i]) PROVE i + 1 \in PolledIn(js, x)
  <2>1. PICK k \in 1 .. 1 + C + n : k = i + 1 /\ js[k] = Job("chunk", ch[i], (i - 1) * d, Interval)
    BY <1>22
  <2>2. js[k].kind = "chunk" /\ js[k].targets = ch[i]
    BY <2>1 DEF Job
  <2> QED
    BY <1>25, <1>30, <2>1, <2>2 DEF PolledIn
<1>31. ASSUME NEW x \in T PROVE \E k \in DOMAIN js : PolledIn(js, x) = {k}
  <2>1. PICK i \in 1 .. C : \A j \in 1 .. C : x \in Range(ch[j]) <=> j = i
    BY <1>36
  <2>2. i + 1 \in PolledIn(js, x)
    BY <1>30, <2>1
  <2>3. \A k \in PolledIn(js, x) : k = i + 1
    BY <1>29, <2>1
  <2> QED
    BY <2>2, <2>3 DEF PolledIn
<1>32. ASSUME NEW x \in Items \ T PROVE PolledIn(js, x) = {}
  <2>1. \A i \in 1 .. C : x \notin Range(ch[i])
    BY <1>36 DEF Range
  <2> QED
    BY <1>29, <2>1
<1>33. m # {} => js[Len(js)].kind = "sweep" /\ js[Len(js)].period = p /\ js[Len(js)].wait = p
  BY <1>23 DEF Job
<1>34. js[1].wait = 0 /\ js[1].kind = "health"
  BY <1>21 DEF Job
<1>35. js # <<>>
  BY <1>39 DEF Joins
<1>38. PICK swept \in BOOLEAN : swept = (m # {})
  OBVIOUS
<1>40. js \in Seq(Jobs)
  BY <1>39 DEF Joins
<1>37. Scheduled(js, T, swept, p)
  BY <1>39, <1>40, <1>26, <1>27, <1>28, <1>31, <1>32, <1>33, <1>34, <1>35, <1>38 DEF Scheduled
<1> QED
  BY <1>3, <1>10, <1>37, <1>38

-----------------------------------------------------------------------------
(* Reads: every item is sampled in one way *)

ReadsTypes ==
    /\ monitored \in {Subscribed, {}} /\ stale \in Seq(Items) /\ age \in [Items -> Nat]
    /\ jobs \in Seq(Jobs) /\ jobs # <<>> /\ job \in Jobs /\ listed \in 0 .. Len(jobs)
    /\ wanted \in Seq(Items) /\ reading \in BOOLEAN /\ spent \in 0 .. Longest
    /\ dropped \subseteq Items /\ failedReads \in Nat

\* The items are shared out to _stale, to one chunk each, or were given up.
Shared(js, dr) ==
    /\ \A i \in monitored \cup dr : PolledIn(js, i) = {}
    /\ \A i \in Items \ (monitored \cup dr) : \E k \in DOMAIN js : PolledIn(js, i) = {k}

OneWay ==
    /\ Range(stale) = monitored /\ Distinct(stale)
    /\ Shared(jobs, dropped) /\ monitored \cap dropped = {}

\* The sweep is the last job, while there is one.
Sweep == jobs[Len(jobs)]
Shape(js, swept) ==
    /\ \A k \in DOMAIN js : js[k].kind = "sweep" => swept /\ k = Len(js)
    /\ \A k \in DOMAIN js : js[k].kind = "health" => js[k].targets = <<>>
    /\ swept => js[Len(js)].kind = "sweep" /\ js[Len(js)].period = SweepPeriod(Cardinality(Subscribed))

\* What the loop reads is what the job it runs names.
Running ==
    /\ listed # 0 => job = jobs[listed]
    /\ listed # 0 /\ reading /\ job.kind # "sweep" => wanted = job.targets
    /\ ~reading => wanted = <<>> /\ spent = 0
    /\ monitored # {} => listed # 0
    /\ monitored # {} /\ reading /\ job.kind = "sweep" => Distinct(wanted) /\ Len(wanted) <= ReadChunk

\* _stale is in the order of the updates.
InOrder == \A i, j \in DOMAIN stale : i <= j => age[stale[j]] <= age[stale[i]]

Ways == ReadsTypes /\ OneWay /\ InOrder /\ Shape(jobs, monitored # {}) /\ Running

\* The same jobs, due at other times.
SameJobs(js, ks) ==
    /\ ks \in Seq(Jobs) /\ Len(ks) = Len(js) /\ DOMAIN ks = DOMAIN js
    /\ \A k \in DOMAIN js : ks[k].kind = js[k].kind /\ ks[k].targets = js[k].targets /\ ks[k].period = js[k].period

LEMMA SameWays ==
    ASSUME ReadsTypes, NEW ks, SameJobs(jobs, ks)
    PROVE  /\ \A i : PolledIn(ks, i) = PolledIn(jobs, i)
           /\ Shared(jobs, dropped) => Shared(ks, dropped)
           /\ \A swept \in BOOLEAN : Shape(jobs, swept) => Shape(ks, swept)
<1>1. \A i : PolledIn(ks, i) = PolledIn(jobs, i)
  BY DEF SameJobs, PolledIn
<1>2. Shared(jobs, dropped) => Shared(ks, dropped)
  BY <1>1 DEF Shared, SameJobs
<1>3. Len(jobs) \in DOMAIN jobs
  BY DEF ReadsTypes
<1>4. ASSUME NEW swept \in BOOLEAN, Shape(jobs, swept) PROVE Shape(ks, swept)
  BY <1>3, <1>4 DEF Shape, SameJobs
<1> QED
  BY <1>1, <1>2, <1>4

\* The next job the loop waits for is one of the jobs, and none is due before it.
LEMMA TurnIs ==
    ASSUME NEW js \in Seq(Jobs), js # <<>>, Turn(js)
    PROVE  /\ jobs' = js /\ listed' \in DOMAIN js /\ listed' # 0 /\ listed' \in 0 .. Len(js)
           /\ job' = js[listed'] /\ job' \in Jobs
           /\ \A k \in DOMAIN js : job'.wait <= js[k].wait
<1>1. PICK n \in Nat : n = Len(js) /\ DOMAIN js = 1 .. n /\ n # 0
  OBVIOUS
<1>2. \A i \in 1 .. n : js[i] \in Jobs
  BY <1>1
<1>3. \A i \in 1 .. n : js[i].wait \in Int /\ 0 <= js[i].wait + Horizon
  BY <1>2 DEF Jobs, Waits
<1>4. PICK e : e = Earliest(js)
  OBVIOUS
<1>5. e \in DOMAIN js /\ \A i \in DOMAIN js : js[e].wait <= js[i].wait
  BY <1>1, <1>3, <1>4, EarliestIs, Parameters
<1>6. jobs' = js /\ listed' = e /\ job' = js[e]
  BY <1>4 DEF Turn
<1> QED
  BY <1>1, <1>2, <1>5, <1>6

\* A touch moves its items to the end of _stale, and the order of the ages stays.
LEMMA TouchedKeeps ==
    ASSUME stale \in Seq(Items), age \in [Items -> Nat], Distinct(stale),
           NEW hs \in Seq(Items), Distinct(hs), Range(hs) \subseteq Range(stale), Touched(hs)
    PROVE  /\ stale' \in Seq(Items) /\ Distinct(stale') /\ Range(stale') = Range(stale)
           /\ age' \in [Items -> Nat]
           /\ \A i \in Items : age'[i] = IF i \in Range(hs) THEN 0 ELSE age[i]
           /\ (\A i, j \in DOMAIN stale : i <= j => age[stale[j]] <= age[stale[i]])
              => \A i, j \in DOMAIN stale' : i <= j => age'[stale'[j]] <= age'[stale'[i]]
<1>1. PICK k : k = Kept(stale, Items \ Range(hs))
  OBVIOUS
<1>2. k \in Seq(Items) /\ Range(k) = Range(stale) \cap (Items \ Range(hs)) /\ Distinct(k)
  BY <1>1, KeptIs
<1>3. PICK n \in Nat, m \in Nat : n = Len(k) /\ m = Len(hs)
  BY <1>2
<1>4. stale' = k \o hs
  BY <1>1 DEF Touched
<1>5. Joins(stale', Items, k, n, hs, m)
  BY <1>2, <1>3, <1>4, Joined
<1>6. DOMAIN k = 1 .. n /\ DOMAIN hs = 1 .. m /\ stale' \in Seq(Items) /\ DOMAIN stale' = 1 .. n + m
      /\ (\A i \in 1 .. n : stale'[i] = k[i]) /\ \A i \in 1 .. m : stale'[n + i] = hs[i]
  BY <1>2, <1>3, <1>5 DEF Joins
<1>7. ASSUME NEW i \in DOMAIN stale'
      PROVE  i \in 1 .. n \/ \E j \in 1 .. m : i = n + j /\ stale'[i] = hs[j]
  <2>1. CASE ~(i <= n)
    <3>1. i - n \in 1 .. m /\ i = n + (i - n)
      BY <1>6, <2>1, SMTT(20)
    <3> QED
      BY <1>6, <3>1
  <2> QED
    BY <1>6, <2>1
<1>8. (\A i \in 1 .. n : k[i] \in Range(k)) /\ \A i \in 1 .. m : hs[i] \in Range(hs)
  BY <1>6 DEF Range
<1>9. Range(hs) \subseteq Items /\ Range(stale) \subseteq Items
  BY DEF Range
<1>10. \A x \in Range(k) : x \in Range(stale) /\ x \notin Range(hs)
  BY <1>2
<1>11. Distinct(stale')
  <2> SUFFICES ASSUME NEW i \in DOMAIN stale', NEW j \in DOMAIN stale', stale'[i] = stale'[j] PROVE i = j
    BY DEF Distinct
  <2>1. CASE i \in 1 .. n /\ j \in 1 .. n
    BY <1>2, <1>6, <2>1 DEF Distinct
  <2>2. CASE i \in 1 .. n /\ j \notin 1 .. n
    BY <1>6, <1>7, <1>8, <1>10, <2>2
  <2>3. CASE i \notin 1 .. n /\ j \in 1 .. n
    BY <1>6, <1>7, <1>8, <1>10, <2>3
  <2>4. CASE i \notin 1 .. n /\ j \notin 1 .. n
    <3>1. PICK a \in 1 .. m, b \in 1 .. m : i = n + a /\ j = n + b /\ hs[a] = hs[b]
      BY <1>7, <2>4
    <3>2. a = b
      BY <1>6, <3>1 DEF Distinct
    <3> QED
      BY <3>1, <3>2
  <2> QED
    BY <2>1, <2>2, <2>3, <2>4
<1>12. Range(stale') = Range(stale)
  <2>1. ASSUME NEW i \in DOMAIN stale' PROVE stale'[i] \in Range(stale)
    BY <1>6, <1>7, <1>8, <1>10
  <2>2. ASSUME NEW x \in Range(stale) PROVE \E i \in DOMAIN stale' : stale'[i] = x
    <3>1. CASE x \in Range(hs)
      <4>1. PICK j \in 1 .. m : hs[j] = x
        BY <1>6, <3>1 DEF Range
      <4>2. n + j \in DOMAIN stale'
        BY <1>6
      <4> QED
        BY <1>6, <4>1, <4>2
    <3>2. CASE x \notin Range(hs)
      <4>3. x \in Range(k)
        BY <1>2, <1>9, <3>2
      <4>1. PICK i \in 1 .. n : k[i] = x
        BY <1>6, <4>3 DEF Range
      <4>2. i \in DOMAIN stale'
        BY <1>6
      <4> QED
        BY <1>6, <4>1, <4>2
    <3> QED
      BY <3>1, <3>2
  <2> QED
    BY <2>1, <2>2 DEF Range
<1>13. age' = [i \in Items |-> IF i \in Range(hs) THEN 0 ELSE age[i]]
  BY DEF Touched
<1>14. age' \in [Items -> Nat] /\ \A i \in Items : age'[i] = IF i \in Range(hs) THEN 0 ELSE age[i]
  BY <1>13
<1>15. ASSUME \A i, j \in DOMAIN stale : i <= j => age[stale[j]] <= age[stale[i]],
              NEW i \in DOMAIN stale', NEW j \in DOMAIN stale', i <= j
       PROVE  age'[stale'[j]] <= age'[stale'[i]]
  <2>1. CASE j \in 1 .. n
    <3>1. i \in 1 .. n
      BY <1>6, <1>15, <2>1
    <3>2. age[k[j]] <= age[k[i]]
      BY <1>1, <1>6, <1>15, <2>1, <3>1, KeptInOrder
    <3>3. k[i] \in Items /\ k[j] \in Items /\ k[i] \notin Range(hs) /\ k[j] \notin Range(hs)
      BY <1>2, <1>6, <1>8, <1>10, <2>1, <3>1
    <3> QED
      BY <1>6, <1>14, <2>1, <3>1, <3>2, <3>3
  <2>2. CASE j \notin 1 .. n
    <3>1. PICK b \in 1 .. m : stale'[j] = hs[b]
      BY <1>7, <2>2
    <3>2. age'[stale'[j]] = 0
      BY <1>8, <1>9, <1>14, <3>1
    <3>3. age'[stale'[i]] \in Nat
      BY <1>6, <1>14, SMTT(20)
    <3> QED
      BY <3>2, <3>3
  <2> QED
    BY <2>1, <2>2
<1> QED
  BY <1>6, <1>11, <1>12, <1>14, <1>15

LEMMA AgainIs == ASSUME NEW j \in Jobs PROVE Again(j) \in Jobs /\ 0 <= Again(j).wait
<1>1. j.wait \in Int /\ j.period \in Nat \ {0}
  BY DEF Jobs, Waits
<1>2. PICK w \in Nat : w = Most(j.wait + j.period, 0)
  BY <1>1 DEF Most
<1>3. Again(j) = [j EXCEPT !.wait = w]
  BY <1>2 DEF Again
<1>4. w \in Waits
  BY Parameters DEF Waits
<1> QED
  BY <1>3, <1>4 DEF Jobs

LEMMA SoonerIs ==
    ASSUME NEW j \in Jobs
    PROVE  /\ Sooner(j) \in Jobs /\ Sooner(j).wait = Most(j.wait - 1, -Horizon)
           /\ Sooner(j).kind = j.kind /\ Sooner(j).targets = j.targets /\ Sooner(j).period = j.period
<1>1. j.wait \in Int
  BY DEF Jobs, Waits
<1>2. PICK w \in Int : w = Most(j.wait - 1, -Horizon)
  BY <1>1, Parameters DEF Most
<1>3. Sooner(j) = [j EXCEPT !.wait = w]
  BY <1>2 DEF Sooner
<1>4. w \in Waits
  BY <1>1, <1>2, Parameters DEF Waits, Most
<1> QED
  BY <1>2, <1>3, <1>4 DEF Jobs

LEMMA RescheduledIs ==
    ASSUME ReadsTypes
    PROVE  /\ SameJobs(jobs, Rescheduled)
           /\ \A k \in DOMAIN jobs : Rescheduled[k] = IF k = listed THEN Again(jobs[k]) ELSE jobs[k]
<1>1. PICK ks : ks = Rescheduled
  OBVIOUS
<1>2. ks = [k \in DOMAIN jobs |-> IF k = listed THEN Again(jobs[k]) ELSE jobs[k]]
  BY <1>1 DEF Rescheduled
<1>3. PICK n \in Nat : n = Len(jobs) /\ DOMAIN jobs = 1 .. n /\ jobs \in Seq(Jobs)
  BY DEF ReadsTypes
<1>4. \A k \in 1 .. n : jobs[k] \in Jobs
  BY <1>3
<1>5. \A k \in 1 .. n : ks[k] \in Jobs
  BY <1>2, <1>3, <1>4, AgainIs
<1>6. ks \in Seq(Jobs) /\ Len(ks) = n /\ DOMAIN ks = 1 .. n
  BY <1>2, <1>3, <1>5
<1>7. \A k \in 1 .. n : Again(jobs[k]).kind = jobs[k].kind /\ Again(jobs[k]).targets = jobs[k].targets
                         /\ Again(jobs[k]).period = jobs[k].period
  BY <1>4 DEF Again, Jobs
<1>8. SameJobs(jobs, ks)
  BY <1>2, <1>3, <1>6, <1>7 DEF SameJobs
<1> QED
  BY <1>1, <1>2, <1>8

\* The items of a sweep are different ones, of _stale.
LEMMA SweptIs ==
    ASSUME ReadsTypes, OneWay, InOrder
    PROVE  SilentFront \in Seq(Items) /\ Distinct(SilentFront) /\ Len(SilentFront) <= ReadChunk
<1>1. PICK n \in 0 .. Len(stale) :
             /\ SilentFront \in Seq(Items) /\ Len(SilentFront) = n /\ n <= ReadChunk
             /\ \A i \in 1 .. n : SilentFront[i] = stale[i]
  BY FrontIs DEF ReadsTypes, InOrder
<1>2. Distinct(stale) /\ stale \in Seq(Items)
  BY DEF ReadsTypes, OneWay
<1>3. PICK s : s = SilentFront
  OBVIOUS
<1>4. s \in Seq(Items) /\ Len(s) = n /\ \A i \in 1 .. n : s[i] = stale[i]
  BY <1>1, <1>3
<1>5. DOMAIN s = 1 .. n /\ 1 .. n \subseteq DOMAIN stale
  BY <1>2, <1>4
<1>6. Distinct(s)
  BY <1>2, <1>4, <1>5 DEF Distinct
<1> QED
  BY <1>1, <1>3, <1>6

\* An item the chunk under way polls is not monitored.
LEMMA ChunkApart ==
    ASSUME Ways, reading, job.kind = "chunk"
    PROVE  Range(wanted) \cap monitored = {}
<1> SUFFICES ASSUME NEW i \in Range(wanted), i \in monitored PROVE FALSE
  OBVIOUS
<1>1. listed # 0 /\ job = jobs[listed] /\ wanted = job.targets
  BY DEF Ways, Running
<1>2. listed \in DOMAIN jobs
  BY <1>1 DEF Ways, ReadsTypes
<1>3. listed \in PolledIn(jobs, i)
  BY <1>1, <1>2 DEF PolledIn
<1> QED
  BY <1>3 DEF Ways, OneWay, Shared

LEMMA WaysStart == ReadsInit => Ways
<1> SUFFICES ASSUME ReadsInit PROVE Ways
  OBVIOUS
<1>1. Subscribed \subseteq Nat /\ IsFiniteSet(Subscribed) /\ Subscribed \subseteq Items
  BY Parameters, FS_Subset
<1>2. PICK n, s : n = Cardinality(Subscribed) /\ s = Sorted(Subscribed)
  OBVIOUS
<1>3. n \in Nat /\ s \in [1 .. n -> Subscribed] /\ Increasing(s) /\ Range(s) = Subscribed
  BY <1>1, <1>2, SortedIs
<1>4. s \in Seq(Items) /\ DOMAIN s = 1 .. n
  <2>1. s \in [1 .. n -> Items]
    BY <1>1, <1>3
  <2> QED
    BY <1>3, <2>1
<1>5. Distinct(s)
  <2> SUFFICES ASSUME NEW i \in 1 .. n, NEW j \in 1 .. n, s[i] = s[j], i # j PROVE FALSE
    BY <1>4 DEF Distinct
  <2>1. s[i] \in Nat /\ s[j] \in Nat
    BY <1>1, <1>3
  <2> QED
    BY <1>3, <2>1 DEF Increasing
<1>6. stale = s /\ monitored = Subscribed /\ age = [i \in Items |-> 0] /\ dropped = {}
      /\ listed = 1 /\ job = jobs[1] /\ wanted = <<>> /\ reading = FALSE /\ spent = 0 /\ failedReads = 0
  BY <1>2 DEF ReadsInit
<1>7. PICK swept \in BOOLEAN : swept = (Subscribed # {})
  OBVIOUS
<1>8. Scheduled(jobs, Items \ Subscribed, swept, SweepPeriod(Cardinality(Subscribed)))
  BY <1>1, <1>7, ScheduleIs DEF ReadsInit
<1>9. 1 \in DOMAIN jobs /\ jobs \in Seq(Jobs) /\ jobs # <<>>
  BY <1>8 DEF Scheduled
<1>10. ReadsTypes
  <2>1. job \in Jobs /\ listed \in 0 .. Len(jobs)
    BY <1>6, <1>9
  <2>2. age \in [Items -> Nat] /\ spent \in 0 .. Longest /\ stale \in Seq(Items) /\ wanted \in Seq(Items)
    BY <1>4, <1>6, Parameters
  <2> QED
    BY <1>6, <1>9, <2>1, <2>2 DEF ReadsTypes
<1>11. Shared(jobs, dropped)
  <2>1. Subscribed \cup {} = Items \ (Items \ Subscribed) /\ Items \ (Subscribed \cup {}) = Items \ Subscribed
    BY <1>1
  <2> QED
    BY <1>6, <1>8, <2>1 DEF Shared, Scheduled
<1>12. OneWay
  BY <1>3, <1>5, <1>6, <1>11 DEF OneWay
<1>13. InOrder
  <2>2. DOMAIN stale = 1 .. n /\ \A i \in 1 .. n : stale[i] \in Items
    BY <1>1, <1>3, <1>4, <1>6
  <2>1. \A i \in DOMAIN stale : age[stale[i]] = 0
    BY <1>6, <2>2
  <2> QED
    BY <2>1 DEF InOrder
<1>14. Shape(jobs, monitored # {})
  <2>1. Shape(jobs, swept)
    BY <1>8 DEF Shape, Scheduled
  <2> QED
    BY <1>6, <1>7, <2>1
<1>15. Running
  BY <1>6 DEF Running
<1> QED
  BY <1>10, <1>12, <1>13, <1>14, <1>15 DEF Ways

LEMMA RunJobWays == ASSUME Ways, RunJob PROVE Ways'
<1> USE DEF Ways
<1>1. PICK targets : targets = CASE job.kind = "sweep" -> SilentFront [] OTHER -> job.targets
  OBVIOUS
<1>2. /\ ~reading /\ UNCHANGED <<monitored, stale, age, dropped, failedReads>>
      /\ \/ Turn(Rescheduled) /\ UNCHANGED <<wanted, reading, spent>>
         \/ /\ jobs' = Rescheduled /\ job' = Again(job) /\ listed' = listed
            /\ wanted' = targets /\ reading' = TRUE /\ spent' = 0
  BY <1>1 DEF RunJob, request
<1>3. targets \in Seq(Items)
  <2>1. job.targets \in Seq(Items)
    BY DEF ReadsTypes, Jobs
  <2> QED
    BY <1>1, <2>1, SweptIs
<1>4. job.kind = "sweep" => Distinct(targets) /\ Len(targets) <= ReadChunk
  BY <1>1, SweptIs
<1>5. job.kind # "sweep" => targets = job.targets
  BY <1>1
<1>6. PICK ks : ks = Rescheduled
  OBVIOUS
<1>7. SameJobs(jobs, ks) /\ \A k \in DOMAIN jobs : ks[k] = IF k = listed THEN Again(jobs[k]) ELSE jobs[k]
  BY <1>6, RescheduledIs
<1>8. ks \in Seq(Jobs) /\ ks # <<>> /\ Len(ks) = Len(jobs)
  BY <1>7 DEF SameJobs, ReadsTypes
<1>9. PICK swept \in BOOLEAN : swept = (monitored # {})
  OBVIOUS
<1>10. Shared(ks, dropped) /\ Shape(ks, swept)
  BY <1>7, <1>9, SameWays DEF OneWay
<1>11. jobs' = ks
  BY <1>2, <1>6 DEF Turn
<1>12. OneWay' /\ InOrder' /\ Shape(jobs, monitored # {})'
  <2>1. Shared(jobs, dropped)'
    BY <1>2, <1>10, <1>11 DEF Shared
  <2>2. Shape(jobs, monitored # {})'
    BY <1>2, <1>9, <1>10, <1>11 DEF Shape
  <2> QED
    BY <1>2, <2>1, <2>2 DEF OneWay, InOrder
<1>13. CASE Turn(Rescheduled) /\ UNCHANGED <<wanted, reading, spent>>
  <2>1. /\ jobs' = ks /\ listed' \in DOMAIN ks /\ listed' # 0 /\ listed' \in 0 .. Len(ks)
        /\ job' = ks[listed'] /\ job' \in Jobs
    BY <1>6, <1>8, <1>13, TurnIs
  <2>2. ReadsTypes'
    BY <1>2, <1>8, <1>13, <2>1 DEF ReadsTypes
  <2>3. Running'
    BY <1>2, <1>13, <2>1 DEF Running
  <2> QED
    BY <1>12, <2>2, <2>3
<1>14. CASE /\ jobs' = Rescheduled /\ job' = Again(job) /\ listed' = listed
            /\ wanted' = targets /\ reading' = TRUE /\ spent' = 0
  <2>1. job \in Jobs /\ job' \in Jobs /\ job'.kind = job.kind /\ job'.targets = job.targets
    BY <1>14, AgainIs DEF ReadsTypes, Again, Jobs
  <2>2. ReadsTypes'
    BY <1>2, <1>3, <1>8, <1>11, <1>14, <2>1, Parameters DEF ReadsTypes
  <2>3. listed # 0 => job' = jobs'[listed]
    BY <1>7, <1>11, <1>14 DEF Running, ReadsTypes
  <2>4. Running'
    BY <1>2, <1>4, <1>5, <1>14, <2>1, <2>3 DEF Running
  <2> QED
    BY <1>12, <2>2, <2>4
<1> QED
  BY <1>2, <1>13, <1>14

LEMMA Ended ==
    ASSUME Ways, NEW js \in Seq(Jobs), js # <<>>, Turn(js), Finished
    PROVE  /\ jobs' = js /\ job' \in Jobs /\ listed' \in 0 .. Len(js) /\ wanted' \in Seq(Items)
           /\ reading' \in BOOLEAN /\ spent' \in 0 .. Longest /\ Running'
<1>1. /\ jobs' = js /\ listed' \in DOMAIN js /\ listed' # 0 /\ listed' \in 0 .. Len(js)
      /\ job' = js[listed'] /\ job' \in Jobs
  BY TurnIs
<1>2. wanted' = <<>> /\ reading' = FALSE /\ spent' = 0
  BY DEF Finished
<1>3. Running'
  BY <1>1, <1>2 DEF Running
<1>4. wanted' \in Seq(Items)
  BY <1>2
<1>5. spent' \in 0 .. Longest
  BY <1>2, Parameters
<1>6. reading' \in BOOLEAN
  BY <1>2
<1> QED
  BY <1>1, <1>3, <1>4, <1>5, <1>6

\* A request that ended and touched nothing.
LEMMA NothingTouched ==
    ASSUME Ways, Turn(jobs), Finished, UNCHANGED <<monitored, stale, age, dropped>>, failedReads' \in Nat
    PROVE  Ways'
<1>1. jobs \in Seq(Jobs) /\ jobs # <<>>
  BY DEF Ways, ReadsTypes
<1>2. /\ jobs' = jobs /\ job' \in Jobs /\ listed' \in 0 .. Len(jobs) /\ wanted' \in Seq(Items)
      /\ reading' \in BOOLEAN /\ spent' \in 0 .. Longest /\ Running'
  BY <1>1, Ended
<1>3. ReadsTypes'
  BY <1>1, <1>2 DEF Ways, ReadsTypes
<1>4. OneWay' /\ InOrder' /\ Shape(jobs, monitored # {})'
  BY <1>2 DEF Ways, OneWay, InOrder, Shape, Shared, PolledIn
<1> QED
  BY <1>2, <1>3, <1>4 DEF Ways

LEMMA HealthReadWays == ASSUME Ways, HealthRead PROVE Ways'
  BY NothingTouched DEF HealthRead, Ways, ReadsTypes

LEMMA ReadFailsWays == ASSUME Ways, ReadFails PROVE Ways'
  BY NothingTouched, SMTT(20) DEF ReadFails, ReadFault, Ways, ReadsTypes

LEMMA SweepReadWays == ASSUME Ways, SweepRead PROVE Ways'
<1>1. Touched(StillStale) /\ Turn(jobs) /\ Finished /\ UNCHANGED <<monitored, dropped, failedReads>>
      /\ reading /\ job.kind = "sweep"
  BY DEF SweepRead
<1>2. jobs \in Seq(Jobs) /\ jobs # <<>> /\ wanted \in Seq(Items) /\ stale \in Seq(Items) /\ age \in [Items -> Nat]
      /\ Distinct(stale) /\ Range(stale) = monitored
  BY DEF Ways, ReadsTypes, OneWay
<1>3. PICK hs : hs = StillStale
  OBVIOUS
<1>4. hs \in Seq(Items) /\ Range(hs) = Range(wanted) \cap Range(stale) /\ (Distinct(wanted) => Distinct(hs))
  BY <1>2, <1>3, KeptIs DEF StillStale
<1>5. Distinct(hs)
  <2>1. CASE monitored = {}
    <3>1. Range(hs) = {}
      BY <1>2, <1>4, <2>1
    <3>2. DOMAIN hs = {}
      BY <3>1 DEF Range
    <3> QED
      BY <3>2 DEF Distinct
  <2>2. CASE monitored # {}
    BY <1>1, <1>4, <2>2 DEF Ways, Running
  <2> QED
    BY <2>1, <2>2
<1>6. /\ stale' \in Seq(Items) /\ Distinct(stale') /\ Range(stale') = Range(stale)
      /\ age' \in [Items -> Nat]
      /\ (\A i, j \in DOMAIN stale : i <= j => age[stale[j]] <= age[stale[i]])
         => \A i, j \in DOMAIN stale' : i <= j => age'[stale'[j]] <= age'[stale'[i]]
  BY <1>1, <1>2, <1>3, <1>4, <1>5, TouchedKeeps
<1>7. /\ jobs' = jobs /\ job' \in Jobs /\ listed' \in 0 .. Len(jobs) /\ wanted' \in Seq(Items)
      /\ reading' \in BOOLEAN /\ spent' \in 0 .. Longest /\ Running'
  BY <1>1, <1>2, Ended
<1>8. ReadsTypes'
  BY <1>1, <1>2, <1>6, <1>7 DEF Ways, ReadsTypes
<1>9. InOrder'
  BY <1>6 DEF Ways, InOrder
<1>11. Shared(jobs, dropped)'
  BY <1>1, <1>7 DEF Ways, OneWay, Shared
<1>12. Shape(jobs, monitored # {})'
  BY <1>1, <1>7 DEF Ways, Shape
<1>10. OneWay' /\ Shape(jobs, monitored # {})'
  <2>1. monitored' \cap dropped' = {}
    BY <1>1 DEF Ways, OneWay
  <2>2. Range(stale') = monitored' /\ Distinct(stale')
    BY <1>1, <1>2, <1>6
  <2>3. OneWay'
    BY <1>11, <2>1, <2>2 DEF OneWay
  <2> QED
    BY <1>12, <2>3
<1> QED
  BY <1>7, <1>8, <1>9, <1>10 DEF Ways

LEMMA DeliverWays == ASSUME Ways, Deliver PROVE Ways'
<1>1. PICK h \in monitored : Touched(<<h>>)
  BY DEF Deliver
<1>2. UNCHANGED <<monitored, jobs, job, listed, wanted, reading, spent, dropped, failedReads>>
  BY DEF Deliver, schedule, request
<1>3. stale \in Seq(Items) /\ age \in [Items -> Nat] /\ Distinct(stale) /\ Range(stale) = monitored
      /\ monitored \subseteq Items
  BY Parameters DEF Ways, ReadsTypes, OneWay
<1>4. PICK hs : hs = <<h>>
  OBVIOUS
<1>5. hs \in Seq(Items) /\ DOMAIN hs = {1} /\ hs[1] = h
  BY <1>3, <1>4
<1>6. Distinct(hs) /\ Range(hs) \subseteq Range(stale)
  BY <1>3, <1>5 DEF Distinct, Range
<1>7. /\ stale' \in Seq(Items) /\ Distinct(stale') /\ Range(stale') = Range(stale)
      /\ age' \in [Items -> Nat]
      /\ (\A i, j \in DOMAIN stale : i <= j => age[stale[j]] <= age[stale[i]])
         => \A i, j \in DOMAIN stale' : i <= j => age'[stale'[j]] <= age'[stale'[i]]
  BY <1>1, <1>3, <1>4, <1>5, <1>6, TouchedKeeps
<1>8. ReadsTypes'
  BY <1>2, <1>7 DEF Ways, ReadsTypes
<1>9. InOrder'
  BY <1>7 DEF Ways, InOrder
<1>11. Shared(jobs, dropped)'
  BY <1>2 DEF Ways, OneWay, Shared
<1>12. Shape(jobs, monitored # {})'
  BY <1>2 DEF Ways, Shape
<1>13. Running'
  BY <1>2 DEF Ways, Running
<1>10. OneWay' /\ Shape(jobs, monitored # {})' /\ Running'
  <2>1. monitored' \cap dropped' = {}
    BY <1>2 DEF Ways, OneWay
  <2>2. Range(stale') = monitored' /\ Distinct(stale')
    BY <1>2, <1>3, <1>7
  <2>3. OneWay'
    BY <1>11, <2>1, <2>2 DEF OneWay
  <2> QED
    BY <1>12, <1>13, <2>3
<1> QED
  BY <1>8, <1>9, <1>10 DEF Ways

LEMMA PollEverythingWays == ASSUME Ways, PollEverything PROVE Ways'
<1>1. monitored' = {} /\ stale' = <<>> /\ jobs' = Schedule(Items, {}) /\ listed' = 0 /\ dropped' = {}
      /\ UNCHANGED <<age, job, wanted, reading, spent, failedReads>>
  BY DEF PollEverything, request
<1>2. PICK swept \in BOOLEAN : ~swept /\ swept = ({} # {})
  OBVIOUS
<1>3. PICK p : p = SweepPeriod(Cardinality({}))
  OBVIOUS
<1>4. Scheduled(Schedule(Items, {}), Items, {} # {}, SweepPeriod(Cardinality({})))
  BY ScheduleIs
<1>5. Scheduled(jobs', Items, swept, p)
  BY <1>1, <1>2, <1>3, <1>4
<1>6. jobs' \in Seq(Jobs) /\ jobs' # <<>>
  BY <1>5 DEF Scheduled
<1>7. ReadsTypes'
  BY <1>1, <1>6 DEF Ways, ReadsTypes
<1>8. Shared(jobs, dropped)'
  BY <1>1, <1>5 DEF Shared, Scheduled
<1>9. OneWay' /\ InOrder'
  BY <1>1, <1>8 DEF OneWay, InOrder, Distinct, Range
<1>10. Shape(jobs, monitored # {})'
  <2>1. Shape(jobs', swept)
    BY <1>2, <1>5 DEF Shape, Scheduled
  <2> QED
    BY <1>1, <1>2, <2>1
<1>11. Running'
  BY <1>1 DEF Ways, Running
<1> QED
  BY <1>7, <1>9, <1>10, <1>11 DEF Ways

\* A job each tick sooner.
Ticked == [k \in DOMAIN jobs |-> Sooner(jobs[k])]

LEMMA TickedIs ==
    ASSUME ReadsTypes
    PROVE  SameJobs(jobs, Ticked) /\ \A k \in DOMAIN jobs : Ticked[k] = Sooner(jobs[k])
<1>1. PICK ks : ks = Ticked
  OBVIOUS
<1>2. ks = [k \in DOMAIN jobs |-> Sooner(jobs[k])]
  BY <1>1 DEF Ticked
<1>3. PICK n \in Nat : n = Len(jobs) /\ DOMAIN jobs = 1 .. n /\ jobs \in Seq(Jobs)
  BY DEF ReadsTypes
<1>4. \A k \in 1 .. n : jobs[k] \in Jobs
  BY <1>3
<1>5. \A k \in 1 .. n : ks[k] = Sooner(jobs[k]) /\ ks[k] \in Jobs /\ ks[k].kind = jobs[k].kind
          /\ ks[k].targets = jobs[k].targets /\ ks[k].period = jobs[k].period
  BY <1>2, <1>3, <1>4, SoonerIs
<1>6. ks \in Seq(Jobs) /\ Len(ks) = n /\ DOMAIN ks = 1 .. n
  BY <1>2, <1>3, <1>5
<1>7. SameJobs(jobs, ks)
  BY <1>3, <1>5, <1>6 DEF SameJobs
<1> QED
  BY <1>1, <1>3, <1>5, <1>7

LEMMA TickWays == ASSUME Ways, Tick PROVE Ways'
<1>1. /\ IF reading THEN spent < Longest /\ spent' = spent + 1 ELSE job.wait > 0 /\ spent' = spent
      /\ jobs' = Ticked /\ job' = Sooner(job)
      /\ age' = [i \in Items |-> IF i \in dropped THEN 0 ELSE Least(age[i] + 1, IF i \in monitored THEN Horizon ELSE 1)]
      /\ UNCHANGED <<monitored, stale, listed, wanted, reading, dropped, failedReads>>
  BY DEF Tick, Ticked
<1>2. ReadsTypes
  BY DEF Ways
<1>3. PICK ks : ks = Ticked
  OBVIOUS
<1>4. SameJobs(jobs, ks) /\ \A k \in DOMAIN jobs : ks[k] = Sooner(jobs[k])
  BY <1>2, <1>3, TickedIs
<1>5. PICK swept \in BOOLEAN : swept = (monitored # {})
  OBVIOUS
<1>6. Shared(ks, dropped) /\ Shape(ks, swept)
  BY <1>2, <1>4, <1>5, SameWays DEF Ways, OneWay
<1>7. jobs' = ks /\ ks \in Seq(Jobs) /\ ks # <<>> /\ Len(ks) = Len(jobs)
  BY <1>1, <1>2, <1>3, <1>4 DEF SameJobs, ReadsTypes
<1>8. job' \in Jobs /\ job'.kind = job.kind /\ job'.targets = job.targets
  BY <1>1, <1>2, SoonerIs DEF ReadsTypes
<1>9. spent' \in 0 .. Longest
  BY <1>1, <1>2, Parameters DEF ReadsTypes
<1>10. age' \in [Items -> Nat]
  <2>1. \A i \in Items : age[i] \in Nat
    BY <1>2 DEF ReadsTypes
  <2>2. \A n \in Nat : Least(n + 1, Horizon) \in Nat /\ Least(n + 1, 1) \in Nat
    BY Parameters DEF Least
  <2> QED
    BY <1>1, <2>1, <2>2
<1>11. ReadsTypes'
  BY <1>1, <1>2, <1>7, <1>8, <1>9, <1>10 DEF ReadsTypes
<1>12. OneWay' /\ Shape(jobs, monitored # {})'
  <2>1. Shared(jobs, dropped)'
    BY <1>1, <1>6, <1>7 DEF Shared
  <2>2. Shape(jobs, monitored # {})'
    BY <1>1, <1>5, <1>6, <1>7 DEF Shape
  <2> QED
    BY <1>1, <2>1, <2>2 DEF Ways, OneWay
<1>13. InOrder'
  <2> SUFFICES ASSUME NEW i \in DOMAIN stale, NEW j \in DOMAIN stale, i <= j
               PROVE  age'[stale[j]] <= age'[stale[i]]
    BY <1>1 DEF InOrder
  <2>1. stale[i] \in monitored /\ stale[j] \in monitored
    BY DEF Ways, OneWay, Range
  <2>2. stale[i] \in Items /\ stale[j] \in Items /\ stale[i] \notin dropped /\ stale[j] \notin dropped
    BY <1>2, <2>1, Parameters DEF Ways, OneWay, ReadsTypes
  <2>3. PICK a \in Nat, b \in Nat : a = age[stale[i]] /\ b = age[stale[j]]
    BY <1>2, <2>2 DEF ReadsTypes
  <2>4. b <= a
    BY <2>3 DEF Ways, InOrder
  <2>5. age'[stale[i]] = Least(a + 1, Horizon) /\ age'[stale[j]] = Least(b + 1, Horizon)
    BY <1>1, <2>1, <2>2, <2>3
  <2>6. Least(b + 1, Horizon) <= Least(a + 1, Horizon)
    BY <2>4, Parameters DEF Least
  <2> QED
    BY <2>5, <2>6
<1>14. Running'
  <2>2. listed # 0 => listed \in DOMAIN jobs /\ job = jobs[listed]
    BY <1>2 DEF Ways, Running, ReadsTypes
  <2>1. listed # 0 => job' = jobs'[listed]
    BY <1>1, <1>4, <1>7, <2>2
  <2> QED
    BY <1>1, <1>8, <2>1 DEF Ways, Running
<1> QED
  BY <1>11, <1>12, <1>13, <1>14 DEF Ways

Pruned(bad) == [i \in DOMAIN jobs |-> IF i # listed THEN jobs[i]
                   ELSE [jobs[i] EXCEPT !.targets = Kept(@, Items \ bad)]]

\* What cannot be decoded leaves the chunk, and is dropped: it was polled by this chunk alone.
LEMMA PrunedIs ==
    ASSUME Ways, reading, job.kind = "chunk", listed # 0,
           NEW bad, bad \subseteq Range(wanted),
           NEW ks, ks = Pruned(bad)
    PROVE  /\ ks \in Seq(Jobs) /\ Len(ks) = Len(jobs)
           /\ \A swept \in BOOLEAN : Shape(jobs, swept) => Shape(ks, swept)
           /\ Shared(ks, dropped \cup bad) /\ bad \cap monitored = {} /\ bad \subseteq Items
<1>1. job = jobs[listed] /\ wanted = job.targets /\ wanted \in Seq(Items) /\ listed \in DOMAIN jobs
  BY DEF Ways, Running, ReadsTypes
<1>2. PICK n \in Nat : n = Len(jobs) /\ DOMAIN jobs = 1 .. n /\ n # 0
  BY DEF Ways, ReadsTypes
<1>3. \A k \in 1 .. n : jobs[k] \in Jobs
  BY <1>2 DEF Ways, ReadsTypes
<1>4. PICK kept : kept = Kept(wanted, Items \ bad)
  OBVIOUS
<1>5. kept \in Seq(Items) /\ Range(kept) = Range(wanted) \cap (Items \ bad)
  BY <1>1, <1>4, KeptIs
<1>6. Range(wanted) \subseteq Items
  BY <1>1 DEF Range
<1>21. ks = [i \in 1 .. n |-> IF i # listed THEN jobs[i]
                   ELSE [jobs[i] EXCEPT !.targets = Kept(@, Items \ bad)]]
  BY <1>2 DEF Pruned
<1>7. [jobs[listed] EXCEPT !.targets = Kept(@, Items \ bad)] = [jobs[listed] EXCEPT !.targets = kept]
  BY <1>1, <1>4
<1>8. \A k \in 1 .. n : k # listed => ks[k] = jobs[k]
  BY <1>21
<1>9. ks[listed] = [jobs[listed] EXCEPT !.targets = kept]
  BY <1>1, <1>2, <1>7, <1>21
<1>10. /\ ks[listed] \in Jobs /\ ks[listed].kind = "chunk" /\ ks[listed].targets = kept
       /\ ks[listed].period = jobs[listed].period
  BY <1>1, <1>2, <1>3, <1>5, <1>9 DEF Jobs
<1>11. ks \in Seq(Jobs) /\ Len(ks) = n /\ DOMAIN ks = 1 .. n
  <2>1. \A k \in 1 .. n : ks[k] \in Jobs
    BY <1>3, <1>8, <1>10
  <2>2. DOMAIN ks = 1 .. n /\ ks = [k \in 1 .. n |-> ks[k]]
    BY <1>21
  <2>3. ks \in [1 .. n -> Jobs]
    BY <2>1, <2>2
  <2> QED
    BY <1>2, <2>3
<1>12. \A k \in 1 .. n : ks[k].kind = jobs[k].kind /\ ks[k].period = jobs[k].period
                          /\ (k # listed => ks[k].targets = jobs[k].targets)
  BY <1>1, <1>8, <1>10
<1>13. ASSUME NEW swept \in BOOLEAN, Shape(jobs, swept) PROVE Shape(ks, swept)
  <2>1. \A k \in 1 .. n : ks[k].kind = "sweep" => swept /\ k = n
    BY <1>2, <1>12, <1>13 DEF Shape
  <2>2. \A k \in 1 .. n : ks[k].kind = "health" => ks[k].targets = <<>>
    BY <1>1, <1>2, <1>10, <1>12, <1>13 DEF Shape
  <2>3. swept => ks[n].kind = "sweep" /\ ks[n].period = SweepPeriod(Cardinality(Subscribed))
    BY <1>2, <1>12, <1>13 DEF Shape
  <2> QED
    BY <1>11, <2>1, <2>2, <2>3 DEF Shape
<1>14. \A i \in Range(wanted) : PolledIn(jobs, i) = {listed} /\ i \notin monitored \cup dropped
  <2> SUFFICES ASSUME NEW i \in Range(wanted)
               PROVE  PolledIn(jobs, i) = {listed} /\ i \notin monitored \cup dropped
    OBVIOUS
  <2>1. listed \in PolledIn(jobs, i)
    BY <1>1 DEF PolledIn
  <2> QED
    BY <1>6, <2>1 DEF Ways, OneWay, Shared
<1>15. \A i \in bad : PolledIn(ks, i) = {}
  <2> SUFFICES ASSUME NEW i \in bad, NEW k \in 1 .. n, ks[k].kind = "chunk", i \in Range(ks[k].targets)
               PROVE  FALSE
    BY <1>11 DEF PolledIn
  <2>1. CASE k = listed
    BY <1>5, <1>10, <2>1
  <2>2. CASE k # listed
    <3>1. k \in PolledIn(jobs, i)
      BY <1>2, <1>12, <2>2 DEF PolledIn
    <3> QED
      BY <1>14, <2>2, <3>1
  <2> QED
    BY <2>1, <2>2
<1>16. ASSUME NEW i \in Items \ bad PROVE PolledIn(ks, i) = PolledIn(jobs, i)
  <2>1. i \in Range(kept) <=> i \in Range(wanted)
    BY <1>5
  <2>2. \A k \in 1 .. n : i \in Range(ks[k].targets) <=> i \in Range(jobs[k].targets)
    BY <1>1, <1>10, <1>12, <2>1
  <2> QED
    BY <1>2, <1>11, <1>12, <2>2 DEF PolledIn
<1>17. monitored \subseteq Items /\ dropped \subseteq Items
  BY Parameters DEF Ways, ReadsTypes
<1>18. Shared(ks, dropped \cup bad)
  <2>1. ASSUME NEW i \in monitored \cup (dropped \cup bad) PROVE PolledIn(ks, i) = {}
    <3>1. CASE i \in bad
      BY <1>15, <3>1
    <3>2. CASE i \notin bad
      BY <1>16, <1>17, <2>1, <3>2 DEF Ways, OneWay, Shared
    <3> QED
      BY <3>1, <3>2
  <2>2. ASSUME NEW i \in Items \ (monitored \cup (dropped \cup bad))
        PROVE  \E k \in DOMAIN ks : PolledIn(ks, i) = {k}
    <3>1. PolledIn(ks, i) = PolledIn(jobs, i) /\ i \in Items \ (monitored \cup dropped)
      BY <1>16, <2>2
    <3>2. \E k \in DOMAIN jobs : PolledIn(jobs, i) = {k}
      BY <3>1 DEF Ways, OneWay, Shared
    <3> QED
      BY <1>2, <1>11, <3>1, <3>2
  <2> QED
    BY <2>1, <2>2 DEF Shared
<1> QED
  BY <1>2, <1>6, <1>11, <1>13, <1>14, <1>18

LEMMA ChunkReadWays == ASSUME Ways, ChunkRead PROVE Ways'
<1>1. /\ reading /\ job.kind = "chunk" /\ Finished /\ UNCHANGED <<monitored, stale, failedReads>>
      /\ age' = [i \in Items |-> IF i \in Range(wanted) THEN 0 ELSE age[i]]
  BY DEF ChunkRead
<1>15. PICK bad \in SUBSET Range(wanted) :
          Turn(Pruned(bad)) /\ dropped' = dropped \cup (IF listed = 0 THEN {} ELSE bad)
  BY DEF ChunkRead, Pruned
<1>2. PICK ks : ks = Pruned(bad) /\ Turn(ks) /\ dropped' = dropped \cup (IF listed = 0 THEN {} ELSE bad)
  BY <1>15
<1>3. jobs \in Seq(Jobs) /\ jobs # <<>> /\ age \in [Items -> Nat] /\ stale \in Seq(Items)
      /\ Range(stale) = monitored /\ monitored \cap dropped = {} /\ dropped \subseteq Items
      /\ Shape(jobs, monitored # {}) /\ Shared(jobs, dropped)
  BY DEF Ways, ReadsTypes, OneWay
<1>4. PICK swept \in BOOLEAN : swept = (monitored # {})
  OBVIOUS
<1>5. Shape(jobs, swept)
  BY <1>3, <1>4
<1>6. /\ ks \in Seq(Jobs) /\ ks # <<>> /\ Shape(ks, swept) /\ Shared(ks, dropped')
      /\ monitored \cap dropped' = {} /\ dropped' \subseteq Items
  <2>1. CASE listed = 0
    <3>1. DOMAIN jobs = 1 .. Len(jobs) /\ Len(jobs) \in Nat
      BY <1>3
    <3>2. ks = [i \in DOMAIN jobs |-> jobs[i]]
      BY <1>2, <2>1, <3>1 DEF Pruned
    <3>3. ks = jobs
      BY <1>3, <3>2
    <3>4. dropped' = dropped
      BY <1>2, <2>1
    <3> QED
      BY <1>3, <1>5, <3>3, <3>4
  <2>2. CASE listed # 0
    <3>1. dropped' = dropped \cup bad
      BY <1>2, <2>2
    <3>2. /\ ks \in Seq(Jobs) /\ Len(ks) = Len(jobs)
          /\ Shape(ks, swept) /\ Shared(ks, dropped \cup bad) /\ bad \cap monitored = {} /\ bad \subseteq Items
      BY <1>1, <1>2, <1>5, <2>2, PrunedIs
    <3>3. ks # <<>>
      BY <1>3, <3>2
    <3> QED
      BY <1>3, <3>1, <3>2, <3>3
  <2> QED
    BY <2>1, <2>2
<1>7. /\ jobs' = ks /\ job' \in Jobs /\ listed' \in 0 .. Len(ks) /\ wanted' \in Seq(Items)
      /\ reading' \in BOOLEAN /\ spent' \in 0 .. Longest /\ Running'
  BY <1>1, <1>2, <1>6, Ended
<1>8. age' \in [Items -> Nat]
  BY <1>1, <1>3
<1>9. ReadsTypes'
  BY <1>1, <1>6, <1>7, <1>8 DEF Ways, ReadsTypes
<1>10. Shared(jobs, dropped)'
  BY <1>1, <1>6, <1>7 DEF Shared
<1>11. OneWay'
  BY <1>1, <1>6, <1>10 DEF Ways, OneWay
<1>12. Shape(jobs, monitored # {})'
  BY <1>1, <1>4, <1>6, <1>7 DEF Shape
<1>13. \A i \in monitored : i \in Items /\ age'[i] = age[i]
  BY <1>1, <1>3, ChunkApart, Parameters DEF Ways, ReadsTypes
<1>14. InOrder'
  <2>1. \A i \in DOMAIN stale : stale[i] \in monitored
    BY <1>3 DEF Range
  <2> QED
    BY <1>1, <1>13, <2>1 DEF Ways, InOrder
<1> QED
  BY <1>7, <1>9, <1>11, <1>12, <1>14 DEF Ways

LEMMA StillWays == ASSUME Ways, UNCHANGED readsVars PROVE Ways'
<1>1. UNCHANGED <<monitored, stale, age, jobs, job, listed, wanted, reading, spent, dropped, failedReads>>
  BY DEF readsVars, schedule, request
<1> QED
  BY <1>1 DEF Ways, ReadsTypes, OneWay, InOrder, Shape, Running, Shared

LEMMA WaysHold == ReadsSpec => []Ways
<1>1. ASSUME Ways, [ReadsNext]_readsVars PROVE Ways'
  BY <1>1, RunJobWays, HealthReadWays, ChunkReadWays, SweepReadWays, ReadFailsWays, DeliverWays,
     PollEverythingWays, TickWays, StillWays DEF ReadsNext, RunLoop
<1> QED
  BY WaysStart, <1>1, PTL DEF ReadsSpec

\* Every item is sampled in exactly one way, and a job gives an item up only once nothing
\* else samples it: _stale holds the subscribed items once each, the polled ones are in one
\* chunk each, across _poll_everything in the middle of any job.
THEOREM ItemsSampledOneWay == ReadsSpec => []SampledOneWay
<1>1. ASSUME Ways PROVE SampledOneWay
  <2>1. Range(stale) = monitored /\ Distinct(stale) /\ stale \in Seq(Items)
    BY <1>1 DEF Ways, OneWay, ReadsTypes
  <2>2. Len(stale) = Cardinality(monitored)
    BY <2>1, DistinctCount
  <2>3. ASSUME NEW i \in Items
        PROVE  Cardinality({k \in Polled : i \in Range(jobs[k].targets)})
                   = IF i \in monitored \cup dropped THEN 0 ELSE 1
    <3>1. {k \in Polled : i \in Range(jobs[k].targets)} = PolledIn(jobs, i)
      BY DEF Polled, PolledIn
    <3>2. CASE i \in monitored \cup dropped
      <4>1. PolledIn(jobs, i) = {}
        BY <1>1, <3>2 DEF Ways, OneWay, Shared
      <4> QED
        BY <3>1, <3>2, <4>1, FS_EmptySet
    <3>3. CASE i \notin monitored \cup dropped
      <4>1. PICK k \in DOMAIN jobs : PolledIn(jobs, i) = {k}
        BY <1>1, <3>3 DEF Ways, OneWay, Shared
      <4> QED
        BY <3>1, <3>3, <4>1, FS_Singleton
    <3> QED
      BY <3>2, <3>3
  <2>4. \A k \in DOMAIN jobs : jobs[k].kind = "sweep" => monitored # {}
    BY <1>1 DEF Ways, Shape
  <2> QED
    BY <2>1, <2>2, <2>3, <2>4 DEF SampledOneWay
<1> QED
  BY WaysHold, <1>1, PTL

-----------------------------------------------------------------------------
(* Reads: a subscribed item is refreshed in time *)

\* The jobs that go before the sweep, the ticks in which it is run at the latest, and what
\* shows that: the request under way and one run of each of those jobs.
Before(js) == {k \in DOMAIN js : k # Len(js) /\ js[k].wait <= js[Len(js)].wait}
Left(js) == js[Len(js)].wait + Len(js) * Longest
OnTime(js, r) == r + Cardinality(Before(js)) * Longest <= Left(js)
Remaining == IF reading THEN Longest - spent ELSE 0

Sizes(js, n, w, t, b) ==
    /\ n = Len(js) /\ DOMAIN js = 1 .. n /\ w = js[n].wait /\ t = n * Longest
    /\ Left(js) = w + t
    /\ IsFiniteSet(Before(js)) /\ b = Cardinality(Before(js)) /\ b < n

LEMMA SizesAre ==
    ASSUME NEW js \in Seq(Jobs), js # <<>>
    PROVE  \E n \in Nat \ {0}, w \in Int, t \in Nat, b \in Nat : Sizes(js, n, w, t, b)
<1>1. PICK n \in Nat \ {0} : n = Len(js) /\ DOMAIN js = 1 .. n
  OBVIOUS
<1>2. js[n] \in Jobs
  BY <1>1
<1>3. PICK w \in Int : w = js[n].wait
  BY <1>2 DEF Jobs, Waits
<1>4. PICK t \in Nat : t = n * Longest
  BY Parameters, Times
<1>5. PICK m \in Nat : n = m + 1
  <2>1. n - 1 \in Nat /\ n = (n - 1) + 1
    OBVIOUS
  <2> QED
    BY <2>1
<1>6. Before(js) \subseteq 1 .. m
  BY <1>1, <1>5 DEF Before
<1>7. IsFiniteSet(1 .. m) /\ Cardinality(1 .. m) = m
  BY UpTo
<1>8. IsFiniteSet(Before(js)) /\ Cardinality(Before(js)) <= m /\ Cardinality(Before(js)) \in Nat
  BY <1>6, <1>7, FS_Subset, FS_CardinalityType
<1>9. Left(js) = w + t
  BY <1>1, <1>3, <1>4 DEF Left
<1>10. PICK b \in Nat : b = Cardinality(Before(js)) /\ b < n
  BY <1>5, <1>8
<1> QED
  BY <1>1, <1>3, <1>4, <1>8, <1>9, <1>10 DEF Sizes

\* A sweep not yet due is on time whatever else there is to run.
LEMMA OnTimeAhead ==
    ASSUME NEW js \in Seq(Jobs), js # <<>>, 0 <= js[Len(js)].wait, NEW r \in Int, r <= Longest
    PROVE  OnTime(js, r)
<1>1. PICK n \in Nat \ {0}, w \in Int, t \in Nat, b \in Nat : Sizes(js, n, w, t, b)
  BY SizesAre
<1>2. PICK c \in Int : c = b * Longest
  BY Times, Parameters
<1>3. c + Longest <= t
  <2>1. b < n /\ Longest \in Nat
    BY <1>1, Parameters DEF Sizes
  <2>2. b * Longest + Longest <= n * Longest
    BY <2>1, TimesLess
  <2> QED
    BY <1>1, <1>2, <2>2 DEF Sizes
<1>4. 0 <= w
  BY <1>1 DEF Sizes
<1>5. OnTime(js, r) <=> r + c <= w + t
  BY <1>1, <1>2 DEF OnTime, Sizes
<1>6. Longest \in Nat
  BY Parameters
<1> QED
  BY <1>3, <1>4, <1>5, <1>6

LEMMA OnTimeLeft ==
    ASSUME NEW js \in Seq(Jobs), js # <<>>, NEW r \in Nat, OnTime(js, r)
    PROVE  0 <= Left(js)
<1>1. PICK n \in Nat \ {0}, w \in Int, t \in Nat, b \in Nat : Sizes(js, n, w, t, b)
  BY SizesAre
<1>2. PICK c \in Nat : c = b * Longest
  BY Times, Parameters
<1>3. Cardinality(Before(js)) * Longest = c /\ Left(js) \in Int
  BY <1>1, <1>2 DEF Sizes
<1>4. r + c <= Left(js)
  BY <1>3 DEF OnTime
<1> QED
  BY <1>2, <1>3, <1>4

\* The jobs are due when they were.
DueAlike(js, ks) ==
    /\ Len(ks) = Len(js) /\ DOMAIN ks = DOMAIN js
    /\ \A k \in DOMAIN js : ks[k].wait = js[k].wait

LEMMA OnTimeAlike ==
    ASSUME NEW js \in Seq(Jobs), js # <<>>, NEW ks, DueAlike(js, ks),
           NEW r \in Int, NEW q \in Int, q <= r
    PROVE  Left(ks) = Left(js) /\ (OnTime(js, r) => OnTime(ks, q))
<1>1. PICK n \in Nat \ {0}, w \in Int, t \in Nat, b \in Nat : Sizes(js, n, w, t, b)
  BY SizesAre
<1>2. n \in DOMAIN js
  BY <1>1 DEF Sizes
<1>3. Before(ks) = Before(js)
  BY <1>1, <1>2 DEF Before, DueAlike, Sizes
<1>4. Left(ks) = Left(js)
  BY <1>1, <1>2 DEF Left, DueAlike, Sizes
<1>5. PICK c \in Int : c = b * Longest
  BY Times, Parameters
<1>6. Cardinality(Before(js)) * Longest = c /\ Left(js) \in Int
  BY <1>1, <1>5 DEF Sizes
<1>7. ASSUME OnTime(js, r) PROVE OnTime(ks, q)
  <2>1. r + c <= Left(js)
    BY <1>6, <1>7 DEF OnTime
  <2>2. q + c <= Left(js)
    BY <1>6, <2>1
  <2> QED
    BY <1>3, <1>4, <1>6, <2>2 DEF OnTime
<1> QED
  BY <1>4, <1>7

\* The job that was due first is run, and goes behind the sweep if that is overdue.
LEMMA OnTimeRun ==
    ASSUME NEW js \in Seq(Jobs), js # <<>>, NEW i \in DOMAIN js, i # Len(js),
           \A k \in DOMAIN js : js[i].wait <= js[k].wait,
           NEW ks \in Seq(Jobs), Len(ks) = Len(js), DOMAIN ks = DOMAIN js, 0 <= ks[i].wait,
           \A k \in DOMAIN js : k # i => ks[k].wait = js[k].wait,
           OnTime(js, 0), NEW r \in Int, r <= Longest
    PROVE  Left(ks) = Left(js) /\ OnTime(ks, r)
<1>1. PICK n \in Nat \ {0}, w \in Int, t \in Nat, b \in Nat : Sizes(js, n, w, t, b)
  BY SizesAre
<1>2. n \in DOMAIN js /\ i # n
  BY <1>1 DEF Sizes
<1>3. ks[n].wait = w /\ Left(ks) = w + t /\ ks # <<>>
  BY <1>1, <1>2 DEF Left, Sizes
<1>4. CASE 0 <= w
  <2>1. OnTime(ks, r)
    BY <1>1, <1>3, <1>4, OnTimeAhead DEF Sizes
  <2> QED
    BY <1>1, <1>3, <2>1 DEF Sizes
<1>5. CASE ~(0 <= w)
  <2>1. i \in Before(js)
    BY <1>1, <1>2 DEF Before, Sizes
  <2>2. \A k \in DOMAIN js : js[k].wait \in Int
    <3>1. \A k \in DOMAIN js : js[k] \in Jobs
      BY <1>1 DEF Sizes
    <3> QED
      BY <3>1 DEF Jobs, Waits
  <2>3. i \notin Before(ks)
    <3>1. ks[i] \in Jobs
      BY <1>1 DEF Sizes
    <3>2. ks[i].wait \in Int
      BY <3>1 DEF Jobs, Waits
    <3> QED
      BY <1>1, <1>3, <1>5, <3>2 DEF Before, Sizes
  <2>4. Before(ks) = Before(js) \ {i}
    <3>1. \A k \in DOMAIN js : k # i => (k \in Before(ks) <=> k \in Before(js))
      BY <1>1, <1>3 DEF Before, Sizes
    <3> QED
      BY <2>3, <3>1 DEF Before
  <2>5. PICK a \in Nat : a = Cardinality(Before(ks)) /\ a + 1 = b
    <3>3. PICK T : T = Before(js)
      OBVIOUS
    <3>4. IsFiniteSet(T) /\ i \in T /\ Cardinality(T) = b
      BY <1>1, <2>1, <3>3 DEF Sizes
    <3>5. IsFiniteSet(T \ {i}) /\ Cardinality(T \ {i}) = Cardinality(T) - 1
      BY <3>4, FS_RemoveElement
    <3>1. IsFiniteSet(Before(ks)) /\ Cardinality(Before(ks)) = Cardinality(Before(js)) - 1
      BY <2>4, <3>3, <3>5
    <3>2. Cardinality(Before(ks)) \in Nat
      BY <3>1, FS_CardinalityType
    <3> QED
      BY <1>1, <3>1, <3>2 DEF Sizes
  <2>6. PICK c \in Int, e \in Int : c = a * Longest /\ e = b * Longest
    BY Times, Parameters
  <2>7. e = c + Longest
    <3>1. Longest \in Int
      BY Parameters
    <3>2. (a + 1) * Longest = a * Longest + Longest
      BY <3>1, TimesNext
    <3> QED
      BY <2>5, <2>6, <3>2
  <2>8. 0 + e <= w + t
    BY <1>1, <2>6 DEF OnTime, Sizes
  <2>9. r + c <= w + t
    BY <2>7, <2>8, Parameters
  <2>10. OnTime(ks, r)
    BY <1>3, <2>5, <2>6, <2>9 DEF OnTime
  <2> QED
    BY <1>1, <1>3, <2>10 DEF Sizes
<1> QED
  BY <1>4, <1>5

\* A tick of a request brings the sweep and its end nearer.
LEMMA OnTimeTick ==
    ASSUME NEW js \in Seq(Jobs), js # <<>>, NEW ks, Len(ks) = Len(js), DOMAIN ks = DOMAIN js,
           \A k \in DOMAIN js : ks[k].wait = Most(js[k].wait - 1, -Horizon),
           -Horizon < js[Len(js)].wait, NEW r \in Int
    PROVE  /\ ks[Len(ks)].wait = js[Len(js)].wait - 1 /\ Left(ks) = Left(js) - 1
           /\ OnTime(js, r) => OnTime(ks, r - 1)
<1>1. PICK n \in Nat \ {0}, w \in Int, t \in Nat, b \in Nat : Sizes(js, n, w, t, b)
  BY SizesAre
<1>2. n \in DOMAIN js /\ Len(ks) = n
  BY <1>1 DEF Sizes
<1>3. \A k \in DOMAIN js : js[k].wait \in Int
  <2>1. \A k \in DOMAIN js : js[k] \in Jobs
    BY <1>1 DEF Sizes
  <2> QED
    BY <2>1 DEF Jobs, Waits
<1>4. ks[n].wait = w - 1
  <2>1. ks[n].wait = Most(w - 1, -Horizon) /\ -Horizon < w
    BY <1>1, <1>2 DEF Sizes
  <2> QED
    BY <2>1, Parameters DEF Most
<1>5. Left(ks) = w - 1 + t
  BY <1>1, <1>2, <1>4 DEF Left, Sizes
<1>6. Before(ks) = Before(js)
  <2>1. -Horizon < w
    BY <1>1 DEF Sizes
  <2>2. ASSUME NEW k \in DOMAIN js PROVE ks[k].wait <= w - 1 <=> js[k].wait <= w
    <3>1. PICK v \in Int : v = js[k].wait
      BY <1>3
    <3>2. ks[k].wait = Most(v - 1, -Horizon)
      BY <3>1
    <3> QED
      BY <2>1, <3>1, <3>2, Parameters DEF Most
  <2> QED
    BY <1>1, <1>2, <1>4, <2>2 DEF Before, Sizes
<1>7. PICK c \in Int : c = b * Longest
  BY Times, Parameters
<1>9. (OnTime(js, r) <=> r + c <= w + t) /\ (OnTime(ks, r - 1) <=> r - 1 + c <= w - 1 + t)
  BY <1>1, <1>5, <1>6, <1>7 DEF OnTime, Sizes
<1>8. OnTime(js, r) => OnTime(ks, r - 1)
  BY <1>9
<1> QED
  BY <1>1, <1>2, <1>4, <1>5, <1>8 DEF Sizes

\* An item of age a, the sweep due to run in w ticks and then every d: the sweeps read the
\* items of S, and it among them, before it is older than late - d.
LeftBy(S, k) == IsFiniteSet(S) /\ Cardinality(S) <= k * ReadChunk
Read(S, a, w, d, late) == \E k \in Nat : LeftBy(S, k) /\ a + w + k * d <= late

\* Fewer items, a sooner sweep or a later end leave it read in time.
LEMMA ReadSooner ==
    ASSUME NEW S, NEW T, T \subseteq S, NEW d \in Nat,
           NEW a \in Int, NEW w \in Int, NEW late \in Int, Read(S, a, w, d, late),
           NEW b \in Int, NEW v \in Int, NEW end \in Int, b + v - end <= a + w - late
    PROVE  Read(T, b, v, d, end)
<1>1. PICK k \in Nat : LeftBy(S, k) /\ a + w + k * d <= late
  BY DEF Read
<1>2. PICK kd \in Int, kr \in Int : kd = k * d /\ kr = k * ReadChunk
  BY Times, Parameters
<1>3. IsFiniteSet(T) /\ Cardinality(T) <= Cardinality(S) /\ Cardinality(T) \in Nat /\ Cardinality(S) \in Nat
  BY <1>1, FS_Subset, FS_CardinalityType DEF LeftBy
<1>4. LeftBy(T, k)
  BY <1>1, <1>2, <1>3 DEF LeftBy
<1>5. b + v + kd <= end
  BY <1>1, <1>2
<1> QED
  BY <1>2, <1>4, <1>5 DEF Read

\* A Read that is full of other items of S leaves one sweep fewer.
LEMMA ReadOneSweep ==
    ASSUME NEW S, NEW R, R \subseteq S, Cardinality(R) = ReadChunk, NEW d \in Nat,
           NEW a \in Int, NEW w \in Int, NEW late \in Int, Read(S, a, w, d, late),
           NEW b \in Int, NEW v \in Int, b + v <= a + w + d
    PROVE  Read(S \ R, b, v, d, late)
<1>1. PICK k \in Nat : LeftBy(S, k) /\ a + w + k * d <= late
  BY DEF Read
<1>2. ReadChunk \in Nat /\ 0 < ReadChunk
  BY Parameters
<1>3. PICK c \in Nat : c = Cardinality(S) /\ IsFiniteSet(S)
  BY <1>1, FS_CardinalityType DEF LeftBy
<1>4. IsFiniteSet(R) /\ ReadChunk <= c
  BY <1>3, FS_Subset
<1>5. IsFiniteSet(S \ R) /\ Cardinality(S \ R) = c - ReadChunk
  <2>1. S \cap R = R
    OBVIOUS
  <2> QED
    BY <1>3, <2>1, FS_Difference
<1>6. k # 0
  <2> SUFFICES ASSUME k = 0 PROVE FALSE
    OBVIOUS
  <2>1. k * ReadChunk = 0
    BY <1>2
  <2> QED
    BY <1>1, <1>2, <1>3, <1>4, <2>1 DEF LeftBy
<1>7. PICK m \in Nat : k = m + 1
  <2>1. k - 1 \in Nat /\ k = (k - 1) + 1
    BY <1>6
  <2> QED
    BY <2>1
<1>8. k * ReadChunk = m * ReadChunk + ReadChunk /\ k * d = m * d + d
  BY <1>2, <1>7, TimesNext
<1>9. PICK md \in Int, mr \in Int : md = m * d /\ mr = m * ReadChunk
  BY Times, Parameters
<1>10. LeftBy(S \ R, m)
  BY <1>1, <1>2, <1>3, <1>5, <1>8, <1>9 DEF LeftBy
<1>11. b + v + md <= late
  BY <1>1, <1>8, <1>9
<1> QED
  BY <1>9, <1>10, <1>11 DEF Read

\* The items of a Read that failed wait for one sweep more.
LEMMA ReadOnceMore ==
    ASSUME NEW S, NEW R, IsFiniteSet(S), IsFiniteSet(R), Cardinality(R) <= ReadChunk, NEW d \in Nat,
           NEW a \in Int, NEW w \in Int, NEW late \in Int, Read(S \ R, a, w, d, late)
    PROVE  Read(S, a, w, d, late + d)
<1>1. PICK k \in Nat : LeftBy(S \ R, k) /\ a + w + k * d <= late
  BY DEF Read
<1>2. ReadChunk \in Nat
  BY Parameters
<1>3. PICK c \in Nat, r \in Nat, u \in Nat, e \in Nat :
        c = Cardinality(S) /\ r = Cardinality(R) /\ u = Cardinality(S \ R) /\ e = Cardinality(S \cap R)
  <2>1. IsFiniteSet(S \ R) /\ IsFiniteSet(S \cap R)
    BY FS_Difference, FS_Subset
  <2> QED
    BY <2>1, FS_CardinalityType
<1>4. u = c - e
  BY <1>3, FS_Difference
<1>5. e <= r
  <2>1. S \cap R \in SUBSET R
    OBVIOUS
  <2> QED
    BY <1>3, <2>1, FS_Subset
<1>6. (k + 1) * ReadChunk = k * ReadChunk + ReadChunk /\ (k + 1) * d = k * d + d
  BY <1>2, TimesNext
<1>7. PICK kd \in Int, kr \in Int : kd = k * d /\ kr = k * ReadChunk
  BY Times, Parameters
<1>8. u <= kr
  BY <1>1, <1>3, <1>7 DEF LeftBy
<1>9. LeftBy(S, k + 1)
  BY <1>2, <1>3, <1>4, <1>5, <1>6, <1>7, <1>8 DEF LeftBy
<1>10. a + w + (k + 1) * d <= late + d /\ k + 1 \in Nat
  BY <1>1, <1>6, <1>7
<1> QED
  BY <1>9, <1>10 DEF Read

\* An item that waits is no older than late - d.
LEMMA ReadBound ==
    ASSUME NEW S, NEW h \in S, NEW d \in Nat,
           NEW a \in Int, NEW w \in Nat, NEW late \in Int, Read(S, a, w, d, late)
    PROVE  a + d <= late
<1>1. PICK k \in Nat : LeftBy(S, k) /\ a + w + k * d <= late
  BY DEF Read
<1>2. ReadChunk \in Nat
  BY Parameters
<1>3. k # 0
  <2> SUFFICES ASSUME k = 0 PROVE FALSE
    OBVIOUS
  <2>1. k * ReadChunk = 0
    BY <1>2
  <2>2. IsFiniteSet(S) /\ Cardinality(S) <= 0
    BY <1>1, <2>1 DEF LeftBy
  <2>3. Cardinality(S) = 0
    BY <2>2, FS_CardinalityType
  <2> QED
    BY <2>2, <2>3, FS_EmptySet
<1>4. 0 * d + d <= k * d
  <2>1. 0 < k
    BY <1>3
  <2> QED
    BY <2>1, TimesLess
<1>5. PICK kd \in Int : kd = k * d
  BY Times
<1> QED
  BY <1>1, <1>4, <1>5

\* While the loop waits, it waits for the job due first.
First == ~reading /\ listed # 0 => \A k \in DOMAIN jobs : job.wait <= jobs[k].wait

LEMMA FirstStart == ReadsInit => First
<1> SUFFICES ASSUME ReadsInit PROVE First
  OBVIOUS
<1>1. Subscribed \subseteq Items
  BY Parameters
<1>2. PICK swept \in BOOLEAN : swept = (Subscribed # {})
  OBVIOUS
<1>3. Scheduled(jobs, Items \ Subscribed, swept, SweepPeriod(Cardinality(Subscribed)))
  BY <1>1, <1>2, ScheduleIs DEF ReadsInit
<1>4. job.wait = 0 /\ \A k \in DOMAIN jobs : 0 <= jobs[k].wait
  BY <1>3 DEF Scheduled, ReadsInit
<1> QED
  BY <1>4 DEF First

LEMMA FirstStep == ASSUME Ways, First, [ReadsNext]_readsVars PROVE First'
<1>1. jobs \in Seq(Jobs) /\ jobs # <<>> /\ job \in Jobs /\ ReadsTypes
  BY DEF Ways, ReadsTypes
<1>2. ASSUME NEW js \in Seq(Jobs), js # <<>>, Turn(js) PROVE First'
  <2>1. jobs' = js /\ \A k \in DOMAIN js : job'.wait <= js[k].wait
    BY <1>2, TurnIs
  <2> QED
    BY <2>1 DEF First
<1>3. CASE RunJob
  <2>1. Turn(Rescheduled) \/ reading'
    BY <1>3 DEF RunJob
  <2>2. PICK ks : ks = Rescheduled
    OBVIOUS
  <2>3. SameJobs(jobs, ks)
    BY <1>1, <2>2, RescheduledIs
  <2>4. ks \in Seq(Jobs) /\ ks # <<>>
    BY <1>1, <2>3 DEF SameJobs
  <2>5. CASE Turn(Rescheduled)
    BY <1>2, <2>2, <2>4, <2>5
  <2>6. CASE reading'
    BY <2>6 DEF First
  <2> QED
    BY <2>1, <2>5, <2>6
<1>4. CASE ChunkRead
  <2>1. jobs' \in Seq(Jobs) /\ jobs' # <<>>
    BY <1>4, ChunkReadWays DEF Ways, ReadsTypes
  <2>2. \E js : Turn(js)
    BY <1>4 DEF ChunkRead
  <2>3. PICK js : Turn(js) /\ js = jobs'
    BY <2>2 DEF Turn
  <2> QED
    BY <1>2, <2>1, <2>3
<1>5. CASE HealthRead \/ SweepRead \/ ReadFails
  <2>1. Turn(jobs)
    BY <1>5 DEF HealthRead, SweepRead, ReadFails
  <2> QED
    BY <1>1, <1>2, <2>1
<1>6. CASE Deliver \/ UNCHANGED readsVars
  <2>1. UNCHANGED <<jobs, job, listed, reading>>
    BY <1>6 DEF Deliver, readsVars, schedule, request
  <2> QED
    BY <2>1 DEF First
<1>7. CASE PollEverything
  <2>1. listed' = 0
    BY <1>7 DEF PollEverything
  <2> QED
    BY <2>1 DEF First
<1>8. CASE Tick
  <2>1. jobs' = Ticked /\ job' = Sooner(job) /\ reading' = reading /\ listed' = listed
    BY <1>8 DEF Tick, Ticked
  <2>2. PICK ks : ks = Ticked
    OBVIOUS
  <2>3. DOMAIN ks = DOMAIN jobs /\ \A k \in DOMAIN jobs : ks[k] = Sooner(jobs[k])
    BY <1>1, <2>2, TickedIs DEF SameJobs
  <2> SUFFICES ASSUME ~reading, listed # 0, NEW k \in DOMAIN jobs PROVE job'.wait <= ks[k].wait
    BY <2>1, <2>2, <2>3 DEF First
  <2>4. jobs[k] \in Jobs
    BY <1>1
  <2>5. PICK v \in Int, u \in Int : v = jobs[k].wait /\ u = job.wait
    BY <1>1, <2>4 DEF Jobs, Waits
  <2>6. job'.wait = Most(u - 1, -Horizon) /\ ks[k].wait = Most(v - 1, -Horizon)
    BY <1>1, <2>1, <2>3, <2>4, <2>5, SoonerIs
  <2>7. u <= v
    BY <2>5 DEF First
  <2> QED
    BY <2>6, <2>7, Parameters DEF Most
<1> QED
  BY <1>3, <1>4, <1>5, <1>6, <1>7, <1>8 DEF ReadsNext, RunLoop

\* What an item may reach: RefreshedInTime's bound, but for its own Read.
Allowed == StaleAfter + (CeilDiv(Cardinality(Subscribed), ReadChunk) + failedReads) * Delay

\* A silent item waits with those at least as old, or its Read is under way.
AsOld(h) == {g \in monitored : age[h] <= age[g]}
Waiting(h) == Read(AsOld(h) \ Range(wanted), age[h], Left(jobs), Delay, Allowed + Delay)
BeingRead(h) ==
    /\ age[h] <= Allowed + spent
    /\ Read(AsOld(h), age[h], Left(jobs), Delay, Allowed + Delay + Delay)
AllInTime == \A h \in monitored : Silent(h) => IF h \in Range(wanted) THEN BeingRead(h) ELSE Waiting(h)

\* Ages beyond Horizon are not told apart: there the bound holds as it is none.
InTime ==
    monitored # {} =>
        /\ Sweep.wait <= Sweep.period /\ \A h \in monitored : age[h] <= Horizon
        /\ Allowed + Longest < Horizon => OnTime(jobs, Remaining) /\ AllInTime

\* The items a full sweep of all of them reads, and what that may take.
LEMMA Measures ==
    ASSUME Ways, monitored # {}
    PROVE  \E n \in Nat, p \in Nat, t \in Nat, w \in Int, s \in Nat :
             /\ n = CeilDiv(Cardinality(Subscribed), ReadChunk) /\ LeftBy(monitored, n)
             /\ Delay = p + t /\ Left(jobs) = w + t /\ w = Sweep.wait /\ p = Sweep.period /\ Sweep.kind = "sweep"
             /\ s = n * Delay /\ Delay <= s
             /\ \E f \in Nat : f = failedReads * Delay /\ Allowed = StaleAfter + s + f
<1>1. jobs \in Seq(Jobs) /\ jobs # <<>> /\ monitored = Subscribed /\ Subscribed # {} /\ failedReads \in Nat
  BY DEF Ways, ReadsTypes
<1>2. IsFiniteSet(Subscribed)
  BY Parameters, FS_Subset
<1>3. PICK c \in Nat, n \in Nat : c = Cardinality(Subscribed) /\ n = CeilDiv(c, ReadChunk)
  BY <1>2, FS_CardinalityType, CeilIs, Parameters
<1>4. c <= n * ReadChunk /\ c # 0
  <2>1. c <= n * ReadChunk
    BY <1>3, CeilIs, Parameters
  <2>2. c # 0
    BY <1>1, <1>2, <1>3, FS_EmptySet
  <2> QED
    BY <2>1, <2>2
<1>5. n # 0
  <2> SUFFICES ASSUME n = 0 PROVE FALSE
    OBVIOUS
  <2>1. n * ReadChunk = 0
    BY Parameters
  <2> QED
    BY <1>4, <2>1
<1>6. PICK l \in Nat \ {0}, w \in Int, t \in Nat, b \in Nat : Sizes(jobs, l, w, t, b)
  BY <1>1, SizesAre
<1>7. Sweep.kind = "sweep" /\ Sweep.period = SweepPeriod(c)
  BY <1>3 DEF Ways, Shape, Sweep
<1>8. PICK p \in Nat : p = SweepPeriod(c)
  BY PeriodIs
<1>9. PICK d \in Nat : d = Delay /\ d = p + t
  BY <1>3, <1>6, <1>8 DEF Delay, Sizes
<1>10. PICK s \in Nat : s = n * d
  BY Times
<1>11. d <= s
  <2>1. 0 < n
    BY <1>5
  <2>2. 0 * d + d <= n * d
    BY <2>1, TimesLess
  <2> QED
    BY <1>10, <2>2
<1>12. PICK f \in Nat : f = failedReads * d
  BY <1>1, Times
<1>13. Allowed = StaleAfter + s + f
  <2>1. (n + failedReads) * d = n * d + failedReads * d
    BY <1>1, Times
  <2>2. Allowed = StaleAfter + (n + failedReads) * d
    BY <1>3, <1>9 DEF Allowed
  <2> QED
    BY <1>10, <1>12, <2>1, <2>2, Parameters
<1>14. LeftBy(monitored, n) /\ n = CeilDiv(Cardinality(Subscribed), ReadChunk)
  BY <1>1, <1>2, <1>3, <1>4 DEF LeftBy
<1>15. Left(jobs) = w + t /\ w = Sweep.wait
  BY <1>6 DEF Sizes, Sweep
<1> QED
  BY <1>7, <1>8, <1>9, <1>10, <1>11, <1>12, <1>13, <1>14, <1>15

LEMMA Steady ==
    ASSUME Len(jobs') = Len(jobs)
    PROVE  Delay' = Delay /\ (failedReads' = failedReads => Allowed' = Allowed)
<1>1. Delay' = Delay
  BY DEF Delay
<1> QED
  BY <1>1 DEF Allowed

\* What the steps below use of the numbers.
LEMMA Known ==
    ASSUME Ways, InTime, monitored # {}
    PROVE  /\ Delay \in Nat /\ Allowed \in Nat /\ Left(jobs) \in Int /\ Left(jobs) <= Delay
           /\ StaleAfter + Delay <= Allowed
           /\ monitored \subseteq Items /\ IsFiniteSet(monitored)
           /\ 0 <= Left(jobs) /\ Allowed < Horizon => -Horizon < Sweep.wait
<1>1. PICK n \in Nat, p \in Nat, t \in Nat, w \in Int, s \in Nat :
             /\ n = CeilDiv(Cardinality(Subscribed), ReadChunk) /\ LeftBy(monitored, n)
             /\ Delay = p + t /\ Left(jobs) = w + t /\ w = Sweep.wait /\ p = Sweep.period /\ Sweep.kind = "sweep"
             /\ s = n * Delay /\ Delay <= s
             /\ \E f \in Nat : f = failedReads * Delay /\ Allowed = StaleAfter + s + f
  BY Measures
<1>2. PICK f \in Nat : Allowed = StaleAfter + s + f
  BY <1>1
<1>3. w <= p
  BY <1>1 DEF InTime
<1>4. StaleAfter \in Nat /\ Horizon \in Nat
  BY Parameters
<1>5. Delay \in Nat /\ Allowed \in Nat /\ Left(jobs) \in Int /\ Left(jobs) <= Delay /\ StaleAfter + Delay <= Allowed
  BY <1>1, <1>2, <1>3, <1>4
<1>6. 0 <= Left(jobs) /\ Allowed < Horizon => -Horizon < w
  BY <1>1, <1>2, <1>4
<1>7. monitored \subseteq Items /\ IsFiniteSet(monitored)
  BY <1>1, Parameters DEF Ways, ReadsTypes, LeftBy
<1> QED
  BY <1>1, <1>5, <1>6, <1>7

\* Nothing but updates, and a Read that takes up no subscribed item and puts none of those it
\* was to read back unread.
LEMMA CalmStep ==
    ASSUME Ways, InTime, monitored # {}, AllInTime, UNCHANGED <<monitored, failedReads>>,
           Len(jobs') = Len(jobs), Left(jobs') = Left(jobs),
           \A h \in monitored : age'[h] = age[h] \/ age'[h] = 0,
           \A h \in monitored : h \in Range(wanted') => h \in Range(wanted) /\ spent' = spent,
           \A h \in monitored : age'[h] # 0 /\ h \in Range(wanted) => h \in Range(wanted')
    PROVE  AllInTime'
<1> SUFFICES ASSUME NEW h \in monitored, StaleAfter <= age'[h]
             PROVE  /\ h \in Range(wanted') => BeingRead(h)'
                    /\ h \notin Range(wanted') => Waiting(h)'
  BY DEF AllInTime, Silent
<1>1. Delay' = Delay /\ Allowed' = Allowed
  BY Steady
<1>2. Delay \in Nat /\ Allowed \in Nat /\ Left(jobs) \in Int /\ monitored \subseteq Items
  BY Known
<1>3. \A g \in monitored : age[g] \in Nat
  BY <1>2 DEF Ways, ReadsTypes
<1>4. StaleAfter \in Nat /\ 0 < StaleAfter
  BY Parameters
<1>5. \A g \in monitored : age'[h] <= age'[g] => age'[g] = age[g] /\ age'[g] # 0
  BY <1>3, <1>4
<1>6. age'[h] = age[h] /\ age'[h] # 0 /\ age'[h] <= age'[h] /\ age[h] \in Int
  BY <1>3, <1>4
<1>7. PICK S, T : S = AsOld(h) /\ T = {g \in monitored : age'[h] <= age'[g]}
  OBVIOUS
<1>8. AsOld(h)' = T
  BY <1>7 DEF AsOld
<1>9. \A g \in T : g \in S /\ (g \in Range(wanted) => g \in Range(wanted'))
  BY <1>5, <1>6, <1>7 DEF AsOld
<1>10. Silent(h)
  BY <1>6 DEF Silent
<1>11. ASSUME h \in Range(wanted') PROVE BeingRead(h)'
  <2>1. h \in Range(wanted) /\ spent' = spent
    BY <1>11
  <2>2. age[h] <= Allowed + spent /\ Read(S, age[h], Left(jobs), Delay, Allowed + Delay + Delay)
    BY <1>7, <1>10, <2>1 DEF AllInTime, BeingRead
  <2>3. PICK late \in Int : late = Allowed + Delay + Delay
    BY <1>2
  <2>4. Read(T, age[h], Left(jobs), Delay, late)
    BY <1>2, <1>6, <1>9, <2>2, <2>3, ReadSooner
  <2> QED
    BY <1>1, <1>6, <1>8, <2>1, <2>2, <2>3, <2>4 DEF BeingRead
<1>12. ASSUME h \notin Range(wanted') PROVE Waiting(h)'
  <2>1. h \notin Range(wanted)
    BY <1>6, <1>12
  <2>2. PICK late \in Int : late = Allowed + Delay
    BY <1>2
  <2>3. Read(S \ Range(wanted), age[h], Left(jobs), Delay, late)
    BY <1>7, <1>10, <2>1, <2>2 DEF AllInTime, Waiting
  <2>4. PICK U, V : U = S \ Range(wanted) /\ V = T \ Range(wanted')
    OBVIOUS
  <2>5. V \subseteq U
    BY <1>9, <2>4
  <2>6. Read(V, age[h], Left(jobs), Delay, late)
    BY <1>2, <1>6, <2>2, <2>3, <2>4, <2>5, ReadSooner
  <2> QED
    BY <1>1, <1>6, <1>8, <2>2, <2>4, <2>6 DEF Waiting
<1> QED
  BY <1>11, <1>12

\* A job's requests are over and the loop came round: what AllInTime says is left to show.
LEMMA EndedInTime ==
    ASSUME Ways, InTime, monitored # {}, DueAlike(jobs, jobs'), jobs'[Len(jobs')].period = Sweep.period,
           monitored' = monitored, failedReads' \in Nat, failedReads <= failedReads', Finished,
           \A h \in monitored : age'[h] <= Horizon,
           OnTime(jobs, Remaining) /\ AllInTime /\ Allowed + Longest < Horizon => AllInTime'
    PROVE  InTime'
<1>1. jobs \in Seq(Jobs) /\ jobs # <<>> /\ spent \in 0 .. Longest /\ reading \in BOOLEAN /\ failedReads \in Nat
  BY DEF Ways, ReadsTypes
<1>2. Len(jobs') = Len(jobs) /\ jobs'[Len(jobs')].wait = Sweep.wait
  <2>1. Len(jobs) \in DOMAIN jobs
    BY <1>1
  <2> QED
    BY <2>1 DEF DueAlike, Sweep
<1>3. Delay' = Delay /\ Delay \in Nat /\ Allowed \in Nat
  BY <1>2, Steady, Known
<1>4. Allowed <= Allowed'
  <2>1. PICK n \in Nat : n = CeilDiv(Cardinality(Subscribed), ReadChunk)
    BY Measures
  <2>2. (n + failedReads) * Delay <= (n + failedReads') * Delay
    <3>1. PICK a \in Int, b \in Int, d \in Nat : a = n + failedReads /\ b = n + failedReads' /\ d = Delay /\ a <= b
      BY <1>1, <1>3, <2>1
    <3>2. a * d <= b * d
      BY <3>1, Times
    <3> QED
      BY <3>1, <3>2
  <2>3. PICK x \in Int, y \in Int : x = (n + failedReads) * Delay /\ y = (n + failedReads') * Delay
    BY <1>1, <1>3, <2>1, Times
  <2>4. Allowed = StaleAfter + x /\ Allowed' = StaleAfter + y
    BY <1>3, <2>1, <2>3 DEF Allowed
  <2> QED
    BY <2>2, <2>3, <2>4, Parameters
<1>5. Allowed' \in Int
  <2>1. PICK n \in Nat : n = CeilDiv(Cardinality(Subscribed), ReadChunk)
    BY Measures
  <2>2. PICK y \in Int : y = (n + failedReads') * Delay
    BY <1>3, <2>1, Times
  <2>3. Allowed' = StaleAfter + y
    BY <1>3, <2>1, <2>2 DEF Allowed
  <2> QED
    BY <2>2, <2>3, Parameters
<1>6. PICK r \in Int : r = Remaining /\ 0 <= r
  BY <1>1, Parameters DEF Remaining
<1>7. Remaining' = 0
  BY DEF Finished, Remaining
<1>8. ASSUME Allowed' + Longest < Horizon PROVE OnTime(jobs', 0) /\ AllInTime'
  <2>1. Allowed + Longest < Horizon
    <3>1. PICK x \in Int, y \in Int : x = Allowed /\ y = Allowed'
      BY <1>3, <1>5
    <3>2. x <= y /\ y + Longest < Horizon /\ Longest \in Int /\ Horizon \in Int
      <4>1. x <= y
        BY <1>4, <3>1
      <4>2. y + Longest < Horizon
        BY <1>8, <3>1
      <4> QED
        BY <4>1, <4>2, Parameters
    <3>3. x + Longest < Horizon
      BY <3>2
    <3> QED
      BY <3>1, <3>3
  <2>2. OnTime(jobs, r) /\ AllInTime
    BY <1>6, <2>1 DEF InTime
  <2>3. OnTime(jobs', 0)
    BY <1>1, <1>6, <2>2, OnTimeAlike
  <2> QED
    BY <1>6, <2>1, <2>2, <2>3
<1>9. Sweep' = jobs'[Len(jobs')]
  BY DEF Sweep
<1>10. jobs'[Len(jobs')].wait <= jobs'[Len(jobs')].period
  BY <1>2 DEF InTime
<1>11. OnTime(jobs, Remaining)' <=> OnTime(jobs', 0)
  BY <1>7 DEF OnTime, Left, Before
<1> QED
  BY <1>8, <1>9, <1>10, <1>11 DEF InTime

\* A request that is no sweep's names no subscribed item.
LEMMA NotSwept ==
    ASSUME Ways, reading, monitored # {}, job.kind # "sweep"
    PROVE  \A h \in monitored : h \notin Range(wanted)
<1>1. job.kind \in {"health", "chunk", "sweep"} /\ listed # 0 /\ job = jobs[listed] /\ wanted = job.targets
      /\ listed \in DOMAIN jobs
  BY SMTT(20) DEF Ways, ReadsTypes, Running, Jobs
<1>2. CASE job.kind = "chunk"
  BY <1>2, ChunkApart
<1>3. CASE job.kind = "health"
  <2>1. wanted = <<>>
    BY <1>1, <1>3 DEF Ways, Shape
  <2> QED
    BY <2>1 DEF Range
<1> QED
  BY <1>1, <1>2, <1>3

LEMMA HealthReadInTime == ASSUME Ways, InTime, HealthRead PROVE InTime'
<1>1. jobs' = jobs /\ Finished /\ UNCHANGED <<monitored, stale, age, dropped, failedReads>> /\ reading
      /\ job.kind = "health" /\ wanted' = <<>>
  BY DEF HealthRead, Turn, Finished
<1> SUFFICES ASSUME monitored # {} PROVE InTime'
  BY <1>1 DEF InTime
<1>2. DueAlike(jobs, jobs') /\ Len(jobs') = Len(jobs) /\ Left(jobs') = Left(jobs)
      /\ jobs'[Len(jobs')].period = Sweep.period
  BY <1>1 DEF DueAlike, Sweep
<1>3. \A h \in monitored : h \notin Range(wanted) /\ h \notin Range(wanted')
  <2>1. Range(wanted') = {}
    BY <1>1 DEF Range
  <2> QED
    BY <1>1, <2>1, NotSwept
<1>4. \A h \in monitored : age'[h] = age[h]
  BY <1>1
<1>5. AllInTime => AllInTime'
  BY <1>1, <1>2, <1>3, <1>4, CalmStep
<1>6. failedReads' \in Nat /\ failedReads <= failedReads' /\ \A h \in monitored : age'[h] <= Horizon
  BY <1>1, <1>4 DEF Ways, ReadsTypes, InTime
<1> QED
  BY <1>1, <1>2, <1>5, <1>6, EndedInTime

\* A pruned chunk is due when it was.
LEMMA PrunedAlike ==
    ASSUME Ways, NEW bad
    PROVE  DueAlike(jobs, Pruned(bad)) /\ Pruned(bad)[Len(jobs)].period = Sweep.period
<1>1. PICK n \in Nat : n = Len(jobs) /\ DOMAIN jobs = 1 .. n /\ n # 0
  BY DEF Ways, ReadsTypes
<1>2. \A k \in 1 .. n : jobs[k] \in Jobs
  BY <1>1 DEF Ways, ReadsTypes
<1>3. PICK ks : ks = Pruned(bad)
  OBVIOUS
<1>4. ks = [i \in 1 .. n |-> IF i # listed THEN jobs[i]
                 ELSE [jobs[i] EXCEPT !.targets = Kept(@, Items \ bad)]]
  BY <1>1, <1>3 DEF Pruned
<1>5. \A k \in 1 .. n : ks[k].wait = jobs[k].wait /\ ks[k].period = jobs[k].period
  <2> SUFFICES ASSUME NEW k \in 1 .. n PROVE ks[k].wait = jobs[k].wait /\ ks[k].period = jobs[k].period
    OBVIOUS
  <2>1. CASE k # listed
    BY <1>4, <2>1
  <2>2. CASE k = listed
    <3>1. ks[k] = [jobs[k] EXCEPT !.targets = Kept(@, Items \ bad)]
      BY <1>4, <2>2
    <3> QED
      BY <1>2, <3>1 DEF Jobs
  <2> QED
    BY <2>1, <2>2
<1>6. DOMAIN ks = 1 .. n /\ Len(ks) = n
  <2>1. DOMAIN ks = 1 .. n
    BY <1>4
  <2>2. ks = [k \in 1 .. n |-> ks[k]]
    BY <1>4
  <2> QED
    BY <2>1, <2>2
<1> QED
  BY <1>1, <1>3, <1>5, <1>6 DEF DueAlike, Sweep

LEMMA ChunkReadInTime == ASSUME Ways, InTime, ChunkRead PROVE InTime'
<1>1. /\ reading /\ job.kind = "chunk" /\ Finished /\ UNCHANGED <<monitored, stale, failedReads>>
      /\ age' = [i \in Items |-> IF i \in Range(wanted) THEN 0 ELSE age[i]] /\ wanted' = <<>>
  BY DEF ChunkRead, Finished
<1> SUFFICES ASSUME monitored # {} PROVE InTime'
  BY <1>1 DEF InTime
<1>2. PICK bad : Turn(Pruned(bad))
  BY DEF ChunkRead, Pruned
<1>3. jobs' = Pruned(bad)
  BY <1>2 DEF Turn
<1>4. DueAlike(jobs, jobs') /\ jobs'[Len(jobs)].period = Sweep.period
  BY <1>3, PrunedAlike
<1>5. Len(jobs') = Len(jobs)
  BY <1>4 DEF DueAlike
<1>6. jobs \in Seq(Jobs) /\ jobs # <<>> /\ 0 \in Int /\ 0 <= 0
  BY DEF Ways, ReadsTypes
<1>7. Left(jobs') = Left(jobs)
  BY <1>4, <1>6, OnTimeAlike
<1>8. \A h \in monitored : h \notin Range(wanted) /\ h \notin Range(wanted')
  <2>1. Range(wanted') = {}
    BY <1>1 DEF Range
  <2> QED
    BY <1>1, <2>1, NotSwept
<1>9. \A h \in monitored : age'[h] = age[h]
  <2>1. monitored \subseteq Items
    BY Known
  <2> QED
    BY <1>1, <1>8, <2>1
<1>10. AllInTime => AllInTime'
  BY <1>1, <1>5, <1>7, <1>8, <1>9, CalmStep
<1>12. failedReads' \in Nat /\ failedReads <= failedReads'
  BY <1>1 DEF Ways, ReadsTypes
<1>13. \A h \in monitored : age[h] <= Horizon
  BY DEF InTime
<1>11. failedReads' \in Nat /\ failedReads <= failedReads' /\ \A h \in monitored : age'[h] <= Horizon
  BY <1>9, <1>12, <1>13
<1> QED
  BY <1>1, <1>4, <1>5, <1>10, <1>11, EndedInTime

LEMMA SweepReadInTime == ASSUME Ways, InTime, SweepRead PROVE InTime'
<1>1. jobs' = jobs /\ Finished /\ UNCHANGED <<monitored, dropped, failedReads>> /\ reading /\ wanted' = <<>>
      /\ age' = [i \in Items |-> IF i \in Range(StillStale) THEN 0 ELSE age[i]]
  BY DEF SweepRead, Turn, Finished, Touched
<1> SUFFICES ASSUME monitored # {} PROVE InTime'
  BY <1>1 DEF InTime
<1>2. DueAlike(jobs, jobs') /\ Len(jobs') = Len(jobs) /\ Left(jobs') = Left(jobs)
      /\ jobs'[Len(jobs')].period = Sweep.period
  BY <1>1 DEF DueAlike, Sweep
<1>3. Range(StillStale) = Range(wanted) \cap monitored
  <2>1. wanted \in Seq(Items) /\ Range(stale) = monitored
    BY DEF Ways, ReadsTypes, OneWay
  <2> QED
    BY <2>1, KeptIs DEF StillStale
<1>4. monitored \subseteq Items
  BY Known
<1>5. \A h \in monitored : age'[h] = IF h \in Range(wanted) THEN 0 ELSE age[h]
  BY <1>1, <1>3, <1>4
<1>6. Range(wanted') = {}
  BY <1>1 DEF Range
<1>7. \A h \in monitored : age'[h] = age[h] \/ age'[h] = 0
  BY <1>5
<1>8. \A h \in monitored : age'[h] # 0 /\ h \in Range(wanted) => h \in Range(wanted')
  BY <1>5
<1>9. AllInTime => AllInTime'
  BY <1>1, <1>2, <1>6, <1>7, <1>8, CalmStep
<1>10. failedReads' \in Nat /\ failedReads <= failedReads'
  BY <1>1 DEF Ways, ReadsTypes
<1>11. \A h \in monitored : age'[h] <= Horizon
  BY <1>7, Parameters DEF InTime
<1> QED
  BY <1>1, <1>2, <1>9, <1>10, <1>11, EndedInTime

LEMMA DeliverInTime == ASSUME Ways, InTime, Deliver PROVE InTime'
<1>1. UNCHANGED <<monitored, jobs, wanted, reading, spent, failedReads>>
  BY DEF Deliver, schedule, request
<1>2. \A h \in Items : age'[h] = age[h] \/ age'[h] = 0
  BY DEF Deliver, Touched
<1> SUFFICES ASSUME monitored # {} PROVE InTime'
  BY <1>1 DEF InTime
<1>3. monitored \subseteq Items
  BY Known
<1>4. Len(jobs') = Len(jobs) /\ Left(jobs') = Left(jobs)
  BY <1>1
<1>5. \A h \in monitored : age'[h] = age[h] \/ age'[h] = 0
  BY <1>2, <1>3
<1>6. AllInTime => AllInTime'
  BY <1>1, <1>4, <1>5, CalmStep
<1>7. \A h \in monitored : age'[h] <= Horizon
  BY <1>5, Parameters DEF InTime
<1>8. Allowed' = Allowed
  BY <1>1, <1>4, Steady
<1>9. OnTime(jobs, Remaining)' <=> OnTime(jobs, Remaining)
  BY <1>1 DEF Remaining, OnTime, Left, Before
<1> QED
  BY <1>1, <1>6, <1>7, <1>8, <1>9 DEF InTime, Sweep

\* A Read that failed puts its items off by one sweep.
LEMMA ReadFailsInTime == ASSUME Ways, InTime, ReadFails PROVE InTime'
<1>1. jobs' = jobs /\ Finished /\ UNCHANGED <<monitored, stale, age, dropped>> /\ reading /\ wanted' = <<>>
      /\ failedReads' = failedReads + 1
  BY DEF ReadFails, ReadFault, Turn, Finished
<1> SUFFICES ASSUME monitored # {} PROVE InTime'
  BY <1>1 DEF InTime
<1>2. DueAlike(jobs, jobs') /\ Len(jobs') = Len(jobs) /\ Left(jobs') = Left(jobs)
      /\ jobs'[Len(jobs')].period = Sweep.period
  BY <1>1 DEF DueAlike, Sweep
<1>3. Delay' = Delay /\ Delay \in Nat /\ Allowed \in Nat /\ Left(jobs) \in Int
      /\ monitored \subseteq Items /\ IsFiniteSet(monitored)
  BY <1>2, Steady, Known
<1>4. Allowed' = Allowed + Delay
  <2>1. PICK n \in Nat : n = CeilDiv(Cardinality(Subscribed), ReadChunk)
    BY Measures
  <2>7. failedReads \in Nat
    BY DEF Ways, ReadsTypes
  <2>2. PICK m \in Nat : m = n + failedReads /\ n + failedReads' = m + 1
    BY <1>1, <2>7
  <2>3. PICK x \in Int : x = m * Delay
    BY <1>3, <2>2, Times
  <2>4. (m + 1) * Delay = m * Delay + Delay
    BY <1>3, <2>2, TimesNext
  <2>5. Allowed = StaleAfter + x
    BY <2>1, <2>2, <2>3 DEF Allowed
  <2>6. Allowed' = StaleAfter + (m + 1) * Delay
    BY <1>3, <2>1, <2>2 DEF Allowed
  <2> QED
    BY <1>3, <2>3, <2>4, <2>5, <2>6, Parameters
<1>5. Range(wanted') = {}
  BY <1>1 DEF Range
<1>6. \A h \in monitored : age[h] \in Nat
  BY <1>3 DEF Ways, ReadsTypes
<1>7. PICK late \in Int, end \in Int : late = Allowed + Delay /\ end = late + Delay
  BY <1>3
<1>8. ASSUME AllInTime, NEW h \in monitored, Silent(h)
      PROVE  Read(AsOld(h), age[h], Left(jobs), Delay, end)
  <2>1. PICK S : S = AsOld(h)
    OBVIOUS
  <2>2. IsFiniteSet(S) /\ S \subseteq monitored
    BY <1>3, <2>1, FS_Subset DEF AsOld
  <2>3. CASE h \in Range(wanted)
    BY <1>7, <1>8, <2>3 DEF AllInTime, BeingRead
  <2>4. CASE h \notin Range(wanted)
    <3>1. Read(S \ Range(wanted), age[h], Left(jobs), Delay, late)
      BY <1>7, <1>8, <2>1, <2>4 DEF AllInTime, Waiting
    <3>2. CASE job.kind = "sweep"
      <4>1. Distinct(wanted) /\ Len(wanted) <= ReadChunk /\ wanted \in Seq(Items)
        BY <1>1, <3>2 DEF Ways, Running, ReadsTypes
      <4>2. IsFiniteSet(Range(wanted)) /\ Cardinality(Range(wanted)) <= ReadChunk
        BY <4>1, DistinctCount
      <4>3. Read(S, age[h], Left(jobs), Delay, late + Delay)
        BY <1>3, <1>6, <2>2, <3>1, <4>2, ReadOnceMore
      <4> QED
        BY <1>7, <2>1, <4>3
    <3>3. CASE job.kind # "sweep"
      <4>1. S \subseteq S \ Range(wanted)
        BY <1>1, <2>2, <3>3, NotSwept
      <4>2. age[h] + Left(jobs) - end <= age[h] + Left(jobs) - late /\ age[h] \in Int
        BY <1>3, <1>6, <1>7
      <4>3. PICK U : U = S \ Range(wanted)
        OBVIOUS
      <4>4. Read(S, age[h], Left(jobs), Delay, end)
        BY <1>3, <1>7, <3>1, <4>1, <4>2, <4>3, ReadSooner
      <4> QED
        BY <2>1, <4>4
    <3> QED
      BY <3>2, <3>3
  <2> QED
    BY <2>3, <2>4
<1>9. ASSUME AllInTime PROVE AllInTime'
  <2> SUFFICES ASSUME NEW h \in monitored, Silent(h) PROVE h \notin Range(wanted') /\ Waiting(h)'
    BY <1>1 DEF AllInTime, Silent
  <2>1. AsOld(h)' = AsOld(h)
    BY <1>1 DEF AsOld
  <2>2. AsOld(h)' \ Range(wanted') = AsOld(h)
    BY <1>5, <2>1
  <2>3. Read(AsOld(h), age[h], Left(jobs), Delay, end) /\ end = (Allowed + Delay) + Delay
    BY <1>7, <1>8, <1>9
  <2>4. Waiting(h)'
    BY <1>1, <1>2, <1>3, <1>4, <2>2, <2>3 DEF Waiting
  <2> QED
    BY <1>5, <2>4
<1>10. failedReads' \in Nat /\ failedReads <= failedReads' /\ \A h \in monitored : age'[h] <= Horizon
  BY <1>1 DEF Ways, ReadsTypes, InTime
<1> QED
  BY <1>1, <1>2, <1>9, <1>10, EndedInTime

\* The job that is run: put off by its period, or to now; and what it reads.
LEMMA RunJobDoes ==
    ASSUME Ways, RunJob, monitored # {}
    PROVE  /\ ~reading /\ UNCHANGED <<monitored, stale, age, dropped, failedReads>>
           /\ jobs' = Rescheduled /\ job.wait <= 0 /\ listed \in DOMAIN jobs /\ job = jobs[listed]
           /\ (job.kind = "sweep" <=> listed = Len(jobs))
           /\ job.kind = "sweep" => wanted' = SilentFront /\ spent' = 0
           /\ job.kind # "sweep" => (\A h \in monitored : h \notin Range(wanted'))
           /\ Remaining' \in Int /\ Remaining' <= Longest
<1>1. PICK targets : targets = CASE job.kind = "sweep" -> SilentFront [] OTHER -> job.targets
  OBVIOUS
<1>2. /\ ~reading /\ UNCHANGED <<monitored, stale, age, dropped, failedReads>> /\ job.wait <= 0
      /\ \/ Turn(Rescheduled) /\ UNCHANGED <<wanted, reading, spent>> /\ targets = <<>>
         \/ /\ jobs' = Rescheduled /\ job' = Again(job) /\ listed' = listed
            /\ wanted' = targets /\ reading' = TRUE /\ spent' = 0
  BY <1>1 DEF RunJob, request
<1>3. wanted = <<>> /\ spent = 0 /\ listed # 0 /\ job = jobs[listed] /\ listed \in DOMAIN jobs
      /\ job \in Jobs /\ Len(jobs) \in DOMAIN jobs
  BY <1>2 DEF Ways, Running, ReadsTypes
<1>4. wanted' = targets /\ spent' = 0 /\ jobs' = Rescheduled
  BY <1>2, <1>3 DEF Turn
<1>5. job.kind = "sweep" <=> listed = Len(jobs)
  BY <1>3 DEF Ways, Shape
<1>6. job.kind # "sweep" => targets = job.targets
  BY <1>1
<1>7. job.kind # "sweep" => (\A h \in monitored : h \notin Range(wanted'))
  <2> SUFFICES ASSUME job.kind # "sweep", NEW h \in monitored, h \in Range(job.targets) PROVE FALSE
    BY <1>4, <1>6
  <2>1. CASE job.kind = "chunk"
    <3>1. listed \in PolledIn(jobs, h)
      BY <1>3, <2>1 DEF PolledIn
    <3> QED
      BY <3>1 DEF Ways, OneWay, Shared
  <2>2. CASE job.kind = "health"
    <3>1. job.targets = <<>>
      BY <1>3, <2>2 DEF Ways, Shape
    <3> QED
      BY <3>1 DEF Range
  <2> QED
    BY <1>3, <2>1, <2>2 DEF Jobs
<1>8. Remaining' \in Int /\ Remaining' <= Longest
  <2>1. Remaining' = IF reading' THEN Longest - spent' ELSE 0
    BY DEF Remaining
  <2> QED
    BY <1>4, <2>1, Parameters
<1>9. job.kind = "sweep" => targets = SilentFront
  BY <1>1
<1> QED
  BY <1>2, <1>3, <1>4, <1>5, <1>7, <1>8, <1>9

LEMMA RunOtherInTime == ASSUME Ways, First, InTime, RunJob, monitored # {}, job.kind # "sweep" PROVE InTime'
<1>1. /\ ~reading /\ UNCHANGED <<monitored, stale, age, dropped, failedReads>>
      /\ jobs' = Rescheduled /\ listed \in DOMAIN jobs /\ job = jobs[listed] /\ listed # Len(jobs)
      /\ (\A h \in monitored : h \notin Range(wanted'))
      /\ Remaining' \in Int /\ Remaining' <= Longest
  BY RunJobDoes
<1>2. PICK ks : ks = Rescheduled
  OBVIOUS
<1>3. jobs \in Seq(Jobs) /\ jobs # <<>> /\ listed # 0 /\ ReadsTypes
  BY DEF Ways, Running, ReadsTypes
<1>4. SameJobs(jobs, ks) /\ \A k \in DOMAIN jobs : ks[k] = IF k = listed THEN Again(jobs[k]) ELSE jobs[k]
  BY <1>2, <1>3, RescheduledIs
<1>5. ks \in Seq(Jobs) /\ Len(ks) = Len(jobs) /\ DOMAIN ks = DOMAIN jobs /\ Len(jobs) \in DOMAIN jobs
  BY <1>3, <1>4 DEF SameJobs
<1>6. ks[Len(jobs)] = Sweep
  BY <1>1, <1>4, <1>5 DEF Sweep
<1>7. 0 <= ks[listed].wait
  <2>1. jobs[listed] \in Jobs
    BY <1>1, <1>3
  <2> QED
    BY <1>1, <1>4, <2>1, AgainIs
<1>8. \A k \in DOMAIN jobs : jobs[listed].wait <= jobs[k].wait
  BY <1>1, <1>3 DEF First
<1>9. \A k \in DOMAIN jobs : k # listed => ks[k].wait = jobs[k].wait
  BY <1>4
<1>10. PICK r \in Int : r = Remaining' /\ r <= Longest
  BY <1>1
<1>11. Len(jobs') = Len(jobs) /\ jobs' = ks
  BY <1>1, <1>2, <1>5
<1>12. Allowed' = Allowed
  BY <1>1, <1>11, Steady
<1>13. ASSUME Allowed + Longest < Horizon PROVE OnTime(ks, r) /\ AllInTime'
  <2>1. OnTime(jobs, Remaining) /\ AllInTime /\ Remaining = 0
    BY <1>1, <1>13 DEF InTime, Remaining
  <2>2. OnTime(jobs, 0)
    BY <2>1
  <2>3. Left(ks) = Left(jobs) /\ OnTime(ks, r)
    BY <1>1, <1>3, <1>5, <1>7, <1>8, <1>9, <1>10, <2>2, OnTimeRun
  <2>4. Range(wanted) = {}
    BY <1>1 DEF Ways, Running, Range
  <2>5. \A h \in monitored : age'[h] = age[h]
    BY <1>1
  <2>6. AllInTime'
    BY <1>1, <1>11, <2>1, <2>3, <2>4, <2>5, CalmStep
  <2> QED
    BY <2>3, <2>6
<1>14. OnTime(jobs, Remaining)' <=> OnTime(ks, r)
  BY <1>10, <1>11 DEF OnTime, Left, Before
<1>15. Sweep' = Sweep
  BY <1>6, <1>11 DEF Sweep
<1> QED
  BY <1>1, <1>12, <1>13, <1>14, <1>15 DEF InTime

LEMMA RunSweepInTime == ASSUME Ways, First, InTime, RunJob, monitored # {}, job.kind = "sweep" PROVE InTime'
<1>1. /\ ~reading /\ UNCHANGED <<monitored, stale, age, dropped, failedReads>>
      /\ jobs' = Rescheduled /\ listed \in DOMAIN jobs /\ job = jobs[listed] /\ listed = Len(jobs)
      /\ job.wait <= 0 /\ wanted' = SilentFront /\ spent' = 0
      /\ Remaining' \in Int /\ Remaining' <= Longest
  BY RunJobDoes
<1>2. PICK ks : ks = Rescheduled
  OBVIOUS
<1>3. jobs \in Seq(Jobs) /\ jobs # <<>> /\ ReadsTypes /\ OneWay /\ InOrder
      /\ stale \in Seq(Items) /\ age \in [Items -> Nat]
  BY DEF Ways, ReadsTypes
<1>4. SameJobs(jobs, ks) /\ \A k \in DOMAIN jobs : ks[k] = IF k = listed THEN Again(jobs[k]) ELSE jobs[k]
  BY <1>2, <1>3, RescheduledIs
<1>5. ks \in Seq(Jobs) /\ Len(ks) = Len(jobs) /\ Len(jobs) \in DOMAIN jobs /\ ks # <<>>
  BY <1>3, <1>4 DEF SameJobs
<1>6. Len(jobs') = Len(jobs) /\ jobs' = ks
  BY <1>1, <1>2, <1>5
<1>7. PICK n \in Nat, p \in Nat, t \in Nat, w \in Int, s \in Nat :
             /\ n = CeilDiv(Cardinality(Subscribed), ReadChunk) /\ LeftBy(monitored, n)
             /\ Delay = p + t /\ Left(jobs) = w + t /\ w = Sweep.wait /\ p = Sweep.period /\ Sweep.kind = "sweep"
             /\ s = n * Delay /\ Delay <= s
             /\ \E f \in Nat : f = failedReads * Delay /\ Allowed = StaleAfter + s + f
  BY Measures
<1>8. PICK v \in Nat : v = Most(w + p, 0)
  BY <1>7 DEF Most
<1>9. job = Sweep /\ w <= 0
  BY <1>1, <1>7 DEF Sweep
<1>10. ks[Len(jobs)] = Again(Sweep) /\ Again(Sweep) = [Sweep EXCEPT !.wait = v] /\ Sweep \in Jobs
  <2>1. ks[Len(jobs)] = Again(Sweep)
    BY <1>1, <1>4, <1>5 DEF Sweep
  <2>2. Sweep \in Jobs
    BY <1>3, <1>5 DEF Sweep
  <2>3. Again(Sweep) = [Sweep EXCEPT !.wait = v]
    BY <1>7, <1>8, <2>2 DEF Again, Jobs
  <2> QED
    BY <2>1, <2>2, <2>3
<1>11. ks[Len(ks)].wait = v /\ ks[Len(ks)].period = p
  BY <1>5, <1>7, <1>10 DEF Jobs
<1>12. Left(ks) = v + t
  <2>1. Left(ks) = v + Len(jobs) * Longest
    BY <1>5, <1>11 DEF Left
  <2>2. PICK m \in Int : m = Len(jobs) * Longest
    BY <1>3, Times, Parameters
  <2>3. Left(jobs) = w + m
    BY <1>7, <2>2 DEF Left, Sweep
  <2>4. Left(ks) = v + m /\ Left(jobs) = w + t
    BY <1>7, <2>1, <2>2
  <2> QED
    BY <2>3, <2>4
<1>13. PICK r \in Int : r = Remaining' /\ r <= Longest
  BY <1>1
<1>14. OnTime(ks, r)
  BY <1>5, <1>11, <1>13, OnTimeAhead
<1>15. Allowed' = Allowed /\ Delay' = Delay
  BY <1>1, <1>6, Steady
<1>16. Allowed \in Nat /\ Delay \in Nat /\ monitored \subseteq Items
  BY Known
<1>17. ASSUME Allowed + Longest < Horizon PROVE AllInTime'
  <2> SUFFICES ASSUME NEW h \in monitored, Silent(h)
               PROVE  /\ h \in Range(wanted') => BeingRead(h)'
                      /\ h \notin Range(wanted') => Waiting(h)'
    BY <1>1 DEF AllInTime, Silent
  <2>1. OnTime(jobs, Remaining) /\ AllInTime /\ Remaining = 0
    BY <1>1, <1>17 DEF InTime, Remaining
  <2>2. 0 <= Left(jobs)
    <3>1. OnTime(jobs, 0) /\ 0 \in Nat
      BY <2>1
    <3> QED
      BY <1>3, <3>1, OnTimeLeft
  <2>3. PICK l \in Nat, u \in Nat : l = Left(jobs) /\ u = Left(ks) /\ u <= l + Delay
    BY <1>7, <1>8, <1>9, <1>12, <2>2 DEF Most
  <2>4. h \in Items /\ age[h] \in Nat
    BY <1>3, <1>16
  <2>5. h \notin Range(wanted)
    BY <1>1 DEF Ways, Running, Range
  <2>6. PICK S : S = AsOld(h)
    OBVIOUS
  <2>7. h \in S /\ AsOld(h)' = S
    BY <1>1, <2>4, <2>6 DEF AsOld
  <2>8. PICK late \in Int, end \in Int : late = Allowed + Delay /\ end = late + Delay
    BY <1>16
  <2>9. AsOld(h) \ Range(wanted) = S
    BY <1>1, <2>6 DEF Ways, Running, Range
  <2>10. Read(S, age[h], l, Delay, late)
    BY <2>1, <2>3, <2>5, <2>8, <2>9 DEF AllInTime, Waiting
  <2>11. ASSUME h \in Range(wanted') PROVE BeingRead(h)'
    <3>1. age[h] + Delay <= late
      BY <1>16, <2>3, <2>4, <2>7, <2>8, <2>10, ReadBound
    <3>2. age[h] <= Allowed + 0
      BY <1>16, <2>4, <2>8, <3>1
    <3>3. Read(S, age[h], u, Delay, end)
      <4>1. age[h] + u - end <= age[h] + l - late
        BY <1>16, <2>3, <2>4, <2>8
      <4> QED
        BY <1>16, <2>3, <2>4, <2>8, <2>10, <4>1, ReadSooner
    <3> QED
      BY <1>1, <1>6, <1>15, <2>3, <2>7, <2>8, <3>2, <3>3 DEF BeingRead
  <2>12. ASSUME h \notin Range(wanted') PROVE Waiting(h)'
    <3>1. PICK m \in 0 .. Len(stale) :
             /\ SilentFront \in Seq(Items) /\ Len(SilentFront) = m /\ m <= ReadChunk
             /\ \A i \in 1 .. m : SilentFront[i] = stale[i] /\ Silent(stale[i])
             /\ m = ReadChunk \/ \A i \in DOMAIN stale : m < i => ~Silent(stale[i])
      BY <1>3, FrontIs DEF InOrder
    <3>2. PICK q : q = SilentFront
      OBVIOUS
    <3>3. q \in Seq(Items) /\ DOMAIN q = 1 .. m /\ Len(q) = m /\ Distinct(q) /\ wanted' = q
      BY <1>1, <1>3, <3>1, <3>2, SweptIs
    <3>4. PICK i \in DOMAIN stale : stale[i] = h
      BY <1>3 DEF OneWay, Range
    <3>5. m < i /\ i \in Nat
      <4> SUFFICES ASSUME ~(m < i) PROVE FALSE
        BY <1>3
      <4>1. i \in 1 .. m
        BY <1>3, <3>1
      <4>2. q[i] = h
        BY <3>1, <3>2, <3>4, <4>1
      <4> QED
        BY <2>12, <3>3, <4>1, <4>2 DEF Range
    <3>6. m = ReadChunk
      BY <3>1, <3>4, <3>5
    <3>7. PICK R : R = Range(q)
      OBVIOUS
    <3>8. Cardinality(R) = ReadChunk
      BY <3>3, <3>6, <3>7, DistinctCount
    <3>9. R \subseteq S
      <4> SUFFICES ASSUME NEW j \in 1 .. m PROVE q[j] \in S
        BY <3>3, <3>7 DEF Range
      <4>1. q[j] = stale[j] /\ j \in DOMAIN stale /\ j <= i
        BY <1>3, <3>1, <3>2, <3>5, SMTT(20)
      <4>2. age[stale[i]] <= age[stale[j]]
        BY <3>4, <4>1, <1>3 DEF InOrder
      <4>3. stale[j] \in monitored
        BY <1>3, <4>1 DEF OneWay, Range
      <4> QED
        BY <2>6, <3>4, <4>1, <4>2, <4>3 DEF AsOld
    <3>10. age[h] + u <= age[h] + l + Delay
      BY <1>16, <2>3, <2>4, SMTT(20)
    <3>11. Read(S \ R, age[h], u, Delay, late)
      <4>1. age[h] \in Int /\ l \in Int /\ u \in Int /\ late \in Int /\ Delay \in Nat
        BY <1>16, <2>3, <2>4, <2>8
      <4> QED
        BY <2>10, <3>8, <3>9, <3>10, <4>1, ReadOneSweep
    <3>12. AsOld(h)' \ Range(wanted') = S \ R
      BY <2>7, <3>3, <3>7
    <3> QED
      BY <1>1, <1>6, <1>15, <2>3, <2>8, <3>11, <3>12 DEF Waiting
  <2> QED
    BY <2>11, <2>12
<1>18. OnTime(jobs, Remaining)' <=> OnTime(ks, r)
  BY <1>6, <1>13 DEF OnTime, Left, Before
<1>19. Sweep' = ks[Len(ks)]
  BY <1>6 DEF Sweep
<1>20. v <= p
  BY <1>7, <1>8, <1>9 DEF Most
<1> QED
  BY <1>1, <1>11, <1>14, <1>15, <1>17, <1>18, <1>19, <1>20 DEF InTime

LEMMA TickInTime == ASSUME Ways, First, InTime, Tick, monitored # {} PROVE InTime'
<1>1. /\ IF reading THEN spent < Longest /\ spent' = spent + 1 ELSE job.wait > 0 /\ spent' = spent
      /\ jobs' = Ticked
      /\ age' = [i \in Items |-> IF i \in dropped THEN 0 ELSE Least(age[i] + 1, IF i \in monitored THEN Horizon ELSE 1)]
      /\ UNCHANGED <<monitored, stale, listed, wanted, reading, dropped, failedReads>>
  BY DEF Tick, Ticked
<1>2. jobs \in Seq(Jobs) /\ jobs # <<>> /\ ReadsTypes /\ spent \in 0 .. Longest /\ reading \in BOOLEAN
      /\ age \in [Items -> Nat] /\ Len(jobs) \in DOMAIN jobs
  BY DEF Ways, ReadsTypes
<1>3. PICK ks : ks = Ticked
  OBVIOUS
<1>4. SameJobs(jobs, ks) /\ \A k \in DOMAIN jobs : ks[k] = Sooner(jobs[k])
  BY <1>2, <1>3, TickedIs
<1>5. ks \in Seq(Jobs) /\ ks # <<>> /\ Len(ks) = Len(jobs) /\ DOMAIN ks = DOMAIN jobs
      /\ jobs' = ks /\ Len(jobs') = Len(jobs)
  BY <1>1, <1>2, <1>3, <1>4 DEF SameJobs
<1>6. \A k \in DOMAIN jobs : ks[k].wait = Most(jobs[k].wait - 1, -Horizon)
  <2>1. \A k \in DOMAIN jobs : jobs[k] \in Jobs
    BY <1>2
  <2> QED
    BY <1>4, <2>1, SoonerIs
<1>7. PICK n \in Nat, p \in Nat, t \in Nat, w \in Int, s \in Nat :
             /\ n = CeilDiv(Cardinality(Subscribed), ReadChunk) /\ LeftBy(monitored, n)
             /\ Delay = p + t /\ Left(jobs) = w + t /\ w = Sweep.wait /\ p = Sweep.period /\ Sweep.kind = "sweep"
             /\ s = n * Delay /\ Delay <= s
             /\ \E f \in Nat : f = failedReads * Delay /\ Allowed = StaleAfter + s + f
  BY Measures
<1>8. Allowed' = Allowed /\ Delay' = Delay
  BY <1>1, <1>5, Steady
<1>9. Allowed \in Nat /\ Delay \in Nat /\ Left(jobs) \in Int /\ Left(jobs) <= Delay
      /\ monitored \subseteq Items /\ IsFiniteSet(monitored) /\ StaleAfter + Delay <= Allowed
  BY Known
<1>10. \A h \in monitored : age'[h] = Least(age[h] + 1, Horizon) /\ age[h] \in Nat /\ age'[h] \in Nat
  <2> SUFFICES ASSUME NEW h \in monitored
               PROVE  age'[h] = Least(age[h] + 1, Horizon) /\ age[h] \in Nat /\ age'[h] \in Nat
    OBVIOUS
  <2>1. h \in Items /\ h \notin dropped /\ age[h] \in Nat
    BY <1>2, <1>9 DEF Ways, OneWay
  <2>2. age'[h] = Least(age[h] + 1, Horizon)
    BY <1>1, <2>1
  <2> QED
    BY <2>1, <2>2, Parameters DEF Least
<1>11. \A h \in monitored : age'[h] <= Horizon
  BY <1>10, Parameters DEF Least
<1>12. Sweep' = ks[Len(jobs)] /\ ks[Len(jobs)].period = p /\ ks[Len(jobs)].wait = Most(w - 1, -Horizon)
  BY <1>2, <1>4, <1>5, <1>6, <1>7 DEF Sweep, SameJobs
<1>13. (Sweep.wait <= Sweep.period)'
  <2>1. w <= p
    BY <1>7 DEF InTime
  <2>2. Most(w - 1, -Horizon) <= p
    BY <2>1, Parameters DEF Most
  <2> QED
    BY <1>12, <2>2
<1>14. PICK r \in Nat, q \in Int : r = Remaining /\ q = Remaining' /\ q <= Longest /\ (reading => q = r - 1)
  <2>1. Remaining' = IF reading THEN Longest - spent' ELSE 0
    BY <1>1 DEF Remaining
  <2>2. PICK r \in Nat : r = Remaining /\ (reading => r = Longest - spent)
    <3>1. Longest - spent \in Nat
      BY <1>2, Parameters
    <3>2. CASE reading
      <4>1. Remaining = Longest - spent
        BY <3>2 DEF Remaining
      <4> QED
        BY <3>1, <4>1
    <3>3. CASE ~reading
      <4>1. Remaining = 0
        BY <3>3 DEF Remaining
      <4> QED
        BY <3>3, <4>1
    <3> QED
      BY <3>2, <3>3
  <2>3. PICK q \in Int : q = Remaining' /\ q <= Longest /\ (reading => q = Longest - spent - 1)
    BY <1>1, <1>2, <2>1, Parameters
  <2>4. reading => q = r - 1
    BY <1>2, <2>2, <2>3, Parameters
  <2> QED
    BY <2>2, <2>3, <2>4
<1>15. ASSUME Allowed + Longest < Horizon PROVE OnTime(ks, q) /\ AllInTime'
  <2>1. OnTime(jobs, r) /\ AllInTime
    BY <1>14, <1>15 DEF InTime
  <2>2. 0 <= Left(jobs)
    BY <1>2, <2>1, OnTimeLeft
  <2>3. Allowed < Horizon
    BY <1>9, <1>15, Parameters
  <2>4. -Horizon < jobs[Len(jobs)].wait
    BY <2>2, <2>3, Known DEF Sweep
  <2>15. r \in Int
    OBVIOUS
  <2>16. w = jobs[Len(jobs)].wait
    BY <1>7 DEF Sweep
  <2>5. /\ ks[Len(ks)].wait = jobs[Len(jobs)].wait - 1 /\ Left(ks) = Left(jobs) - 1
        /\ OnTime(jobs, r) => OnTime(ks, r - 1)
    BY <1>2, <1>5, <1>6, <2>4, <2>15, OnTimeTick
  <2>6. OnTime(ks, q)
    <3>1. CASE reading
      BY <1>14, <2>1, <2>5, <3>1
    <3>2. CASE ~reading
      <4>1. PICK x \in Int : x = job.wait /\ 0 < x
        <5>1. job \in Jobs
          BY DEF Ways, ReadsTypes
        <5> QED
          BY <1>1, <3>2, <5>1 DEF Jobs, Waits
      <4>2. x <= w
        BY <1>2, <1>7, <3>2, <4>1 DEF First, Ways, Running, Sweep
      <4>3. 0 <= ks[Len(ks)].wait
        BY <2>5, <2>16, <4>1, <4>2
      <4> QED
        BY <1>5, <1>14, <4>3, OnTimeAhead
    <3> QED
      BY <1>2, <3>1, <3>2
  <2>7. PICK l \in Int : l = Left(jobs) /\ Left(ks) = l - 1
    BY <1>9, <2>5
  <2>8. PICK late \in Int, end \in Int : late = Allowed + Delay /\ end = late + Delay
    BY <1>9
  <2> SUFFICES ASSUME NEW h \in monitored, StaleAfter <= age'[h]
               PROVE  /\ h \in Range(wanted) => BeingRead(h)'
                      /\ h \notin Range(wanted) => Waiting(h)'
    BY <1>1, <2>6 DEF AllInTime, Silent
  <2>9. PICK a \in Nat, b \in Nat : a = age[h] /\ b = age'[h] /\ b = Least(a + 1, Horizon)
    BY <1>10
  <2>10. PICK S, T : S = AsOld(h) /\ T = {g \in monitored : age'[h] <= age'[g]}
    OBVIOUS
  <2>11. AsOld(h)' = T
    BY <1>1, <2>10 DEF AsOld
  <2>12. h \in Range(wanted) => reading /\ spent' = spent + 1
    <3>1. ~reading => Range(wanted) = {}
      BY DEF Ways, Running, Range
    <3> QED
      BY <1>1, <3>1
  <2>13. CASE StaleAfter <= a
    <3>1. Silent(h)
      BY <2>9, <2>13 DEF Silent
    <3>2. a <= Allowed + Longest
      <4>1. CASE h \in Range(wanted)
        <5>1. a <= Allowed + spent
          BY <2>1, <2>9, <3>1, <4>1 DEF AllInTime, BeingRead
        <5> QED
          BY <1>2, <1>9, <5>1, Parameters
      <4>2. CASE h \notin Range(wanted)
        <5>1. Read(S \ Range(wanted), a, l, Delay, late)
          BY <2>1, <2>7, <2>8, <2>9, <2>10, <3>1, <4>2 DEF AllInTime, Waiting
        <5>2. h \in S \ Range(wanted)
          BY <2>9, <2>10, <4>2 DEF AsOld
        <5>3. PICK U : U = S \ Range(wanted)
          OBVIOUS
        <5>5. l \in Nat /\ h \in U /\ Read(U, a, l, Delay, late)
          BY <2>2, <2>7, <5>1, <5>2, <5>3
        <5>4. a + Delay <= late
          BY <1>9, <2>8, <5>5, ReadBound
        <5> QED
          BY <1>9, <2>8, <5>4, Parameters
      <4> QED
        BY <4>1, <4>2
    <3>3. b = a + 1
      BY <1>9, <1>15, <2>9, <3>2, Parameters DEF Least
    <3>4. T \subseteq S
      <4> SUFFICES ASSUME NEW g \in monitored, b <= age'[g] PROVE a <= age[g]
        BY <2>9, <2>10 DEF AsOld
      <4>1. PICK c \in Nat : c = age[g] /\ age'[g] = Least(c + 1, Horizon)
        BY <1>10
      <4> QED
        BY <3>3, <4>1, Parameters DEF Least
    <3>5. ASSUME h \in Range(wanted) PROVE BeingRead(h)'
      <4>1. a <= Allowed + spent /\ Read(S, a, l, Delay, end)
        BY <2>1, <2>7, <2>8, <2>9, <2>10, <3>1, <3>5 DEF AllInTime, BeingRead
      <4>2. b <= Allowed + spent'
        BY <1>2, <1>9, <2>12, <3>3, <3>5, <4>1
      <4>3. b + (l - 1) - end <= a + l - end /\ l - 1 \in Int
        BY <2>7, <2>8, <2>9, <3>3
      <4>4. PICK v \in Int : v = l - 1
        BY <2>7
      <4>5. Read(T, b, v, Delay, end)
        BY <1>9, <2>7, <2>8, <2>9, <3>4, <4>1, <4>3, <4>4, ReadSooner
      <4> QED
        BY <1>5, <1>8, <2>7, <2>8, <2>9, <2>11, <4>2, <4>4, <4>5 DEF BeingRead
    <3>6. ASSUME h \notin Range(wanted) PROVE Waiting(h)'
      <4>1. PICK U, V : U = S \ Range(wanted) /\ V = T \ Range(wanted)
        OBVIOUS
      <4>2. Read(U, a, l, Delay, late)
        BY <2>1, <2>7, <2>8, <2>9, <2>10, <3>1, <3>6, <4>1 DEF AllInTime, Waiting
      <4>3. V \subseteq U
        BY <3>4, <4>1
      <4>4. PICK v \in Int : v = l - 1
        BY <2>7
      <4>5. b + v - late <= a + l - late
        BY <2>7, <2>8, <2>9, <3>3, <4>4
      <4>6. Read(V, b, v, Delay, late)
        BY <1>9, <2>7, <2>8, <2>9, <4>2, <4>3, <4>4, <4>5, ReadSooner
      <4> QED
        BY <1>1, <1>5, <1>8, <2>7, <2>8, <2>9, <2>11, <4>1, <4>4, <4>6 DEF Waiting
    <3> QED
      BY <3>5, <3>6
  <2>14. CASE ~(StaleAfter <= a)
    <3>1. b = StaleAfter
      BY <2>9, <2>14, Parameters DEF Least
    <3>2. LeftBy(T, n)
      <4>1. T \in SUBSET monitored
        BY <2>10
      <4>2. PICK m \in Int : m = n * ReadChunk
        BY Times, Parameters
      <4>3. Cardinality(monitored) <= m
        BY <1>7, <4>2 DEF LeftBy
      <4>4. IsFiniteSet(T) /\ Cardinality(T) <= Cardinality(monitored)
        BY <1>9, <4>1, FS_Subset
      <4>5. Cardinality(T) \in Nat /\ Cardinality(monitored) \in Nat
        BY <1>9, <4>4, FS_CardinalityType
      <4> QED
        BY <4>2, <4>3, <4>4, <4>5 DEF LeftBy
    <3>3. PICK v \in Int, d \in Nat : v = l - 1 /\ d = Delay /\ v <= d
      BY <1>9, <2>7
    <3>4. b + v + s <= late
      <4>1. PICK f \in Nat : Allowed = StaleAfter + s + f
        BY <1>7
      <4> QED
        BY <2>8, <3>1, <3>3, <4>1, Parameters
    <3>5. s = n * d
      BY <1>7, <3>3
    <3>6. Read(T, b, v, d, late)
      BY <3>2, <3>4, <3>5 DEF Read
    <3>7. ASSUME h \in Range(wanted) PROVE BeingRead(h)'
      <4>1. b <= Allowed + spent'
        BY <1>2, <1>9, <2>12, <3>1, <3>7, Parameters
      <4>2. b + v - end <= b + v - late
        BY <2>8, <2>9, <3>3
      <4>3. Read(T, b, v, d, end)
        BY <2>8, <2>9, <3>3, <3>6, <4>2, ReadSooner
      <4> QED
        BY <1>5, <1>8, <2>7, <2>8, <2>9, <2>11, <3>3, <4>1, <4>3 DEF BeingRead
    <3>8. ASSUME h \notin Range(wanted) PROVE Waiting(h)'
      <4>1. PICK V : V = T \ Range(wanted)
        OBVIOUS
      <4>2. Read(V, b, v, d, late)
        <5>1. V \subseteq T /\ b + v - late <= b + v - late
          BY <2>8, <2>9, <3>3, <4>1
        <5> QED
          BY <2>8, <2>9, <3>3, <3>6, <5>1, ReadSooner
      <4> QED
        BY <1>1, <1>5, <1>8, <2>7, <2>8, <2>9, <2>11, <3>3, <4>1, <4>2 DEF Waiting
    <3> QED
      BY <3>7, <3>8
  <2> QED
    BY <2>13, <2>14
<1>16. OnTime(jobs, Remaining)' <=> OnTime(ks, q)
  BY <1>5, <1>14 DEF OnTime, Left, Before
<1> QED
  BY <1>1, <1>8, <1>11, <1>13, <1>15, <1>16 DEF InTime

LEMMA StartInTime == ReadsInit => InTime
<1> SUFFICES ASSUME ReadsInit, monitored # {} PROVE InTime
  BY DEF InTime
<1>1. Subscribed \subseteq Items /\ Subscribed # {} /\ monitored = Subscribed
  BY Parameters DEF ReadsInit
<1>2. PICK swept \in BOOLEAN : swept = (Subscribed # {})
  OBVIOUS
<1>3. PICK p \in Nat : p = SweepPeriod(Cardinality(Subscribed))
  <2>1. Cardinality(Subscribed) \in Nat
    BY Parameters, FS_Subset, FS_CardinalityType
  <2> QED
    BY <2>1, PeriodIs
<1>4. Scheduled(jobs, Items \ Subscribed, swept, p)
  BY <1>1, <1>2, <1>3, ScheduleIs DEF ReadsInit
<1>5. jobs \in Seq(Jobs) /\ jobs # <<>> /\ jobs[Len(jobs)].wait = p /\ jobs[Len(jobs)].period = p
  BY <1>1, <1>2, <1>4 DEF Scheduled
<1>6. Remaining = 0
  BY DEF ReadsInit, Remaining
<1>7. OnTime(jobs, 0)
  BY <1>3, <1>5, OnTimeAhead, Parameters
<1>8. \A h \in monitored : age[h] = 0
  BY <1>1 DEF ReadsInit
<1>9. AllInTime
  BY <1>8, Parameters DEF AllInTime, Silent
<1> QED
  BY <1>3, <1>5, <1>6, <1>7, <1>8, <1>9, Parameters DEF InTime, Sweep

LEMMA StepInTime == ASSUME Ways, First, InTime, [ReadsNext]_readsVars PROVE InTime'
<1>1. CASE monitored' = {}
  BY <1>1 DEF InTime
<1>2. CASE monitored' # {}
  <2>1. ASSUME RunJob PROVE InTime'
    <3>1. monitored # {}
      BY <1>2, <2>1 DEF RunJob
    <3> QED
      BY <2>1, <3>1, RunOtherInTime, RunSweepInTime
  <2>2. ASSUME Tick PROVE InTime'
    <3>1. monitored # {}
      BY <1>2, <2>2 DEF Tick
    <3> QED
      BY <2>2, <3>1, TickInTime
  <2>3. ~PollEverything
    BY <1>2 DEF PollEverything
  <2>4. ASSUME UNCHANGED readsVars PROVE InTime'
    <3>1. UNCHANGED <<monitored, stale, age, jobs, wanted, reading, spent, failedReads>>
      BY <2>4 DEF readsVars, schedule, request
    <3>2. Delay' = Delay /\ Allowed' = Allowed
      BY <3>1, Steady
    <3>3. OnTime(jobs, Remaining)' <=> OnTime(jobs, Remaining)
      BY <3>1 DEF Remaining, OnTime, Left, Before
    <3>4. AllInTime' <=> AllInTime
      BY <3>1, <3>2 DEF AllInTime, Silent, BeingRead, Waiting, AsOld, Left
    <3> QED
      BY <3>1, <3>2, <3>3, <3>4 DEF InTime, Sweep
  <2> QED
    BY <2>1, <2>2, <2>3, <2>4, HealthReadInTime, ChunkReadInTime, SweepReadInTime, ReadFailsInTime,
       DeliverInTime DEF ReadsNext, RunLoop
<1> QED
  BY <1>1, <1>2

\* A subscribed item is refreshed in time, whatever is delivered and whatever else the loop
\* runs: after StaleAfter it waits for as many sweeps as hold all the items, one more for each
\* Read that failed, and for its own Read.
THEOREM RefreshedOnTime == ReadsSpec => []RefreshedInTime
<1>1. ASSUME Ways, First, [ReadsNext]_readsVars PROVE Ways' /\ First'
  BY <1>1, RunJobWays, HealthReadWays, ChunkReadWays, SweepReadWays, ReadFailsWays, DeliverWays,
     PollEverythingWays, TickWays, StillWays, FirstStep DEF ReadsNext, RunLoop
<1>2. ASSUME Ways, InTime PROVE RefreshedInTime
  <2> SUFFICES ASSUME NEW h \in monitored PROVE age[h] <= Allowed + Longest
    BY DEF RefreshedInTime, Allowed
  <2>1. Allowed \in Nat /\ Delay \in Nat /\ Left(jobs) \in Int /\ StaleAfter + Delay <= Allowed
        /\ monitored \subseteq Items
    BY <1>2, Known
  <2>2. age[h] \in Nat /\ spent \in 0 .. Longest /\ jobs \in Seq(Jobs) /\ jobs # <<>> /\ reading \in BOOLEAN
    BY <1>2, <2>1 DEF Ways, ReadsTypes
  <2>3. CASE ~(Allowed + Longest < Horizon)
    <3>1. age[h] <= Horizon
      BY <1>2 DEF InTime
    <3> QED
      BY <2>1, <2>2, <2>3, <3>1, Parameters
  <2>4. CASE Allowed + Longest < Horizon
    <3>1. OnTime(jobs, Remaining) /\ AllInTime
      BY <1>2, <2>4 DEF InTime
    <3>2. CASE ~Silent(h)
      BY <2>1, <2>2, <3>2, Parameters DEF Silent
    <3>3. CASE Silent(h) /\ h \in Range(wanted)
      <4>1. age[h] <= Allowed + spent
        BY <3>1, <3>3 DEF AllInTime, BeingRead
      <4> QED
        BY <2>1, <2>2, <4>1, Parameters
    <3>4. CASE Silent(h) /\ h \notin Range(wanted)
      <4>1. PICK S : S = AsOld(h) \ Range(wanted)
        OBVIOUS
      <4>2. PICK late \in Int : late = Allowed + Delay
        BY <2>1
      <4>3. Read(S, age[h], Left(jobs), Delay, late)
        BY <3>1, <3>4, <4>1, <4>2 DEF AllInTime, Waiting
      <4>4. h \in S
        BY <2>2, <3>4, <4>1 DEF AsOld
      <4>5. Remaining \in Nat
        BY <2>2, Parameters DEF Remaining
      <4>6. Left(jobs) \in Nat
        BY <2>1, <2>2, <3>1, <4>5, OnTimeLeft
      <4>7. age[h] + Delay <= late
        BY <2>1, <2>2, <4>2, <4>3, <4>4, <4>6, ReadBound, SMTT(20)
      <4> QED
        BY <2>1, <2>2, <4>2, <4>7, Parameters
    <3> QED
      BY <3>2, <3>3, <3>4
  <2> QED
    BY <2>3, <2>4
<1>3. ASSUME Ways, First, InTime, [ReadsNext]_readsVars PROVE InTime'
  BY <1>3, StepInTime
<1> QED
  BY WaysStart, FirstStart, StartInTime, <1>1, <1>2, <1>3, PTL DEF ReadsSpec
=============================================================================
