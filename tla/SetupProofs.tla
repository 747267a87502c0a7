----------------------------- MODULE SetupProofs -----------------------------
(***************************************************************************)
(* A session of Setup is as secure as configured, and secure unless the    *)
(* user asked for None, for any form, any number of servers, starts,       *)
(* renewals and reviews of the trust list.                                 *)
(***************************************************************************)
EXTENDS Setup, SequenceTheorems, WellFoundedInduction, FiniteSetTheorems, TLAPS

Fit(c) == Accepted(c) /\ (~conn[c].lapsed \/ clients[c].allowExpired)

\* What Judge relies on, and what Open relies on.
Judged(c) ==
    /\ conn[c].step = "checking" => Offered(c)
    /\ conn[c].step \in {"open", "up"} /\ clients[c].mode # "None" => Offered(c) /\ Fit(c)

Steps == {"idle", "checking", "refusing", "open", "up"}
Problems == {"none", "unreachable", "offers", "user", "pinned", "period", "untrusted", "rejected us"}
Certificates == {<<>>} \cup (Servers \X Nat)
Connections == [step : Steps, cert : Certificates, lapsed : BOOLEAN, problem : Problems, contacted : BOOLEAN]

Shaped == conn \in [DOMAIN clients -> Connections]
Running == up \subseteq Servers /\ cert \in [Servers -> Nat]

Inv == Shaped /\ Running /\ \A c \in DOMAIN clients : Judged(c)

-----------------------------------------------------------------------------
(* Induction over the naturals *)

LEMMA SmallestSet ==
    ASSUME NEW S, NEW F, F \subseteq FiniteSubsetsOf(S), F # {}
    PROVE  \E A \in F : \A B \in F : B \subseteq A => B = A
<1> DEFINE R == StrictSubsetOrdering(S)
<1>1. IsWellFoundedOn(R, FiniteSubsetsOf(S))
  BY FS_StrictSubsetOrderingWellFounded
<1>2. PICK A \in F : \A B \in F : ~(<<B, A>> \in R)
  <2> HIDE DEF R
  <2> QED
    BY <1>1, WFMin
<1>3. \A B \in F : B \subseteq A => B = A
  BY <1>2 DEF StrictSubsetOrdering, FiniteSubsetsOf
<1> QED
  BY <1>3

\* A set that has 0 and the successors of its members has every natural number.
LEMMA NatSetInduction ==
    ASSUME NEW S, 0 \in S, \A n \in Nat : n \in S => n + 1 \in S
    PROVE  \A n \in Nat : n \in S
<1> DEFINE T == Nat \ S
           F == {0 .. n : n \in T}
<1> SUFFICES ASSUME T # {} PROVE FALSE
  OBVIOUS
<1>1. \A n \in T : n \in Nat /\ (0 .. n) \subseteq Nat /\ IsFiniteSet(0 .. n)
  BY FS_Interval
<1>2. F \subseteq FiniteSubsetsOf(Nat) /\ F # {}
  BY <1>1 DEF FiniteSubsetsOf
<1>3. PICK A \in F : \A B \in F : B \subseteq A => B = A
  <2> HIDE DEF F
  <2> QED
    BY <1>2, SmallestSet
<1>4. PICK m \in T : A = 0 .. m
  OBVIOUS
<1>5. m # 0 /\ m \in Nat
  OBVIOUS
<1>6. m - 1 \in Nat /\ m = (m - 1) + 1
  BY <1>5
<1>7. m - 1 \notin T
  <2> SUFFICES ASSUME m - 1 \in T PROVE FALSE
    OBVIOUS
  <2>1. 0 .. (m - 1) \in F /\ 0 .. (m - 1) \subseteq 0 .. m /\ m \in 0 .. m /\ m \notin 0 .. (m - 1)
    BY <1>5
  <2> QED
    BY <1>3, <1>4, <2>1
<1> QED
  BY <1>5, <1>6, <1>7

\* A set of naturals has a least.
LEMMA MinIs == ASSUME NEW S, S \subseteq Nat, S # {} PROVE Min(S) \in S /\ \A n \in S : Min(S) <= n
<1> DEFINE F == {0 .. n : n \in S}
<1>1. \A n \in S : n \in Nat /\ (0 .. n) \subseteq Nat /\ IsFiniteSet(0 .. n)
  BY FS_Interval
<1>2. F \subseteq FiniteSubsetsOf(Nat) /\ F # {}
  BY <1>1 DEF FiniteSubsetsOf
<1>3. PICK A \in F : \A B \in F : B \subseteq A => B = A
  <2> HIDE DEF F
  <2> QED
    BY <1>2, SmallestSet
<1>4. PICK m \in S : A = 0 .. m
  OBVIOUS
<1>5. ASSUME NEW n \in S PROVE m <= n
  <2> SUFFICES ASSUME n < m PROVE FALSE
    BY <1>1
  <2>1. n \in Nat /\ m \in Nat
    BY <1>1
  <2>2. 0 .. n \in F /\ 0 .. n \subseteq 0 .. m /\ m \in 0 .. m /\ m \notin 0 .. n
    BY <2>1
  <2> QED
    BY <1>3, <1>4, <2>2
<1>6. \E x \in S : \A y \in S : x =< y
  BY <1>5
<1> QED
  BY <1>6 DEF Min

-----------------------------------------------------------------------------
(* What Auto-configure and a start make of the form *)

\* The user asked for None in an entry of the URL.
Asked(u) == \E i \in DOMAIN entered.servers : entered.servers[i].url = u /\ entered.servers[i].mode = "None"
Honest(entry) == {"url", "mode"} \subseteq DOMAIN entry /\ (entry.mode = "None" => Asked(entry.url))

\* Auto-configure keeps the user's Advanced settings, and gives no server a None of its own; so
\* a client without security is one the user asked to have none.
FormHonest ==
    /\ {"advanced", "servers"} \subseteq DOMAIN form /\ form.advanced = entered.advanced
    /\ \A i \in DOMAIN form.servers : Honest(form.servers[i])
ClientsHonest == \A c \in DOMAIN clients : clients[c].mode = "None" => AskedForNone(clients[c].url)
Asks == FormHonest /\ ClientsHonest

LEMMA SecurityIs ==
    ASSUME NEW offers, NEW advanced
    PROVE  Security(offers, advanced).mode # "None"
<1>1. Default.mode # "None" /\ NoSecurity.mode # "None" /\ Strongest(offers).mode # "None"
  BY DEF Default, NoSecurity, Strongest
<1>2. Security(offers, advanced) \in {Default, NoSecurity, Strongest(offers)}
  BY DEF Security
<1> QED
  BY <1>1, <1>2

\* _Report.check fills in a mode, never None.
LEMMA CheckIs ==
    ASSUME NEW entry, Honest(entry), NEW offers, NEW advanced
    PROVE  Honest(Check(entry, offers, advanced).entry)
<1>1. PICK security : security = Security(offers, advanced) /\ security.mode # "None"
  BY SecurityIs
<1>2. PICK filled : filled = IF entry.mode = "default" /\ security # Default
                             THEN [entry EXCEPT !.mode = security.mode, !.policy = security.policy] ELSE entry
  OBVIOUS
<1>3. Check(entry, offers, advanced).entry \in {entry, filled}
  BY <1>1, <1>2 DEF Check, Verdict
<1>4. Honest(filled)
  BY <1>1, <1>2 DEF Honest
<1> QED
  BY <1>3, <1>4

LEMMA ServersChecked ==
    ASSUME NEW list, \A i \in DOMAIN list : Honest(list[i]), NEW replies, NEW advanced
    PROVE  \A i \in DOMAIN CheckServers(list, replies, advanced) :
              Honest(CheckServers(list, replies, advanced)[i].entry)
<1>1. PICK out : out = CheckServers(list, replies, advanced)
  OBVIOUS
<1>2. DOMAIN out = DOMAIN list
  BY <1>1 DEF CheckServers
<1>3. ASSUME NEW i \in DOMAIN list PROVE Honest(out[i].entry)
  <2>1. PICK reply : out[i] = IF reply.kind = "server" THEN Check(list[i], reply.offers, advanced)
                              ELSE Verdict(list[i], FALSE, TRUE)
    BY <1>1 DEF CheckServers
  <2>2. Verdict(list[i], FALSE, TRUE).entry = list[i]
    BY DEF Verdict
  <2> QED
    BY <2>1, <2>2, CheckIs
<1> QED
  BY <1>1, <1>2, <1>3

\* The probe once it has looked at the first n URLs.
ProbedUpTo(replies, advanced, n, f) ==
    f = [k \in 0 .. n |->
            IF k = 0 THEN [taken |-> {}, found |-> <<>>]
            ELSE IF First(replies, k) THEN Add(f[k - 1], k, replies, advanced) ELSE f[k - 1]]

LEMMA ProbeExists == ASSUME NEW replies, NEW advanced PROVE \A n \in Nat : \E f : ProbedUpTo(replies, advanced, n, f)
<1> DEFINE S == {n \in Nat : \E f : ProbedUpTo(replies, advanced, n, f)}
           E(k, before) == IF k = 0 THEN [taken |-> {}, found |-> <<>>]
                           ELSE IF First(replies, k) THEN Add(before, k, replies, advanced) ELSE before
<1>0. \A n, f : ProbedUpTo(replies, advanced, n, f) <=> f = [k \in 0 .. n |-> E(k, f[k - 1])]
  BY DEF ProbedUpTo
<1>1. 0 \in S
  <2>1. PICK f : f = [k \in 0 .. 0 |-> [taken |-> {}, found |-> <<>>]]
    OBVIOUS
  <2>2. f = [k \in 0 .. 0 |-> E(k, f[k - 1])]
    BY <2>1
  <2> QED
    BY <1>0, <2>2
<1>2. \A x, y : E(0, x) = E(0, y)
  OBVIOUS
<1> HIDE DEF E
<1>3. ASSUME NEW n \in Nat, n \in S PROVE n + 1 \in S
  <2>1. PICK f : f = [k \in 0 .. n |-> E(k, f[k - 1])]
    BY <1>0, <1>3
  <2>2. PICK g : g = [k \in 0 .. (n + 1) |-> IF k = n + 1 THEN E(n + 1, f[n]) ELSE f[k]]
    OBVIOUS
  <2>3. ASSUME NEW k \in 0 .. (n + 1) PROVE g[k] = E(k, g[k - 1])
    <3>1. CASE k = 0
      <4>1. g[0] = E(0, f[0 - 1])
        BY <2>1, <2>2, <3>1
      <4> QED
        BY <1>2, <3>1, <4>1
    <3>2. CASE k # 0 /\ k \in 0 .. n
      <4>1. k - 1 \in 0 .. n /\ g[k - 1] = f[k - 1] /\ g[k] = f[k] /\ f[k] = E(k, f[k - 1])
        BY <2>1, <2>2, <3>2
      <4> QED
        BY <4>1
    <3>3. CASE k = n + 1
      <4>1. k - 1 = n /\ g[k] = E(k, f[n]) /\ g[n] = f[n]
        BY <2>2, <3>3
      <4> QED
        BY <4>1
    <3> QED
      BY <3>1, <3>2, <3>3
  <2>4. g = [k \in 0 .. (n + 1) |-> E(k, g[k - 1])]
    BY <2>2, <2>3
  <2>5. ProbedUpTo(replies, advanced, n + 1, g)
    BY <1>0, <2>4
  <2> QED
    BY <2>5
<1> HIDE DEF S
<1>4. \A n \in Nat : n \in S
  BY <1>1, <1>3, NatSetInduction
<1> QED
  BY <1>4 DEF S

\* A list, and the list with another element.
IsList(list) == Len(list) \in Nat /\ list = [i \in 1 .. Len(list) |-> list[i]]

Lengthens(longer, list, v) ==
    /\ IsList(longer) /\ Len(longer) = Len(list) + 1 /\ longer[Len(list) + 1] = v
    /\ \A i \in 1 .. Len(list) : longer[i] = list[i]

LEMMA Appended == ASSUME NEW list, IsList(list), NEW v PROVE Lengthens(Append(list, v), list, v)
<1> DEFINE S == {list[i] : i \in 1 .. Len(list)} \cup {v}
<1>1. list \in Seq(S) /\ v \in S
  BY DEF IsList
<1> HIDE DEF S
<1>2. PICK l : l = Append(list, v) /\ l \in Seq(S)
  BY <1>1, AppendProperties
<1>3. Len(l) = Len(list) + 1 /\ (\A i \in 1 .. Len(list) : l[i] = list[i]) /\ l[Len(list) + 1] = v
  BY <1>1, <1>2, AppendProperties
<1>4. Len(l) \in Nat /\ l \in [1 .. Len(l) -> S]
  BY <1>2, LenProperties
<1>5. IsList(l)
  BY <1>4 DEF IsList
<1>6. Lengthens(l, list, v)
  BY <1>3, <1>5 DEF Lengthens
<1> QED
  BY <1>2, <1>6

\* The probe, URL by URL, and what a server found adds: an entry of its own, as it is checked.
ProbedBy(replies, advanced, f) ==
    /\ f[0] = [taken |-> {}, found |-> <<>>]
    /\ \A k \in 1 .. Len(ProbedUrls) :
          f[k] = IF First(replies, k) THEN Add(f[k - 1], k, replies, advanced) ELSE f[k - 1]
    /\ Probe(replies, advanced) = f[Len(ProbedUrls)].found

NewEntry(name, u) ==
    [name |-> name, url |-> u, mode |-> "default", policy |-> "default", user |-> "none",
     strict |-> FALSE, pinned |-> <<>>, allowExpired |-> FALSE]
UrlOf(replies, u) == AtPath[u, replies[u].path]
LabelOf(replies, u) == IF replies[u].label = Blank THEN HostName[u] ELSE replies[u].label

LEMMA ProbeSteps == ASSUME NEW replies, NEW advanced PROVE \E f : ProbedBy(replies, advanced, f)
<1>1. PICK m \in Nat : m = Len(ProbedUrls)
  BY ConfigAssumption DEF ConfigAssumption
<1> DEFINE f == CHOOSE f : ProbedUpTo(replies, advanced, m, f)
<1>2. ProbedUpTo(replies, advanced, m, f)
  BY ProbeExists
<1>3. Probe(replies, advanced) = f[m].found
  BY <1>1 DEF Probe, ProbedUpTo
<1> HIDE DEF f
<1>4. f[0] = [taken |-> {}, found |-> <<>>]
  BY <1>2 DEF ProbedUpTo
<1>5. \A k \in 1 .. m : f[k] = IF First(replies, k) THEN Add(f[k - 1], k, replies, advanced) ELSE f[k - 1]
  <2>1. \A k \in 0 .. m : f[k] = IF k = 0 THEN [taken |-> {}, found |-> <<>>]
                               ELSE IF First(replies, k) THEN Add(f[k - 1], k, replies, advanced) ELSE f[k - 1]
    BY <1>2, Zenon DEF ProbedUpTo
  <2>2. \A k \in 1 .. m : k \in 0 .. m /\ k # 0
    OBVIOUS
  <2> QED
    BY <2>1, <2>2, Zenon
<1> QED
  BY <1>1, <1>3, <1>4, <1>5, Zenon DEF ProbedBy

LEMMA AddIs ==
    ASSUME NEW probed, NEW k, NEW replies, NEW advanced
    PROVE  \E u, url, name, verdict :
              /\ u = ProbedUrls[k] /\ url = UrlOf(replies, u)
              /\ name = UniqueName(LabelOf(replies, u), probed.taken)
              /\ verdict = Check(NewEntry(name, url), replies[u].offers, advanced)
              /\ Add(probed, k, replies, advanced).taken = probed.taken \cup {name}
              /\ Add(probed, k, replies, advanced).found =
                    IF verdict.found THEN Append(probed.found, verdict) ELSE probed.found
<1> DEFINE u == ProbedUrls[k]
           url == UrlOf(replies, u)
           name == UniqueName(LabelOf(replies, u), probed.taken)
           verdict == Check(NewEntry(name, url), replies[u].offers, advanced)
<1>1. Add(probed, k, replies, advanced) =
         [taken |-> probed.taken \cup {NewEntry(name, url).name},
          found |-> IF verdict.found THEN Append(probed.found, verdict) ELSE probed.found]
  BY Zenon DEF Add, LabelOf, UrlOf, NewEntry
<1>2. NewEntry(name, url).name = name
  <2> HIDE DEF name, url
  <2> QED
    BY DEF NewEntry
<1> HIDE DEF u, url, name, verdict
<1>3. /\ Add(probed, k, replies, advanced).taken = probed.taken \cup {name}
      /\ Add(probed, k, replies, advanced).found = IF verdict.found THEN Append(probed.found, verdict) ELSE probed.found
  BY <1>1, <1>2
<1> QED
  BY <1>3, Zenon DEF u, url, name, verdict

\* A list of verdicts whose entries are honest.
HonestList(list) == IsList(list) /\ \A i \in 1 .. Len(list) : Honest(list[i].entry)

LEMMA ProbeIs == ASSUME NEW replies, NEW advanced PROVE HonestList(Probe(replies, advanced))
<1>1. PICK m \in Nat : m = Len(ProbedUrls)
  BY ConfigAssumption DEF ConfigAssumption
<1>2. PICK f : ProbedBy(replies, advanced, f)
  BY ProbeSteps
<1> DEFINE S == {k \in Nat : k <= m => HonestList(f[k].found)}
<1>3. 0 \in S
  BY <1>2 DEF HonestList, IsList, ProbedBy
<1>4. ASSUME NEW k \in Nat, k \in S PROVE k + 1 \in S
  <2> SUFFICES ASSUME k + 1 <= m PROVE HonestList(f[k + 1].found)
    OBVIOUS
  <2>1. HonestList(f[k].found)
    BY <1>4
  <2>2. PICK n \in 1 .. m : n = k + 1 /\ n - 1 = k
    OBVIOUS
  <2>3. f[n] = IF First(replies, n) THEN Add(f[k], n, replies, advanced) ELSE f[k]
    BY <1>1, <1>2, <2>2 DEF ProbedBy
  <2>4. HonestList(Add(f[k], n, replies, advanced).found)
    <3>1. PICK u, url, name, verdict :
             /\ verdict = Check(NewEntry(name, url), replies[u].offers, advanced)
             /\ Add(f[k], n, replies, advanced).found = IF verdict.found THEN Append(f[k].found, verdict) ELSE f[k].found
      BY AddIs
    <3>2. Honest(NewEntry(name, url))
      BY DEF Honest, NewEntry
    <3>3. Honest(verdict.entry)
      BY <3>1, <3>2, CheckIs
    <3>4. HonestList(Append(f[k].found, verdict))
      <4>1. IsList(f[k].found) /\ \A i \in 1 .. Len(f[k].found) : Honest(f[k].found[i].entry)
        BY <2>1 DEF HonestList
      <4>2. PICK l : l = f[k].found /\ IsList(l) /\ \A i \in 1 .. Len(l) : Honest(l[i].entry)
        BY <4>1
      <4>3. PICK longer : longer = Append(l, verdict)
        OBVIOUS
      <4>4. Lengthens(longer, l, verdict)
        BY <4>2, <4>3, Appended
      <4>5. \A i \in 1 .. Len(longer) : i \in 1 .. Len(l) \/ i = Len(l) + 1
        BY <4>2, <4>4 DEF IsList, Lengthens
      <4> QED
        BY <3>3, <4>2, <4>3, <4>4, <4>5 DEF HonestList, Lengthens
    <3> QED
      BY <2>1, <3>1, <3>4
  <2> QED
    BY <2>1, <2>2, <2>3, <2>4
<1> HIDE DEF S
<1>5. \A k \in Nat : k \in S
  BY <1>3, <1>4, NatSetInduction
<1>6. HonestList(f[m].found)
  BY <1>5 DEF S
<1> QED
  BY <1>1, <1>2, <1>6 DEF ProbedBy

-----------------------------------------------------------------------------
(* What a step of one client does to its connection *)

LEMMA EndsIs ==
    ASSUME Shaped, NEW c \in DOMAIN clients, NEW problem \in Problems, Ends(c, problem), UNCHANGED clients
    PROVE  /\ Shaped' /\ \A d \in DOMAIN clients \ {c} : conn'[d] = conn[d]
           /\ conn'[c].step = IF problem = "none" THEN "up" ELSE "idle"
           /\ conn'[c].problem = problem
           /\ problem = "none" => conn'[c].cert = conn[c].cert /\ conn'[c].lapsed = conn[c].lapsed
  BY DEF Shaped, Ends, Connections, Steps, Certificates

LEMMA GoesIs ==
    ASSUME Shaped, NEW c \in DOMAIN clients, NEW step \in Steps, Goes(c, step), UNCHANGED clients
    PROVE  /\ Shaped' /\ \A d \in DOMAIN clients \ {c} : conn'[d] = conn[d]
           /\ conn'[c].step = step /\ conn'[c].problem = conn[c].problem
           /\ conn'[c].cert = conn[c].cert /\ conn'[c].lapsed = conn[c].lapsed
  BY DEF Shaped, Goes, Connections

LEMMA ReceivesIs ==
    ASSUME Shaped, NEW c \in DOMAIN clients, NEW crt \in Certificates, Receives(c, crt), UNCHANGED clients
    PROVE  /\ Shaped' /\ \A d \in DOMAIN clients \ {c} : conn'[d] = conn[d]
           /\ conn'[c].step = "checking" /\ conn'[c].problem = conn[c].problem
<1>1. PICK lapsed \in BOOLEAN : lapsed <=> crt \in expired
  OBVIOUS
<1>2. conn' = [conn EXCEPT ![c].step = "checking", ![c].cert = crt, ![c].lapsed = lapsed]
  BY <1>1, Zenon DEF Receives
<1>3. PICK new : new = [conn[c] EXCEPT !.step = "checking", !.cert = crt, !.lapsed = lapsed]
  OBVIOUS
<1>4. conn' = [conn EXCEPT ![c] = new] /\ conn[c] \in Connections
  BY <1>2, <1>3 DEF Shaped
<1>5. new \in Connections /\ new.step = "checking" /\ new.problem = conn[c].problem
  BY <1>1, <1>3, <1>4 DEF Connections, Steps
<1> QED
  BY <1>4, <1>5 DEF Shaped

\* What holds of a connection that is left alone stays.
LEMMA Kept ==
    ASSUME UNCHANGED <<world, clients>>, trusted \subseteq trusted',
           NEW c \in DOMAIN clients, conn'[c] = conn[c], Judged(c)
    PROVE  Judged(c)'
  BY DEF Judged, Offered, Fit, Accepted, At

-----------------------------------------------------------------------------
(* The steps *)

LEMMA InitInv == Init => Inv
  BY DEF Init, Inv, Shaped, Running

LEMMA ConnectInv == ASSUME Inv, NEW c \in DOMAIN clients, Connect(c) PROVE Inv'
<1>1. UNCHANGED <<world, clients, trusted, up, cert>>
  BY DEF Connect, Contact, Judge, Reject, Open, servers, pki
<1>2. Shaped /\ Running /\ Judged(c) /\ \A d \in DOMAIN clients : Judged(d)
  BY DEF Inv
<1>3. /\ Shaped' /\ \A d \in DOMAIN clients \ {c} : conn'[d] = conn[d]
      /\ \/ conn'[c].step \in {"idle", "refusing"}
         \/ conn'[c].step = "open" /\ clients[c].mode = "None"
         \/ conn'[c].step = "checking" /\ Offered(c)
         \/ conn'[c].step = "open" /\ Offered(c) /\ Fit(c)'
         \/ /\ conn'[c].step = "up" /\ conn[c].step = "open"
            /\ conn'[c].cert = conn[c].cert /\ conn'[c].lapsed = conn[c].lapsed
  <2>1. CASE Contact(c)
    <3>1. \/ \E problem \in {"unreachable", "offers", "user"} : Ends(c, problem)
          \/ clients[c].mode = "None" /\ Goes(c, "open")
          \/ Offered(c) /\ At(c) \in up /\ Receives(c, CertOf(At(c)))
      BY <2>1 DEF Contact, Reachable
    <3>2. {"unreachable", "offers", "user"} \subseteq Problems \ {"none"} /\ "open" \in Steps
      BY DEF Problems, Steps
    <3>3. At(c) \in up => CertOf(At(c)) \in Certificates
      BY <1>2 DEF Certificates, CertOf, Running
    <3> QED
      BY <1>1, <1>2, <3>1, <3>2, <3>3, EndsIs, GoesIs, ReceivesIs
  <2>2. CASE Judge(c)
    <3>1. Offered(c)
      BY <1>2, <2>2 DEF Judge, Judged
    <3>2. \/ \E problem \in {"pinned", "period"} : Ends(c, problem)
          \/ Goes(c, "refusing")
          \/ Fit(c) /\ Goes(c, "open")
      BY <2>2 DEF Judge, Fit
    <3>3. {"pinned", "period"} \subseteq Problems \ {"none"} /\ {"refusing", "open"} \subseteq Steps
      BY DEF Problems, Steps
    <3> QED
      BY <1>1, <1>2, <3>1, <3>2, <3>3, EndsIs, GoesIs DEF Accepted, Fit
  <2>3. CASE Reject(c)
    BY <1>1, <1>2, <2>3, EndsIs DEF Reject, Problems
  <2>4. CASE Open(c)
    <3>1. conn[c].step = "open" /\ \E problem \in Problems : Ends(c, problem)
      BY <2>4 DEF Open, Problems
    <3> QED
      BY <1>1, <1>2, <3>1, EndsIs
  <2> QED
    BY <2>1, <2>2, <2>3, <2>4 DEF Connect
<1>4. Judged(c)'
  BY <1>1, <1>2, <1>3 DEF Judged, Offered, Fit, Accepted, At
<1>5. \A d \in DOMAIN clients \ {c} : Judged(d)'
  BY <1>1, <1>2, <1>3, Kept
<1> QED
  BY <1>1, <1>2, <1>3, <1>4, <1>5 DEF Inv, Running

\* A start, and its end: every connection is new, or none is left.
LEMMA ProcessInv == Inv /\ (StartExtension \/ FirstContact) => Inv'
<1> SUFFICES ASSUME Inv, StartExtension \/ FirstContact PROVE Inv'
  OBVIOUS
<1>1. CASE StartExtension
  <2>1. conn' = [c \in DOMAIN clients' |-> NotYet]
    BY <1>1 DEF StartExtension
  <2>2. NotYet \in Connections /\ NotYet.step = "idle"
    BY DEF NotYet, Connections, Steps, Certificates, Problems
  <2>3. UNCHANGED <<up, cert>>
    BY <1>1 DEF StartExtension, servers
  <2> QED
    BY <2>1, <2>2, <2>3 DEF Inv, Shaped, Running, Judged
<1>2. CASE FirstContact
  <2>1. CASE UNCHANGED <<clients, conn>>
    BY <1>2, <2>1, Kept DEF FirstContact, Inv, Shaped, Running, servers, pki
  <2>2. CASE clients' = <<>> /\ conn' = <<>>
    <3>1. UNCHANGED <<up, cert>>
      BY <1>2 DEF FirstContact, servers
    <3>2. conn' \in [DOMAIN clients' -> Connections] /\ DOMAIN clients' = {}
      BY <2>2
    <3> QED
      BY <3>1, <3>2 DEF Inv, Shaped, Running
  <2> QED
    BY <1>2, <2>1, <2>2 DEF FirstContact
<1> QED
  BY <1>1, <1>2

\* A server that leaves takes its connections down.
LEMMA LeavesInv == ASSUME Inv, NEW s \in Servers, Leaves(s) PROVE Inv'
<1>1. /\ UNCHANGED <<world, clients, trusted>> /\ Shaped
      /\ conn' = [c \in DOMAIN conn |-> IF conn[c].step = "up" /\ At(c) \in {s}
                                        THEN [conn[c] EXCEPT !.step = "idle", !.cert = <<>>, !.lapsed = FALSE]
                                        ELSE conn[c]]
  BY DEF Leaves, Cut, pki, Inv
<1>2. DOMAIN conn = DOMAIN clients
  BY <1>1 DEF Shaped
<1>3. \A c \in DOMAIN clients :
        /\ [conn[c] EXCEPT !.step = "idle", !.cert = <<>>, !.lapsed = FALSE] \in Connections
        /\ [conn[c] EXCEPT !.step = "idle", !.cert = <<>>, !.lapsed = FALSE].step = "idle"
  BY <1>1 DEF Shaped, Connections, Steps, Certificates
<1>4. \A c \in DOMAIN clients : conn'[c] = conn[c] \/ conn'[c].step = "idle"
  BY <1>1, <1>2, <1>3
<1>5. Shaped'
  BY <1>1, <1>2, <1>3 DEF Shaped
<1>6. \A c \in DOMAIN clients : Judged(c)'
  BY <1>1, <1>4, Kept DEF Inv, Judged
<1> QED
  BY <1>1, <1>5, <1>6 DEF Inv, Running, Leaves

LEMMA StepInv == Inv /\ [Next]_vars => Inv'
<1> SUFFICES ASSUME Inv, [Next]_vars PROVE Inv'
  OBVIOUS
<1>1. ASSUME UNCHANGED <<world, clients, conn>>, trusted \subseteq trusted', Running' PROVE Inv'
  BY <1>1, Kept DEF Inv, Shaped
<1>2. CASE AutoConfigure \/ Restart
  BY <1>1, <1>2 DEF AutoConfigure, Restart, servers, pki, Inv, Running
<1>3. CASE StartExtension \/ FirstContact
  BY <1>3, ProcessInv
<1>4. CASE \E c \in DOMAIN clients : Connect(c)
  BY <1>4, ConnectInv
<1>5. ASSUME NEW s \in Servers, Leaves(s) PROVE Inv'
  BY <1>5, LeavesInv
<1>6. ASSUME NEW s \in Servers, NEW n, Trust(<<s, n>>) PROVE Inv'
  BY <1>1, <1>6 DEF Trust, servers, Inv, Running
<1>7. ASSUME NEW s \in Servers, TrustUs(s) \/ Expires(s) \/ Returns(s) PROVE Inv'
  BY <1>1, <1>7 DEF TrustUs, Expires, Returns, pki, Inv, Running
<1>8. CASE UNCHANGED vars
  BY <1>1, <1>8 DEF vars, servers, pki, Inv, Running
<1> QED
  BY <1>2, <1>3, <1>4, <1>5, <1>6, <1>7, <1>8 DEF Next

LEMMA InitAsks == Init => Asks
<1> SUFFICES ASSUME Init PROVE Asks
  OBVIOUS
<1>1. PICK s \in Situations : form = s.form /\ entered = s.form
  BY DEF Init
<1>2. clients = <<>> /\ form = entered /\ {"advanced", "servers"} \subseteq DOMAIN form
  BY <1>1, SetupAssumption DEF Init, SetupAssumption
<1>3. \A i \in DOMAIN form.servers : {"url", "mode"} \subseteq DOMAIN form.servers[i]
  BY <1>1, SetupAssumption DEF SetupAssumption, Listed
<1>4. \A i \in DOMAIN form.servers : Honest(form.servers[i])
  BY <1>2, <1>3 DEF Honest, Asked
<1> QED
  BY <1>2, <1>4 DEF Asks, FormHonest, ClientsHonest

LEMMA AutoConfigureAsks == ASSUME Asks, AutoConfigure PROVE Asks'
<1>1. PICK verdicts : /\ verdicts = IF form.servers = <<>> THEN Probe(Replies, form.advanced)
                                    ELSE CheckServers(form.servers, Replies, form.advanced)
                      /\ \/ form' = form
                         \/ form' = [form EXCEPT !.servers = [i \in DOMAIN verdicts |-> verdicts[i].entry]]
  <2>1. PICK verdicts \in {IF form.servers = <<>> THEN Probe(Replies, form.advanced)
                           ELSE CheckServers(form.servers, Replies, form.advanced)} :
           form' = IF {i \in DOMAIN verdicts : verdicts[i].found} = {} THEN form
                   ELSE [form EXCEPT !.servers = [i \in DOMAIN verdicts |-> verdicts[i].entry]]
    BY Zenon DEF AutoConfigure
  <2>2. verdicts = IF form.servers = <<>> THEN Probe(Replies, form.advanced)
                   ELSE CheckServers(form.servers, Replies, form.advanced)
    BY <2>1, Zenon
  <2> QED
    BY <2>1, <2>2, Zenon
<1>2. \A i \in DOMAIN verdicts : Honest(verdicts[i].entry)
  <2>1. CASE form.servers = <<>>
    <3>1. HonestList(verdicts)
      BY <1>1, <2>1, ProbeIs
    <3> QED
      BY <3>1 DEF HonestList, IsList
  <2>2. CASE form.servers # <<>>
    BY <1>1, <2>2, ServersChecked DEF Asks, FormHonest
  <2> QED
    BY <2>1, <2>2
<1>3. PICK list : list = [i \in DOMAIN verdicts |-> verdicts[i].entry]
  OBVIOUS
<1>4. \A i \in DOMAIN list : Honest(list[i])
  BY <1>2, <1>3
<1>5. UNCHANGED <<entered, clients>>
  BY DEF AutoConfigure
<1>6. FormHonest
  BY DEF Asks
<1>7. {"advanced", "servers"} \subseteq DOMAIN form' /\ form'.advanced = form.advanced /\ form'.servers \in {form.servers, list}
  BY <1>1, <1>3, <1>6 DEF FormHonest
<1>8. ASSUME NEW i \in DOMAIN form'.servers PROVE Honest(form'.servers[i])
  BY <1>4, <1>6, <1>7 DEF FormHonest
<1>9. (\A i \in DOMAIN form.servers : Honest(form.servers[i]))'
  BY <1>5, <1>8 DEF Honest, Asked
<1>10. form'.advanced = entered'.advanced
  BY <1>5, <1>6, <1>7 DEF FormHonest
<1>11. ClientsHonest'
  BY <1>5 DEF Asks, ClientsHonest, AskedForNone
<1> QED
  BY <1>7, <1>9, <1>10, <1>11 DEF Asks, FormHonest

LEMMA StartAsks == ASSUME Asks, StartExtension PROVE Asks'
<1>1. /\ UNCHANGED <<entered, form>>
      /\ clients' = ResolveServers(form.servers, form.advanced) \/ clients' = <<>>
  BY DEF StartExtension, config
<1>2. ASSUME clients' = ResolveServers(form.servers, form.advanced), NEW c \in DOMAIN clients', clients'[c].mode = "None"
      PROVE  AskedForNone(clients'[c].url)
  <2>1. PICK entry : c \in DOMAIN form.servers /\ entry = form.servers[c] /\ Honest(entry)
    BY <1>2 DEF ResolveServers, Asks, FormHonest
  <2>2. clients'[c].url = entry.url /\ clients'[c].mode = IF entry.mode = "default" THEN form.advanced.mode ELSE entry.mode
    BY <1>2, <2>1 DEF ResolveServers, Inherit
  <2> QED
    BY <1>2, <2>1, <2>2 DEF AskedForNone, Honest, Asked, Asks, FormHonest
<1> QED
  BY <1>1, <1>2 DEF Asks, FormHonest, ClientsHonest, AskedForNone, Honest, Asked

LEMMA StepAsks == Asks /\ [Next]_vars => Asks'
<1> SUFFICES ASSUME Asks, [Next]_vars PROVE Asks'
  OBVIOUS
<1>1. ASSUME UNCHANGED <<entered, form>>, UNCHANGED clients \/ clients' = <<>> PROVE Asks'
  BY <1>1 DEF Asks, FormHonest, ClientsHonest, AskedForNone, Honest, Asked
<1>2. CASE AutoConfigure
  BY <1>2, AutoConfigureAsks
<1>3. CASE StartExtension
  BY <1>3, StartAsks
<1>4. CASE FirstContact \/ Restart
  BY <1>1, <1>4 DEF FirstContact, Restart, config
<1>5. CASE \E c \in DOMAIN clients : Connect(c)
  BY <1>1, <1>5 DEF Connect, Contact, Judge, Reject, Open, config
<1>6. CASE \E s \in Servers : (\E n \in 1 .. cert[s] : Trust(<<s, n>>)) \/ TrustUs(s) \/ Expires(s) \/ Leaves(s) \/ Returns(s)
  BY <1>1, <1>6 DEF Trust, TrustUs, Expires, Leaves, Returns, config
<1>7. CASE UNCHANGED vars
  BY <1>1, <1>7 DEF vars, config
<1> QED
  BY <1>2, <1>3, <1>4, <1>5, <1>6, <1>7 DEF Next

-----------------------------------------------------------------------------
\* The invariant the theorem is drawn from: what a connect relies on at each of its awaits.
THEOREM Invariant == Spec => []Inv
<1> QED
  BY InitInv, StepInv, PTL DEF Spec

\* No secure session exists but on an offered endpoint of the configured mode and policy, to a
\* certificate that is pinned or trusted and was in its period at the check unless allowed
\* otherwise -- while certificates are renewed and run out between the check and the channel,
\* and the trust list changes in another process.
THEOREM SecureSessions == Spec => []SecureAsConfigured
<1>1. Inv => SecureAsConfigured
  BY DEF Inv, Judged, Fit, SecureAsConfigured
<1> QED
  BY <1>1, Invariant, PTL

\* AsSecureAsAsked: and no session is without security but one the user asked to have none, of
\* that URL or in Advanced, whatever Auto-configure filled in, however often it ran.
THEOREM SecureUnlessAsked == Spec => []AsSecureAsAsked
<1>1. Inv /\ Asks => AsSecureAsAsked
  BY DEF Inv, Judged, Fit, SecureAsConfigured, Asks, ClientsHonest, AsSecureAsAsked
<1>2. Spec => []Asks
  BY InitAsks, StepAsks, PTL DEF Spec
<1> QED
  BY <1>1, <1>2, Invariant, PTL

-----------------------------------------------------------------------------
(* What a report promises *)

\* A server offers what the entry comes to, under these Advanced settings.
OfferedAs(e, offers, advanced) ==
    Offers(offers, Inherit(e, advanced).mode, Inherit(e, advanced).policy)
Straight(e) == e.mode = "default" => e.policy = "default"

\* An entry as Auto-configure makes one of its own: connectable but for what only the server
\* decides, under a name that the start takes as it is.
Secured(e) == e.mode \in Modes /\ e.policy \in Range(Policies)
Made(e) ==
    /\ "name" \in DOMAIN e /\ Sanitised(e.name)
    /\ e.url # Blank /\ e.url \notin WithUserinfo
    /\ (e.mode = "default" /\ e.policy = "default") \/ Secured(e)
AllMade(list) ==
    /\ \E n \in Nat : DOMAIN list = 1 .. n
    /\ \A i \in DOMAIN list : Made(list[i])
    /\ \A i, j \in DOMAIN list : i # j => list[i].name # list[j].name

\* A check keeps the entry, but may fill in the mode and policy.
Filled(e, old) ==
    /\ Listed(e) /\ e.url = old.url
    /\ Made(old) => Made(e) /\ e.name = old.name

LEMMA StrongestIs ==
    ASSUME NEW offers, NEW m \in Modes, Usable(offers, m) # {}
    PROVE  Secured(Strongest(offers))
<1>1. PICK mode \in Modes : mode = IF Usable(offers, "SignAndEncrypt") # {} THEN "SignAndEncrypt" ELSE "Sign"
  BY DEF Modes
<1>2. Usable(offers, mode) # {}
  BY <1>1 DEF Modes
<1>3. DOMAIN Policies \subseteq Nat
  <2>1. Len(Policies) \in Nat /\ DOMAIN Policies = 1 .. Len(Policies)
    BY ConfigAssumption DEF ConfigAssumption
  <2> QED
    BY <2>1
<1>4. Usable(offers, mode) \subseteq DOMAIN Policies
  BY DEF Usable
<1>5. Min(Usable(offers, mode)) \in DOMAIN Policies
  BY <1>2, <1>3, <1>4, MinIs
<1>6. Strongest(offers) = [mode |-> mode, policy |-> Policies[Min(Usable(offers, mode))]]
  BY <1>1, Zenon DEF Strongest
<1> HIDE DEF Usable
<1> QED
  BY <1>5, <1>6 DEF Secured, Range

\* The policies the client can connect with stand for no default.
LEMMA PoliciesAre == ASSUME NEW p \in Range(Policies) PROVE p # "default" /\ p # "None"
<1>1. PICK i \in DOMAIN Policies : p = Policies[i]
  BY DEF Range
<1>2. Policies \in Seq(STRING \ {"default", "None"})
  BY ConfigAssumption DEF ConfigAssumption
<1>3. Policies[i] \in STRING \ {"default", "None"}
  BY <1>2
<1> QED
  BY <1>1, <1>3

\* _Report.check keeps the entry, and notes a problem unless the server offers what it comes to.
LEMMA CheckFits ==
    ASSUME NEW entry, Listed(entry), NEW offers, NEW advanced, NEW v, v = Check(entry, offers, advanced)
    PROVE  /\ Filled(v.entry, entry)
           /\ ~v.problem /\ Straight(v.entry) => OfferedAs(v.entry, offers, advanced)
<1>1. PICK security : security = Security(offers, advanced)
  OBVIOUS
<1>2. \/ security = Default /\ Offers(offers, advanced.mode, advanced.policy)
      \/ Secured(security)
      \/ security = Default /\ ~Offers(offers, advanced.mode, advanced.policy)
      \/ security = NoSecurity
  BY <1>1, StrongestIs DEF Security
<1>3. /\ Default.mode = "default" /\ Default.policy = "default" /\ NoSecurity # Default
      /\ \A m \in Modes : m # "default"
  BY DEF Default, NoSecurity, Modes
<1>4. PICK filled : filled = IF entry.mode = "default" /\ security # Default
                             THEN [entry EXCEPT !.mode = security.mode, !.policy = security.policy] ELSE entry
  OBVIOUS
<1>5. PICK doubt \in BOOLEAN : doubt <=> (filled.mode = "default" /\ ~Offers(offers, advanced.mode, advanced.policy))
  OBVIOUS
<1>6. \/ v.entry = entry /\ v.problem /\ entry.mode = "default" /\ security = NoSecurity
      \/ /\ ~(entry.mode = "default" /\ security = NoSecurity) /\ v.entry = filled
         /\ v.problem \/ (~doubt /\ (filled.mode = "default" \/ OfferedAs(filled, offers, advanced)))
  <2>1. v = IF entry.mode = "default" /\ security = NoSecurity THEN Verdict(entry, FALSE, TRUE)
            ELSE IF filled.mode # "default" /\ ~OfferedAs(filled, offers, advanced)
                 THEN Verdict(filled, FALSE, TRUE)
            ELSE Verdict(filled, TRUE,
                         filled.mode = "default" /\ ~Offers(offers, advanced.mode, advanced.policy))
    BY <1>1, <1>4, Zenon DEF Check, OfferedAs
  <2>2. CASE entry.mode = "default" /\ security = NoSecurity
    <3>1. v = Verdict(entry, FALSE, TRUE)
      BY <2>1, <2>2, Zenon
    <3> QED
      BY <2>2, <3>1 DEF Verdict
  <2>3. CASE ~(entry.mode = "default" /\ security = NoSecurity) /\ filled.mode # "default"
             /\ ~OfferedAs(filled, offers, advanced)
    <3>1. v = Verdict(filled, FALSE, TRUE)
      BY <2>1, <2>3, Zenon
    <3> QED
      BY <2>3, <3>1 DEF Verdict
  <2>4. CASE ~(entry.mode = "default" /\ security = NoSecurity)
             /\ ~(filled.mode # "default" /\ ~OfferedAs(filled, offers, advanced))
    <3>1. v = Verdict(filled, TRUE, filled.mode = "default" /\ ~Offers(offers, advanced.mode, advanced.policy))
      BY <2>1, <2>4, Zenon
    <3>2. doubt = (filled.mode = "default" /\ ~Offers(offers, advanced.mode, advanced.policy))
      BY <1>5, Zenon
    <3>3. v = Verdict(filled, TRUE, doubt)
      BY <3>1, <3>2, Zenon
    <3>4. v.entry = filled /\ v.problem = doubt
      BY <3>3 DEF Verdict
    <3> QED
      BY <1>5, <2>4, <3>4
  <2> QED
    BY <2>2, <2>3, <2>4
<1>7. Filled(entry, entry)
  BY DEF Filled
<1>8. ASSUME Secured(security) PROVE Filled([entry EXCEPT !.mode = security.mode, !.policy = security.policy], entry)
  <2>1. PICK e : e = [entry EXCEPT !.mode = security.mode, !.policy = security.policy]
    OBVIOUS
  <2>2. DOMAIN e = DOMAIN entry /\ e.url = entry.url /\ e.mode = security.mode /\ e.policy = security.policy
    BY <2>1 DEF Listed
  <2>3. "name" \in DOMAIN entry => e.name = entry.name
    BY <2>1
  <2>4. Listed(e)
    BY <2>2 DEF Listed
  <2>5. Secured(e)
    BY <1>8, <2>2 DEF Secured
  <2>6. Made(entry) => Made(e) /\ e.name = entry.name
    BY <2>2, <2>3, <2>5 DEF Made
  <2> QED
    BY <2>1, <2>2, <2>4, <2>6 DEF Filled
<1>9. (entry.mode = "default" /\ security = NoSecurity) \/ Filled(filled, entry)
  BY <1>2, <1>3, <1>4, <1>7, <1>8
<1>10. Filled(v.entry, entry)
  BY <1>6, <1>7, <1>9
<1>11. ASSUME ~v.problem, Straight(v.entry) PROVE OfferedAs(v.entry, offers, advanced)
  <2>1. v.entry = filled /\ ~doubt /\ (filled.mode = "default" \/ OfferedAs(filled, offers, advanced))
    BY <1>6, <1>11
  <2>2. CASE filled.mode = "default"
    <3>1. filled.policy = "default" /\ Offers(offers, advanced.mode, advanced.policy)
      BY <1>5, <1>11, <2>1, <2>2 DEF Straight
    <3>2. Inherit(filled, advanced).mode = advanced.mode /\ Inherit(filled, advanced).policy = advanced.policy
      BY <2>2, <3>1 DEF Inherit
    <3> QED
      BY <2>1, <3>1, <3>2 DEF OfferedAs
  <2>3. CASE filled.mode # "default"
    BY <2>1, <2>3
  <2> QED
    BY <2>2, <2>3
<1> QED
  BY <1>10, <1>11

LEMMA FromTwo == ASSUME NEW n \in Nat PROVE IsFiniteSet(2 .. (n + 2)) /\ Cardinality(2 .. (n + 2)) = n + 1
<1>1. 2 \in Int /\ n + 2 \in Int /\ ~(2 > n + 2) /\ (n + 2) - 2 + 1 = n + 1
  OBVIOUS
<1> QED
  BY <1>1, FS_Interval

\* A server found gets a name that none before has, and that the start takes as it is.
LEMMA UniqueIs ==
    ASSUME NEW label, Labelled(label), NEW taken, IsFiniteSet(taken), Cardinality(taken) < Len(ProbedUrls)
    PROVE  UniqueName(label, taken) \notin taken /\ Sanitised(UniqueName(label, taken))
<1>1. PICK base : base = TraceName[label] /\ Sanitised(base)
  BY DEF Labelled
<1>2. PICK n \in Nat : n = Cardinality(taken)
  BY FS_CardinalityType
<1>3. PICK m \in Nat : m = Len(ProbedUrls) /\ n + 2 <= m + 1
  BY <1>2, ConfigAssumption DEF ConfigAssumption
<1>4. PICK numbers : numbers = 2 .. (n + 2) /\ numbers \subseteq 2 .. (m + 1) /\ numbers \subseteq Nat
  BY <1>3
<1>5. /\ \A k \in numbers : Sanitised(Numbered[base, k])
      /\ \A k, j \in numbers : k # j => Numbered[base, k] # Numbered[base, j]
  BY <1>1, <1>3, <1>4 DEF Labelled
<1> DEFINE free == {k \in 2 .. (Cardinality(taken) + 2) : Numbered[TraceName[label], k] \notin taken}
           least == CHOOSE k \in free : \A j \in free : k <= j
<1>6. UniqueName(label, taken) = IF TraceName[label] \notin taken THEN TraceName[label]
                                 ELSE Numbered[TraceName[label], least]
  BY Zenon DEF UniqueName
<1>7. free = {k \in numbers : Numbered[base, k] \notin taken}
  BY <1>1, <1>2, <1>4
<1> HIDE DEF free
<1>8. IsFiniteSet(numbers) /\ Cardinality(taken) < Cardinality(numbers)
  <2>1. IsFiniteSet(numbers) /\ Cardinality(numbers) = n + 1
    BY <1>4, FromTwo
  <2> QED
    BY <1>2, <2>1
<1>9. free # {}
  <2> SUFFICES ASSUME \A k \in numbers : Numbered[base, k] \in taken PROVE FALSE
    BY <1>7
  <2>1. PICK f \in [numbers -> taken] : \A k \in numbers : f[k] = Numbered[base, k]
    <3>1. [k \in numbers |-> Numbered[base, k]] \in [numbers -> taken]
      OBVIOUS
    <3> QED
      BY <3>1
  <2>2. \E k, j \in numbers : k # j /\ f[k] = f[j]
    BY <1>8, FS_PigeonHole, Zenon
  <2> QED
    BY <1>5, <2>1, <2>2
<1>10. least \in free
  <2>1. free \subseteq Nat
    BY <1>4, <1>7
  <2>2. \E k \in free : \A j \in free : k <= j
    BY <1>9, <2>1, MinIs
  <2> QED
    BY <2>2, Zenon
<1> HIDE DEF least
<1>11. least \in numbers /\ Numbered[base, least] \notin taken
  BY <1>7, <1>10
<1> QED
  BY <1>1, <1>5, <1>6, <1>11

\* What the world has is what Situations allows, and a server that answers is one of its own.
Worldly ==
    /\ \A v \in Servers : Served(world.offers[v], world.label[v]) /\ world.path[v] \in Paths
    /\ \A k \in 1 .. Len(ProbedUrls) : Leads(world, ProbedUrls[k])

LEMMA ServerAt ==
    ASSUME up \subseteq Servers, NEW u \in Urls, Endpoints(u, Replies[u]).kind = "server"
    PROVE  /\ world.at[u] \in Servers /\ u \notin WithUserinfo
           /\ Replies[u].offers = world.offers[world.at[u]] /\ Replies[u].label = world.label[world.at[u]]
           /\ Replies[u].path = world.path[world.at[u]]
           /\ Endpoints(u, Replies[u]) = Replies[u]
<1>1. Credentials.kind # "server" /\ Failed.kind # "server" /\ Unreachable.kind # "server"
  BY DEF Credentials, Failed, Unreachable
<1>2. u \notin WithUserinfo /\ Endpoints(u, Replies[u]) = Replies[u]
  BY <1>1 DEF Endpoints
<1>3. Replies[u] = Reply(u)
  BY DEF Replies
<1>4. world.at[u] \in up
  BY <1>1, <1>2, <1>3 DEF Reply
<1>5. Reply(u) = [kind |-> "server", key |-> world.at[u], label |-> world.label[world.at[u]],
                  path |-> world.path[world.at[u]], offers |-> world.offers[world.at[u]]]
  BY <1>4 DEF Reply
<1> QED
  BY <1>2, <1>3, <1>4, <1>5

\* An entry whose URL leads to no server but one that offers what it comes to, on whatever
\* transport; and a report on an entry, with a problem if it is not one.
LeadsOnlyTo(url, v) == world.at[url] \in Servers => world.at[url] = v
Fits(e) ==
    Straight(e) => \E v \in Servers :
                       LeadsOnlyTo(e.url, v) /\ OfferedAs(e, world.offers[v], entered.advanced)
Sound(v) == Listed(v.entry) /\ (~v.problem => Fits(v.entry))

LEMMA CheckSound ==
    ASSUME NEW entry, Listed(entry), NEW s \in Servers, LeadsOnlyTo(entry.url, s),
           NEW v, v = Check(entry, world.offers[s], entered.advanced)
    PROVE  Sound(v) /\ Filled(v.entry, entry)
<1>1. /\ Filled(v.entry, entry)
      /\ ~v.problem /\ Straight(v.entry) => OfferedAs(v.entry, world.offers[s], entered.advanced)
  BY CheckFits
<1> QED
  BY <1>1 DEF Sound, Fits, Filled

LEMMA ServersSound ==
    ASSUME up \subseteq Servers, NEW list, \A i \in DOMAIN list : Listed(list[i]),
           NEW out, out = CheckServers(list, Replies, entered.advanced)
    PROVE  DOMAIN out = DOMAIN list /\ \A i \in DOMAIN list : Sound(out[i]) /\ Filled(out[i].entry, list[i])
<1>1. DOMAIN out = DOMAIN list
  BY DEF CheckServers
<1>2. ASSUME NEW i \in DOMAIN list PROVE Sound(out[i]) /\ Filled(out[i].entry, list[i])
  <2>1. PICK entry, reply, answer :
           entry = list[i] /\ reply = Replies[entry.url] /\ answer = Endpoints(entry.url, reply)
    OBVIOUS
  <2>2. out[i] = IF answer.kind = "server" THEN Check(entry, answer.offers, entered.advanced)
                 ELSE Verdict(entry, FALSE, TRUE)
    BY <2>1 DEF CheckServers
  <2>3. Listed(entry)
    BY <2>1
  <2>4. CASE answer.kind = "server"
    <3>1. answer = reply /\ reply.offers = world.offers[world.at[entry.url]] /\ world.at[entry.url] \in Servers
      BY <2>1, <2>3, <2>4, ServerAt DEF Listed
    <3>2. PICK v : v = Check(entry, reply.offers, entered.advanced)
      OBVIOUS
    <3>3. Sound(v) /\ Filled(v.entry, entry)
      BY <2>3, <3>1, <3>2, CheckSound DEF LeadsOnlyTo
    <3> QED
      BY <2>1, <2>2, <2>4, <3>1, <3>2, <3>3
  <2>5. CASE answer.kind # "server"
    <3>1. out[i].entry = entry /\ out[i].problem = TRUE
      BY <2>2, <2>5 DEF Verdict
    <3> QED
      BY <2>1, <2>3, <3>1 DEF Sound, Filled
  <2> QED
    BY <2>4, <2>5
<1> QED
  BY <1>1, <1>2

\* A check of a list that Auto-configure made is one it could have made.
LEMMA StillMade ==
    ASSUME NEW list, AllMade(list), NEW out, DOMAIN out = DOMAIN list,
           \A i \in DOMAIN list : Filled(out[i], list[i])
    PROVE  AllMade(out)
  BY DEF AllMade, Filled

\* What the probe has found after some of its URLs: as many names taken at most, the entries'
\* among them and apart.
ProbeFits(probed, k) ==
    /\ IsFiniteSet(probed.taken) /\ Cardinality(probed.taken) <= k
    /\ IsList(probed.found)
    /\ \A i \in 1 .. Len(probed.found) :
          /\ Sound(probed.found[i]) /\ Made(probed.found[i].entry)
          /\ probed.found[i].entry.name \in probed.taken
    /\ \A i, j \in 1 .. Len(probed.found) :
          i # j => probed.found[i].entry.name # probed.found[j].entry.name

LEMMA NewIsMade ==
    ASSUME NEW name, Sanitised(name), NEW u \in Urls, u # Blank, u \notin WithUserinfo
    PROVE  Listed(NewEntry(name, u)) /\ Made(NewEntry(name, u)) /\ NewEntry(name, u).url = u
           /\ NewEntry(name, u).name = name
  BY DEF NewEntry, Listed, Made

LEMMA AddFits ==
    ASSUME up \subseteq Servers, Worldly, NEW k \in 1 .. Len(ProbedUrls), First(Replies, k),
           NEW probed, ProbeFits(probed, k - 1)
    PROVE  ProbeFits(Add(probed, k, Replies, entered.advanced), k)
<1>1. PICK u, url, name, verdict :
         /\ u = ProbedUrls[k] /\ url = UrlOf(Replies, u)
         /\ name = UniqueName(LabelOf(Replies, u), probed.taken)
         /\ verdict = Check(NewEntry(name, url), Replies[u].offers, entered.advanced)
         /\ Add(probed, k, Replies, entered.advanced).taken = probed.taken \cup {name}
         /\ Add(probed, k, Replies, entered.advanced).found =
               IF verdict.found THEN Append(probed.found, verdict) ELSE probed.found
  BY AddIs
<1>2. PICK m \in Nat : m = Len(ProbedUrls) /\ k \in Nat /\ k - 1 < m /\ k - 1 \in Nat
  BY ConfigAssumption DEF ConfigAssumption
<1>3. u \in Urls /\ u # Blank /\ Labelled(HostName[u])
  <2>1. ProbedUrls[k] \in Urls \ {Blank} /\ Labelled(HostName[ProbedUrls[k]])
    BY ConfigAssumption DEF ConfigAssumption
  <2> QED
    BY <1>1, <2>1
<1>4. Endpoints(u, Replies[u]).kind = "server"
  BY <1>1 DEF First
<1>5. PICK s \in Servers :
         /\ s = world.at[u] /\ u \notin WithUserinfo /\ Replies[u].label = world.label[s]
         /\ Replies[u].path = world.path[s] /\ Replies[u].offers = world.offers[s]
  BY <1>3, <1>4, ServerAt
<1>6. Labelled(LabelOf(Replies, u))
  BY <1>3, <1>5 DEF LabelOf, Worldly, Served
<1>7. name \notin probed.taken /\ Sanitised(name)
  <2>1. IsFiniteSet(probed.taken) /\ Cardinality(probed.taken) < Len(ProbedUrls)
    <3>1. IsFiniteSet(probed.taken) /\ Cardinality(probed.taken) <= k - 1
      BY DEF ProbeFits
    <3>2. Cardinality(probed.taken) \in Nat
      BY <3>1, FS_CardinalityType
    <3> QED
      BY <1>2, <3>1, <3>2
  <2> QED
    BY <1>1, <1>6, <2>1, UniqueIs
<1>8. PICK entry : entry = NewEntry(name, url) /\ Listed(entry) /\ Made(entry) /\ entry.url = url /\ entry.name = name
  <2>1. url = AtPath[u, world.path[s]] /\ world.path[s] \in Paths
    BY <1>1, <1>5 DEF Worldly, UrlOf
  <2>2. url \in Urls /\ url # Blank /\ url \notin WithUserinfo
    BY <1>1, <1>5, <2>1, PathAssumption DEF PathAssumption
  <2> QED
    BY <1>7, <2>2, NewIsMade
<1>9. Sound(verdict) /\ Made(verdict.entry) /\ verdict.entry.name = name
  <2>1. LeadsOnlyTo(url, s)
    <3>1. Leads(world, u)
      BY <1>1 DEF Worldly
    <3>2. url = AtPath[u, world.path[world.at[u]]]
      BY <1>1, <1>5 DEF UrlOf
    <3> QED
      BY <1>5, <3>1, <3>2 DEF Leads, LeadsOnlyTo
  <2>2. verdict = Check(entry, world.offers[s], entered.advanced) /\ LeadsOnlyTo(entry.url, s)
    BY <1>1, <1>5, <1>8, <2>1
  <2>3. Sound(verdict) /\ Filled(verdict.entry, entry)
    BY <1>8, <2>2, CheckSound
  <2> QED
    BY <1>8, <2>3 DEF Filled
<1>10. PICK taken : taken = probed.taken \cup {name} /\ IsFiniteSet(taken) /\ Cardinality(taken) <= k
  <2>1. IsFiniteSet(probed.taken) /\ Cardinality(probed.taken) <= k - 1
    BY DEF ProbeFits
  <2>2. Cardinality(probed.taken) \in Nat
    BY <2>1, FS_CardinalityType
  <2>3. IsFiniteSet(probed.taken \cup {name}) /\ Cardinality(probed.taken \cup {name}) = Cardinality(probed.taken) + 1
    BY <1>7, <2>1, FS_AddElement
  <2> QED
    BY <1>2, <2>1, <2>2, <2>3
<1>11. PICK old : /\ old = probed.found /\ IsList(old)
                  /\ \A i \in 1 .. Len(old) :
                        Sound(old[i]) /\ Made(old[i].entry) /\ old[i].entry.name \in probed.taken
                  /\ \A i, j \in 1 .. Len(old) : i # j => old[i].entry.name # old[j].entry.name
  BY DEF ProbeFits
<1>12. PICK added : added = Add(probed, k, Replies, entered.advanced)
  OBVIOUS
<1>13. CASE verdict.found
  <2>1. PICK longer : longer = Append(old, verdict)
    OBVIOUS
  <2>2. Lengthens(longer, old, verdict)
    BY <1>11, <2>1, Appended
  <2>3. \A i \in 1 .. Len(longer) : i \in 1 .. Len(old) \/ i = Len(old) + 1
    BY <1>11, <2>2, SMTT(20) DEF IsList, Lengthens
  <2>4. added.found = longer /\ added.taken = taken
    BY <1>1, <1>10, <1>11, <1>12, <1>13, <2>1
  <2>5. \A i \in 1 .. Len(old) : longer[i] = old[i]
    BY <2>2 DEF Lengthens
  <2>6. longer[Len(old) + 1] = verdict
    BY <2>2 DEF Lengthens
  <2>7. ASSUME NEW i \in 1 .. Len(longer)
        PROVE  Sound(longer[i]) /\ Made(longer[i].entry) /\ longer[i].entry.name \in taken
    BY <1>9, <1>10, <1>11, <2>3, <2>5, <2>6
  <2>8. ASSUME NEW i \in 1 .. Len(longer), NEW j \in 1 .. Len(longer), i # j
        PROVE  longer[i].entry.name # longer[j].entry.name
    <3>1. CASE i \in 1 .. Len(old) /\ j \in 1 .. Len(old)
      BY <1>11, <2>5, <2>8, <3>1
    <3>2. CASE i \in 1 .. Len(old) /\ j = Len(old) + 1
      BY <1>7, <1>9, <1>11, <2>5, <2>6, <3>2
    <3>3. CASE i = Len(old) + 1 /\ j \in 1 .. Len(old)
      BY <1>7, <1>9, <1>11, <2>5, <2>6, <3>3
    <3> QED
      BY <2>3, <2>8, <3>1, <3>2, <3>3
  <2>9. IsList(longer)
    BY <2>2 DEF Lengthens
  <2> QED
    BY <1>10, <1>12, <2>4, <2>7, <2>8, <2>9 DEF ProbeFits
<1>14. CASE ~verdict.found
  <2>1. added.found = old /\ added.taken = taken
    BY <1>1, <1>10, <1>11, <1>12, <1>14
  <2> QED
    BY <1>10, <1>11, <1>12, <2>1 DEF ProbeFits
<1> QED
  BY <1>13, <1>14

LEMMA ProbeSound ==
    ASSUME up \subseteq Servers, Worldly, NEW out, out = Probe(Replies, entered.advanced)
    PROVE  /\ \E n \in Nat : DOMAIN out = 1 .. n
           /\ \A i \in DOMAIN out : Sound(out[i]) /\ Made(out[i].entry)
           /\ \A i, j \in DOMAIN out : i # j => out[i].entry.name # out[j].entry.name
<1>1. PICK m \in Nat : m = Len(ProbedUrls)
  BY ConfigAssumption DEF ConfigAssumption
<1>2. PICK f : ProbedBy(Replies, entered.advanced, f)
  BY ProbeSteps
<1> DEFINE S == {k \in Nat : k <= m => ProbeFits(f[k], k)}
<1>3. 0 \in S
  <2>1. f[0].taken = {} /\ f[0].found = <<>>
    BY <1>2 DEF ProbedBy
  <2>2. IsFiniteSet(f[0].taken) /\ Cardinality(f[0].taken) = 0
    BY <2>1, FS_EmptySet
  <2>3. Len(f[0].found) = 0 /\ IsList(f[0].found)
    BY <2>1 DEF IsList
  <2>4. ProbeFits(f[0], 0)
    BY <2>2, <2>3 DEF ProbeFits
  <2> QED
    BY <2>4
<1>4. ASSUME NEW k \in Nat, k \in S PROVE k + 1 \in S
  <2> SUFFICES ASSUME k + 1 <= m PROVE ProbeFits(f[k + 1], k + 1)
    OBVIOUS
  <2>1. ProbeFits(f[k], k)
    BY <1>4
  <2>2. PICK n \in 1 .. Len(ProbedUrls) : n = k + 1 /\ n - 1 = k
    BY <1>1
  <2>3. f[n] = IF First(Replies, n) THEN Add(f[k], n, Replies, entered.advanced) ELSE f[k]
    BY <1>2, <2>2 DEF ProbedBy
  <2>4. CASE First(Replies, n)
    BY <2>1, <2>2, <2>3, <2>4, AddFits
  <2>5. CASE ~First(Replies, n)
    <3>1. IsFiniteSet(f[k].taken) /\ Cardinality(f[k].taken) <= k
      BY <2>1 DEF ProbeFits
    <3>2. Cardinality(f[k].taken) \in Nat
      BY <3>1, FS_CardinalityType
    <3>3. Cardinality(f[k].taken) <= k + 1
      BY <3>1, <3>2
    <3>4. ProbeFits(f[k], k + 1)
      BY <2>1, <3>3 DEF ProbeFits
    <3> QED
      BY <2>2, <2>3, <2>5, <3>4
  <2> QED
    BY <2>4, <2>5
<1> HIDE DEF S
<1>5. \A k \in Nat : k \in S
  BY <1>3, <1>4, NatSetInduction
<1>6. ProbeFits(f[m], m)
  BY <1>5 DEF S
<1>7. out = f[m].found
  BY <1>1, <1>2 DEF ProbedBy
<1>8. IsList(out) /\ DOMAIN out = 1 .. Len(out) /\ Len(out) \in Nat
  BY <1>6, <1>7 DEF ProbeFits, IsList
<1> QED
  BY <1>6, <1>7, <1>8 DEF ProbeFits

\* The situation is one of those the model starts from, and every entry whose URL the last
\* report vouches for is of a server that offers what it comes to.  In a form the user left
\* empty, every entry is Auto-configure's own.
Situated == \E s \in Situations : world = s.world /\ entered.advanced = s.form.advanced
FormFits ==
    /\ Situated
    /\ \A i \in DOMAIN form.servers :
          Listed(form.servers[i]) /\ (form.servers[i].url \in vouched => Fits(form.servers[i]))
    /\ entered.servers = <<>> => AllMade(form.servers)

\* The clients are the form's, and one that its server's offers turned away would be again.
TurnedAway(c) == At(c) \in Servers /\ ~Offered(c)
ClientsFit ==
    /\ IF process \in {"starting", "serving"}
       THEN clients = ResolveServers(form.servers, form.advanced) ELSE clients = <<>>
    /\ process = "invalid" => ~BuildsClients(form.servers, form.advanced)
    /\ \A c \in DOMAIN clients : conn[c].problem = "offers" => TurnedAway(c)

FitsAll == Asks /\ FormFits /\ ClientsFit

LEMMA WorldlyIs == ASSUME Situated PROVE Worldly /\ Enumerated(entered.advanced)
<1>1. PICK s \in Situations : world = s.world /\ entered.advanced = s.form.advanced
  BY DEF Situated
<1>2. /\ Enumerated(s.form.advanced)
      /\ \A v \in Servers : Served(s.world.offers[v], s.world.label[v]) /\ s.world.path[v] \in Paths
      /\ \A k \in 1 .. Len(ProbedUrls) : Leads(s.world, ProbedUrls[k])
  BY SetupAssumption DEF SetupAssumption
<1> QED
  BY <1>1, <1>2 DEF Worldly

LEMMA InitFits == Init => FormFits /\ ClientsFit
<1> SUFFICES ASSUME Init PROVE FormFits /\ ClientsFit
  OBVIOUS
<1>1. PICK s \in Situations : world = s.world /\ entered = s.form /\ form = s.form
  BY DEF Init
<1>2. vouched = {} /\ process = "stopped" /\ clients = <<>>
  BY DEF Init
<1>3. \A i \in DOMAIN form.servers : Listed(form.servers[i])
  BY <1>1, SetupAssumption DEF SetupAssumption
<1>4. Situated
  BY <1>1 DEF Situated
<1>5. ASSUME entered.servers = <<>> PROVE AllMade(form.servers)
  <2>1. PICK list : list = form.servers /\ DOMAIN list = {}
    BY <1>1, <1>5
  <2>2. 0 \in Nat /\ DOMAIN list = 1 .. 0
    BY <2>1
  <2> QED
    BY <2>1, <2>2 DEF AllMade
<1>6. FormFits
  BY <1>2, <1>3, <1>4, <1>5 DEF FormFits
<1>7. ClientsFit
  BY <1>2 DEF ClientsFit
<1> QED
  BY <1>6, <1>7

\* An entry's fit depends on what does not change.
LEMMA FitsAlike ==
    ASSUME UNCHANGED <<world, entered>>, NEW e, Fits(e)
    PROVE  Fits(e)'
  BY DEF Fits, LeadsOnlyTo

\* What Auto-configure makes of its verdicts.
Configured(verdicts) ==
    /\ form' = IF {i \in DOMAIN verdicts : verdicts[i].found} = {} THEN form
               ELSE [form EXCEPT !.servers = [i \in DOMAIN verdicts |-> verdicts[i].entry]]
    /\ vouched' = {verdicts[i].entry.url : i \in {i \in DOMAIN verdicts : verdicts[i].found}}
                     \ {verdicts[i].entry.url : i \in {j \in DOMAIN verdicts : verdicts[j].problem}}

LEMMA AutoConfigureFits == ASSUME up \subseteq Servers, Asks, FormFits, AutoConfigure PROVE FormFits'
<1>1. PICK verdicts : /\ verdicts = IF form.servers = <<>> THEN Probe(Replies, form.advanced)
                                    ELSE CheckServers(form.servers, Replies, form.advanced)
                      /\ Configured(verdicts)
  <2>1. PICK verdicts \in {IF form.servers = <<>> THEN Probe(Replies, form.advanced)
                           ELSE CheckServers(form.servers, Replies, form.advanced)} : Configured(verdicts)
    BY Zenon DEF AutoConfigure, Configured
  <2>2. verdicts = IF form.servers = <<>> THEN Probe(Replies, form.advanced)
                   ELSE CheckServers(form.servers, Replies, form.advanced)
    BY <2>1, Zenon
  <2> QED
    BY <2>1, <2>2, Zenon
<1>2. /\ UNCHANGED <<world, entered>> /\ form.advanced = entered.advanced /\ "servers" \in DOMAIN form
      /\ Worldly
  BY WorldlyIs DEF AutoConfigure, servers, Asks, FormHonest, FormFits
<1>3. PICK list : list = [i \in DOMAIN verdicts |-> verdicts[i].entry]
  OBVIOUS
<1>4. (\A i \in DOMAIN verdicts : Sound(verdicts[i])) /\ (entered.servers = <<>> => AllMade(list))
  <2>1. CASE form.servers = <<>>
    <3>1. verdicts = Probe(Replies, entered.advanced)
      BY <1>1, <1>2, <2>1
    <3>2. /\ \E n \in Nat : DOMAIN verdicts = 1 .. n
          /\ \A i \in DOMAIN verdicts : Sound(verdicts[i]) /\ Made(verdicts[i].entry)
          /\ \A i, j \in DOMAIN verdicts : i # j => verdicts[i].entry.name # verdicts[j].entry.name
      BY <1>2, <3>1, ProbeSound
    <3>3. AllMade(list)
      BY <1>3, <3>2 DEF AllMade
    <3> QED
      BY <3>2, <3>3
  <2>2. CASE form.servers # <<>>
    <3>1. PICK old : old = form.servers /\ (\A i \in DOMAIN old : Listed(old[i]))
                     /\ (entered.servers = <<>> => AllMade(old))
      BY DEF FormFits
    <3>2. verdicts = CheckServers(old, Replies, entered.advanced)
      BY <1>1, <1>2, <2>2, <3>1
    <3>3. DOMAIN verdicts = DOMAIN old /\ \A i \in DOMAIN old : Sound(verdicts[i]) /\ Filled(verdicts[i].entry, old[i])
      BY <3>1, <3>2, ServersSound
    <3>4. DOMAIN list = DOMAIN old /\ \A i \in DOMAIN old : Filled(list[i], old[i])
      BY <1>3, <3>3
    <3>5. AllMade(old) => AllMade(list)
      BY <3>4, StillMade
    <3> QED
      BY <3>1, <3>3, <3>5
  <2> QED
    BY <2>1, <2>2
<1>5. (form'.servers = form.servers /\ vouched' = {}) \/ form'.servers = list
  <2>1. CASE {i \in DOMAIN verdicts : verdicts[i].found} = {}
    BY <1>1, <2>1 DEF Configured
  <2>2. CASE {i \in DOMAIN verdicts : verdicts[i].found} # {}
    BY <1>1, <1>2, <1>3, <2>2 DEF Configured
  <2> QED
    BY <2>1, <2>2
<1>6. Situated'
  BY <1>2 DEF FormFits, Situated
<1>7. CASE form'.servers = form.servers /\ vouched' = {}
  BY <1>2, <1>6, <1>7 DEF FormFits
<1>8. CASE form'.servers = list
  <2>1. ASSUME NEW i \in DOMAIN list PROVE Listed(list[i]) /\ (list[i].url \in vouched' => Fits(list[i])')
    <3>1. list[i] = verdicts[i].entry /\ i \in DOMAIN verdicts
      BY <1>3
    <3>2. Sound(verdicts[i])
      BY <1>4, <3>1
    <3>3. ASSUME list[i].url \in vouched' PROVE ~verdicts[i].problem
      BY <1>1, <3>1, <3>3 DEF Configured
    <3>4. ASSUME list[i].url \in vouched' PROVE Fits(list[i])
      BY <3>1, <3>2, <3>3, <3>4 DEF Sound
    <3> QED
      BY <1>2, <3>1, <3>2, <3>4, FitsAlike DEF Sound
  <2>2. (\A i \in DOMAIN form.servers :
            Listed(form.servers[i]) /\ (form.servers[i].url \in vouched => Fits(form.servers[i])))'
    BY <1>8, <2>1
  <2>3. (entered.servers = <<>> => AllMade(form.servers))'
    BY <1>2, <1>4, <1>8
  <2> QED
    BY <1>6, <2>2, <2>3 DEF FormFits
<1> QED
  BY <1>5, <1>7, <1>8

LEMMA FormFitsAlike == ASSUME FormFits, UNCHANGED <<world, config>> PROVE FormFits'
  BY DEF FormFits, Situated, Fits, LeadsOnlyTo, config

\* No client's problem changes but to one that is not about its server's offers, or is apt.
LEMMA ClientsFitAlike ==
    ASSUME ClientsFit, UNCHANGED <<world, config, process, clients>>,
           \A c \in DOMAIN clients : conn'[c].problem \in {conn[c].problem} \/ conn'[c].problem # "offers" \/ TurnedAway(c)
    PROVE  ClientsFit'
<1>1. \A c \in DOMAIN clients : TurnedAway(c) => TurnedAway(c)'
  BY DEF TurnedAway, Offered, At
<1>2. UNCHANGED form
  BY DEF config
<1> QED
  BY <1>1, <1>2 DEF ClientsFit

LEMMA ConnectFits == ASSUME Inv, ClientsFit, NEW c \in DOMAIN clients, Connect(c) PROVE ClientsFit'
<1>1. UNCHANGED <<world, config, process, clients>>
  BY DEF Connect, Contact, Judge, Reject, Open, servers
<1>2. Shaped
  BY DEF Inv
<1>3. \/ \E problem \in Problems \ {"offers"} : Ends(c, problem)
      \/ Ends(c, "offers") /\ TurnedAway(c)
      \/ \E step \in Steps : Goes(c, step)
      \/ \E crt \in Certificates : Receives(c, crt)
  <2>1. {"none", "unreachable", "user", "pinned", "period", "untrusted", "rejected us"} = Problems \ {"offers"}
    BY DEF Problems
  <2>2. {"open", "refusing"} \subseteq Steps /\ (At(c) \in up => At(c) \in Servers)
    BY DEF Steps, Inv, Running
  <2>3. CASE Contact(c)
    <3>1. At(c) \in up => CertOf(At(c)) \in Certificates
      BY DEF Inv, Running, Certificates, CertOf
    <3>2. \/ \E problem \in {"unreachable", "user"} : Ends(c, problem)
          \/ Ends(c, "offers") /\ At(c) \in up /\ ~Offered(c)
          \/ Goes(c, "open")
          \/ At(c) \in up /\ Receives(c, CertOf(At(c)))
      BY <2>3 DEF Contact, Reachable
    <3> QED
      BY <2>1, <2>2, <3>1, <3>2 DEF TurnedAway
  <2>4. CASE Judge(c)
    <3>1. \/ \E problem \in {"pinned", "period"} : Ends(c, problem)
          \/ \E step \in {"refusing", "open"} : Goes(c, step)
      BY <2>4 DEF Judge
    <3> QED
      BY <2>1, <2>2, <3>1
  <2>5. CASE Reject(c)
    BY <2>1, <2>5 DEF Reject
  <2>6. CASE Open(c)
    <3>1. \/ \E problem \in {"unreachable", "rejected us", "none"} : Ends(c, problem)
          \/ Ends(c, "offers") /\ At(c) \in up /\ ~Offered(c)
      BY <2>6 DEF Open, Reachable
    <3> QED
      BY <2>1, <2>2, <3>1 DEF TurnedAway
  <2> QED
    BY <2>3, <2>4, <2>5, <2>6 DEF Connect
<1>4. /\ \A d \in DOMAIN clients \ {c} : conn'[d] = conn[d]
      /\ conn'[c].problem = conn[c].problem \/ conn'[c].problem # "offers" \/ TurnedAway(c)
  <2>1. \A problem \in Problems : Ends(c, problem) =>
           conn'[c].problem = problem /\ \A d \in DOMAIN clients \ {c} : conn'[d] = conn[d]
    BY <1>1, <1>2, EndsIs
  <2>2. \A step \in Steps : Goes(c, step) =>
           conn'[c].problem = conn[c].problem /\ \A d \in DOMAIN clients \ {c} : conn'[d] = conn[d]
    BY <1>1, <1>2, GoesIs
  <2>3. \A crt \in Certificates : Receives(c, crt) =>
           conn'[c].problem = conn[c].problem /\ \A d \in DOMAIN clients \ {c} : conn'[d] = conn[d]
    BY <1>1, <1>2, ReceivesIs
  <2>4. "offers" \in Problems
    BY DEF Problems
  <2> QED
    BY <1>3, <2>1, <2>2, <2>3, <2>4
<1> QED
  BY <1>1, <1>4, ClientsFitAlike

LEMMA StartFits == ASSUME ClientsFit, StartExtension PROVE ClientsFit'
<1>1. /\ UNCHANGED <<form, world>> /\ conn' = [c \in DOMAIN clients' |-> NotYet]
      /\ process' = IF BuildsClients(form.servers, form.advanced) THEN "starting" ELSE "invalid"
      /\ clients' = IF process' = "starting" THEN ResolveServers(form.servers, form.advanced) ELSE <<>>
  BY DEF StartExtension, config, servers
<1>2. \A c \in DOMAIN clients' : conn'[c].problem = "none"
  BY <1>1 DEF NotYet
<1> QED
  BY <1>1, <1>2 DEF ClientsFit

LEMMA ServerFits ==
    ASSUME Inv, ClientsFit, NEW s \in Servers, (\E n \in 1 .. cert[s] : Trust(<<s, n>>)) \/ TrustUs(s) \/ Expires(s) \/ Leaves(s) \/ Returns(s)
    PROVE  ClientsFit'
<1>1. UNCHANGED <<world, config, process, clients>>
  BY DEF Trust, TrustUs, Expires, Leaves, Returns, servers
<1>2. conn' = conn \/ Cut({s})
  BY DEF Trust, TrustUs, Expires, Leaves, Returns
<1>3. Shaped
  BY DEF Inv
<1>4. \A c \in DOMAIN clients : conn'[c].problem = conn[c].problem
  <2>1. CASE conn' = conn
    BY <2>1
  <2>2. CASE Cut({s})
    <3>1. \A c \in DOMAIN clients : [conn[c] EXCEPT !.step = "idle", !.cert = <<>>, !.lapsed = FALSE].problem = conn[c].problem
      BY <1>3 DEF Shaped, Connections
    <3>2. DOMAIN conn = DOMAIN clients
      BY <1>3 DEF Shaped
    <3> QED
      BY <2>2, <3>1, <3>2 DEF Cut
  <2> QED
    BY <1>2, <2>1, <2>2
<1> QED
  BY <1>1, <1>4, ClientsFitAlike

LEMMA StepFits == Inv /\ FitsAll /\ [Next]_vars => FitsAll'
<1> SUFFICES ASSUME Inv, Asks, FormFits, ClientsFit, [Next]_vars PROVE FormFits' /\ ClientsFit'
  BY StepAsks DEF FitsAll
<1>1. CASE AutoConfigure
  <2>1. FormFits'
    BY <1>1, AutoConfigureFits DEF Inv, Running
  <2>2. process = "stopped" /\ clients = <<>> /\ UNCHANGED <<process, clients>>
    BY <1>1 DEF AutoConfigure, ClientsFit
  <2> QED
    BY <2>1, <2>2 DEF ClientsFit
<1>2. CASE StartExtension
  BY <1>2, StartFits, FormFitsAlike DEF StartExtension, servers
<1>3. CASE FirstContact
  <2>1. UNCHANGED <<world, config>> /\ process = "starting"
    BY <1>3 DEF FirstContact, servers
  <2>2. \/ process' = "serving" /\ UNCHANGED <<clients, conn>>
        \/ process' = "exited" /\ clients' = <<>>
    BY <1>3 DEF FirstContact
  <2>3. UNCHANGED form
    BY <2>1 DEF config
  <2> QED
    BY <2>1, <2>2, <2>3, FormFitsAlike DEF ClientsFit, TurnedAway, Offered, At
<1>4. CASE Restart
  <2>1. UNCHANGED <<world, config, clients>> /\ process = "exited" /\ process' = "stopped" /\ clients = <<>>
    BY <1>4 DEF Restart, servers, ClientsFit
  <2> QED
    BY <2>1, FormFitsAlike DEF ClientsFit
<1>5. CASE \E c \in DOMAIN clients : Connect(c)
  <2>1. UNCHANGED <<world, config>>
    BY <1>5 DEF Connect, Contact, Judge, Reject, Open, servers
  <2> QED
    BY <1>5, <2>1, ConnectFits, FormFitsAlike
<1>6. ASSUME NEW s \in Servers, (\E n \in 1 .. cert[s] : Trust(<<s, n>>)) \/ TrustUs(s) \/ Expires(s) \/ Leaves(s) \/ Returns(s)
      PROVE  FormFits' /\ ClientsFit'
  <2>1. UNCHANGED <<world, config>>
    BY <1>6 DEF Trust, TrustUs, Expires, Leaves, Returns, servers
  <2> QED
    BY <1>6, <2>1, ServerFits, FormFitsAlike
<1>7. CASE UNCHANGED vars
  BY <1>7, FormFitsAlike, ClientsFitAlike DEF vars, servers
<1> QED
  BY <1>1, <1>2, <1>3, <1>4, <1>5, <1>6, <1>7 DEF Next

-----------------------------------------------------------------------------
(* From the invariant to what the report promises *)

\* An entry that fits makes a client whose server offers what it asks for, on some transport.
OfferedSomehow(c) ==
    \E ep \in world.offers[At(c)] :
        ep.mode = clients[c].mode /\ (ep.mode = "None" \/ ep.policy = clients[c].policy)

LEMMA FitSuits ==
    ASSUME FitsAll, NEW c \in DOMAIN clients, clients[c].url \in vouched, At(c) \in Servers,
           \A i \in DOMAIN form.servers : Straight(form.servers[i])
    PROVE  OfferedSomehow(c)
<1>1. clients = ResolveServers(form.servers, form.advanced) /\ form.advanced = entered.advanced
  <2>1. c \in {} \/ clients = ResolveServers(form.servers, form.advanced)
    BY DEF FitsAll, ClientsFit
  <2> QED
    BY <2>1 DEF FitsAll, Asks, FormHonest
<1>2. PICK e : c \in DOMAIN form.servers /\ e = form.servers[c]
  BY <1>1 DEF ResolveServers
<1>3. PICK effective : effective = Inherit(e, entered.advanced)
  OBVIOUS
<1>4. clients[c].url = e.url /\ clients[c].mode = effective.mode /\ clients[c].policy = effective.policy
  BY <1>1, <1>2, <1>3 DEF ResolveServers
<1>5. Fits(e) /\ Straight(e)
  BY <1>2, <1>4 DEF FitsAll, FormFits
<1>6. PICK v \in Servers : LeadsOnlyTo(e.url, v) /\ OfferedAs(e, world.offers[v], entered.advanced)
  BY <1>5 DEF Fits
<1>7. v = At(c) /\ Offers(world.offers[v], clients[c].mode, clients[c].policy)
  BY <1>3, <1>4, <1>6 DEF LeadsOnlyTo, OfferedAs, At
<1> QED
  BY <1>7 DEF Offers, OfferedSomehow

\* Of what a server offers: an endpoint of the client's mode and policy is one it can use, if it
\* is over opc.tcp.
LEMMA NotOverTcp ==
    ASSUME Worldly, NEW c \in DOMAIN clients, TurnedAway(c), OfferedSomehow(c)
    PROVE  OnlyElsewhere(c)
<1>1. PICK ep \in world.offers[At(c)] :
         ep.mode = clients[c].mode /\ (ep.mode = "None" \/ ep.policy = clients[c].policy)
  BY DEF OfferedSomehow
<1>2. ep \in [over : {"opc.tcp", "https"}, mode : {"None"}, policy : {"None"}]
             \cup [over : {"opc.tcp", "https"}, mode : Modes, policy : STRING \ {"None"}]
  BY <1>1 DEF TurnedAway, Worldly, Served
<1>3. ep = [over |-> ep.over, mode |-> ep.mode, policy |-> ep.policy]
      /\ (ep.mode = "None" => ep.policy = "None")
  BY <1>2 DEF Modes
<1>4. ep.over # "opc.tcp"
  BY <1>1, <1>3 DEF TurnedAway, Offered
<1> QED
  BY <1>1, <1>4 DEF TurnedAway, OnlyElsewhere

\* A form of Auto-configure's own entries, all of which fit, starts.
LEMMA MadeStarts ==
    ASSUME FitsAll, entered.servers = <<>>, form.servers # <<>>,
           \A i \in DOMAIN form.servers : form.servers[i].url \in vouched,
           form.advanced.user = "none", form.advanced.identity # "half",
           \A i \in DOMAIN form.servers :
              /\ form.servers[i].user = "none" /\ ~form.servers[i].strict
              /\ NameOf(form.servers[i]) \notin Reserved /\ Straight(form.servers[i])
    PROVE  BuildsClients(form.servers, form.advanced)
<1>1. PICK list, advanced : list = form.servers /\ advanced = form.advanced /\ advanced = entered.advanced
  BY DEF FitsAll, Asks, FormHonest
<1>2. /\ AllMade(list) /\ list # <<>>
      /\ \A i \in DOMAIN list : Fits(list[i])
  BY <1>1 DEF FitsAll, FormFits
<1>3. Worldly /\ Enumerated(advanced)
  BY <1>1, WorldlyIs DEF FitsAll, FormFits
<1>4. \A i \in DOMAIN list : NameOf(list[i]) = list[i].name
  BY <1>2 DEF AllMade, Made, Sanitised, NameOf
<1>5. ~Exits(list)
  <2>1. PICK n \in Nat : DOMAIN list = 1 .. n
    BY <1>2 DEF AllMade
  <2>2. ASSUME NEW i \in DOMAIN list
        PROVE  /\ list[i].url # Blank /\ list[i].url \notin WithUserinfo
               /\ NameOf(list[i]) \notin Reserved
               /\ ~ \E j \in 1 .. (i - 1) : NameOf(list[j]) = NameOf(list[i])
    <3>1. ASSUME NEW j \in 1 .. (i - 1) PROVE NameOf(list[j]) # NameOf(list[i])
      <4>1. j \in DOMAIN list /\ j # i
        BY <2>1
      <4> QED
        BY <1>2, <1>4, <4>1 DEF AllMade
    <3> QED
      BY <1>1, <1>2, <3>1 DEF AllMade, Made
  <2> QED
    BY <1>2, <2>2 DEF Exits
<1>6. ASSUME NEW c \in Range(ResolveServers(list, advanced)) PROVE ValidateSecurity(c)
  <2>1. PICK i \in DOMAIN list : c = ResolveServers(list, advanced)[i]
    <3>1. DOMAIN ResolveServers(list, advanced) = DOMAIN list
      BY DEF ResolveServers
    <3> QED
      BY <3>1 DEF Range
  <2> DEFINE e == list[i]
  <2>2. PICK effective : effective = Inherit(e, advanced)
    OBVIOUS
  <2>3. /\ c.mode = effective.mode /\ c.policy = effective.policy /\ c.user = effective.user
        /\ c.identity = advanced.identity /\ c.strict = e.strict
    BY <2>1, <2>2 DEF ResolveServers
  <2>4. c.user = "none" /\ ~c.strict /\ c.identity # "half"
    BY <1>1, <2>1, <2>2, <2>3 DEF Inherit
  <2>5. c.mode # "None" => c.mode \in Modes /\ c.policy \in Range(Policies)
    <3>1. CASE Secured(e)
      <4>1. e.mode # "default" /\ e.policy # "default"
        BY <3>1, PoliciesAre DEF Secured, Modes
      <4> QED
        BY <2>2, <2>3, <3>1, <4>1 DEF Secured, Inherit
    <3>2. CASE e.mode = "default" /\ e.policy = "default"
      <4>1. c.mode = advanced.mode /\ c.policy = advanced.policy
        BY <2>2, <2>3, <3>2 DEF Inherit
      <4>2. PICK offers : /\ offers \subseteq [over : {"opc.tcp", "https"}, mode : {"None"}, policy : {"None"}]
                                         \cup [over : {"opc.tcp", "https"}, mode : Modes, policy : STRING \ {"None"}]
                          /\ Offers(offers, advanced.mode, advanced.policy)
        <5>1. PICK v \in Servers : OfferedAs(e, world.offers[v], advanced)
          BY <1>1, <1>2, <2>1, <3>2 DEF Fits, Straight
        <5> QED
          BY <1>3, <2>2, <2>3, <4>1, <5>1 DEF Worldly, Served, OfferedAs
      <4>3. ASSUME c.mode # "None" PROVE c.policy # "None"
        <5>1. PICK ep \in offers : ep.mode = advanced.mode /\ ep.policy = advanced.policy
          BY <4>1, <4>2, <4>3 DEF Offers
        <5>2. ep \in [over : {"opc.tcp", "https"}, mode : Modes, policy : STRING \ {"None"}]
          BY <4>1, <4>2, <4>3, <5>1
        <5> QED
          BY <4>1, <5>1, <5>2
      <4> QED
        BY <1>3, <4>1, <4>3 DEF Enumerated
    <3> QED
      BY <1>2, <2>1, <3>1, <3>2 DEF AllMade, Made
  <2> QED
    BY <2>4, <2>5 DEF ValidateSecurity
<1> QED
  BY <1>1, <1>5, <1>6 DEF BuildsClients

\* ReportedFits: a form that Auto-configure filled in, and whose report noted no problem, is one
\* the start accepts -- its names apart, its URLs free of credentials, its security complete --
\* and a client of an entry the report vouches for is turned away for what its server offers only
\* if the server offers it on another transport than opc.tcp, for any offers, labels, paths and
\* Advanced settings, and however often Auto-configure ran since.
THEOREM WhatIsReportedFits == Spec => []ReportedFits
<1>1. ASSUME FitsAll PROVE ReportedFits
  <2> SUFFICES ASSUME Reviewed
               PROVE  /\ entered.servers = <<>> /\ form.servers # <<>>
                           /\ (\A i \in DOMAIN form.servers : form.servers[i].url \in vouched)
                         => process # "invalid"
                      /\ \A c \in DOMAIN clients :
                           clients[c].url \in vouched /\ conn[c].problem = "offers" => OnlyElsewhere(c)
    BY Zenon DEF ReportedFits
  <2>1. ASSUME \A i \in DOMAIN form.servers : form.servers[i].url \in vouched,
               entered.servers = <<>>, form.servers # <<>>
        PROVE  process # "invalid"
    <3>1. BuildsClients(form.servers, form.advanced)
      BY <1>1, <2>1, MadeStarts DEF Reviewed, Straight
    <3> QED
      BY <1>1, <3>1 DEF FitsAll, ClientsFit
  <2>2. ASSUME NEW c \in DOMAIN clients, clients[c].url \in vouched, conn[c].problem = "offers"
        PROVE  OnlyElsewhere(c)
    <3>1. TurnedAway(c)
      BY <1>1, <2>2 DEF FitsAll, ClientsFit
    <3>2. OfferedSomehow(c)
      BY <1>1, <2>2, <3>1, FitSuits DEF Reviewed, Straight, TurnedAway
    <3>3. Worldly
      BY <1>1, WorldlyIs DEF FitsAll, FormFits
    <3> QED
      BY <3>1, <3>2, <3>3, NotOverTcp
  <2> QED
    BY <2>1, <2>2
<1>2. Init => FitsAll
  BY InitAsks, InitFits DEF FitsAll
<1> QED
  BY <1>1, <1>2, StepFits, Invariant, PTL DEF Spec
=============================================================================
