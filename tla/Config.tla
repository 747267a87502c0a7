------------------------------- MODULE Config -------------------------------
(***************************************************************************)
(* What the config form comes to: a server's settings and what is refused  *)
(* at start (cli/app.py, validate_security), and what Auto-configure makes  *)
(* of the servers it finds (autoconfig.py).  A URL stands for an endpoint, *)
(* an offer for an endpoint description: the transport of its EndpointUrl, *)
(* its mode and policy.  Files are read without an error.                  *)
(***************************************************************************)
EXTENDS Naturals, Sequences, FiniteSets, SequencesExt, Functions

CONSTANTS
    Urls,           \* endpoints a form names or a probe tries
    HostName,       \* URL -> default_server_name
    WithUserinfo,   \* URLs that carry a user name
    Paths,          \* of the EndpointUrls that servers publish
    AtPath,         \* URL, path -> the URL's scheme and netloc with that path
    TraceName,      \* name in the form, or a server's -> sanitised, "" for none
    Numbered,       \* sanitised name, k -> `name_k'
    Reserved,       \* LOG_EVENT, LOG_SOURCE_NAME
    Policies,       \* POLICY_RANK: what the client can connect with, strongest first
    ProbedUrls      \* WELL_KNOWN_PORTS on localhost, then the LDS's and mDNS's

Blank == ""
Modes == {"Sign", "SignAndEncrypt"}
Unsecured == [mode |-> "None", policy |-> "None"]

\* A name that sanitising leaves as it is, and a label whose name, numbered or not, is one.
Sanitised(name) == name # Blank /\ TraceName[name] = name
Labelled(label) ==
    LET numbers == 2 .. (Len(ProbedUrls) + 1)
    IN  /\ Sanitised(TraceName[label])
        /\ \A k \in numbers : Sanitised(Numbered[TraceName[label], k])
        /\ \A k, j \in numbers : k # j => Numbered[TraceName[label], k] # Numbered[TraceName[label], j]

ASSUME ConfigAssumption ==
    /\ ProbedUrls \in Seq(Urls \ {Blank})
    /\ \A k \in 1 .. Len(ProbedUrls) : Labelled(HostName[ProbedUrls[k]])
    /\ Policies \in Seq(STRING \ {"default", "None"})

\* The URL of another path names the same host, and no more than it did.
ASSUME PathAssumption ==
    \A k \in 1 .. Len(ProbedUrls), p \in Paths :
        /\ AtPath[ProbedUrls[k], p] \in Urls \ {Blank}
        /\ AtPath[ProbedUrls[k], p] \in WithUserinfo => ProbedUrls[k] \in WithUserinfo

-----------------------------------------------------------------------------
(* From the form to the clients *)

\* The user certificate and key inherit as a pair; each may be "none", "pair" or "half" of one.
Inherit(server, advanced) ==
    [mode |-> IF server.mode = "default" THEN advanced.mode ELSE server.mode,
     policy |-> IF server.policy = "default" THEN advanced.policy ELSE server.policy,
     user |-> IF server.user = "none" THEN advanced.user ELSE server.user]

NameOf(server) ==
    IF TraceName[server.name] = Blank THEN HostName[server.url] ELSE TraceName[server.name]

\* resolve_servers exits on any of these.
Exits(servers) ==
    \/ servers = <<>>
    \/ \E i \in DOMAIN servers :
        \/ servers[i].url = Blank \/ servers[i].url \in WithUserinfo
        \/ NameOf(servers[i]) \in Reserved
        \/ \E j \in 1 .. (i - 1) : NameOf(servers[j]) = NameOf(servers[i])

ResolveServers(servers, advanced) ==
    [i \in DOMAIN servers |->
        LET effective == Inherit(servers[i], advanced)
        IN  [name |-> NameOf(servers[i]), url |-> servers[i].url,
             mode |-> effective.mode, policy |-> effective.policy, user |-> effective.user,
             identity |-> advanced.identity, strict |-> servers[i].strict,
             pinned |-> servers[i].pinned, allowExpired |-> servers[i].allowExpired,
             downgrade |-> advanced.mode # "None" /\ effective.mode = "None"]]

\* A secure session needs a policy; a user certificate and a pinned one, a secure session.
ValidateSecurity(c) ==
    LET secure == c.mode # "None"
    IN  /\ secure => c.mode \in Modes /\ c.policy \in Range(Policies)
        /\ c.identity # "half" /\ c.user # "half"
        /\ c.user # "none" \/ c.strict => secure
        /\ c.strict => c.pinned # <<>>

BuildsClients(servers, advanced) ==
    /\ ~Exits(servers)
    /\ \A c \in Range(ResolveServers(servers, advanced)) : ValidateSecurity(c)

-----------------------------------------------------------------------------
(* Auto-configure.  `reply' is GetEndpoints': UNREACHABLE, FAILED, or a server's. *)

Unreachable == [kind |-> "unreachable"]
Failed == [kind |-> "failed"]
Credentials == [kind |-> "credentials"]

Endpoints(url, reply) == IF url \in WithUserinfo THEN Credentials ELSE reply

\* On whatever transport.
Offers_AnyPolicy(offers, mode, policy) == \E ep \in offers : ep.mode = mode
Offers(offers, mode, policy) ==
    \E ep \in offers : ep.mode = mode /\ (mode = "None" \/ ep.policy = policy)

\* The policies offered in a mode, as indexes of their rank; SignAndEncrypt before Sign, and the
\* strongest policy.
Usable(offers, mode) == {i \in DOMAIN Policies : Offers(offers, mode, Policies[i])}
Strongest(offers) ==
    LET mode == IF Usable(offers, "SignAndEncrypt") # {} THEN "SignAndEncrypt" ELSE "Sign"
    IN  [mode |-> mode, policy |-> Policies[Min(Usable(offers, mode))]]

Default == [mode |-> "default", policy |-> "default"]
NoSecurity == [mode |-> "none usable", policy |-> Blank]

\* Never an explicit None: that is a silent downgrade of a secure Advanced.
Security_Explicit(offers, advanced) ==
    IF Offers(offers, advanced.mode, advanced.policy) THEN Default
    ELSE IF \E mode \in Modes : Usable(offers, mode) # {} THEN Strongest(offers)
    ELSE IF Offers(offers, "None", "None") THEN Unsecured ELSE NoSecurity
Security(offers, advanced) ==
    IF Offers(offers, advanced.mode, advanced.policy) THEN Default
    ELSE IF \E mode \in Modes : Usable(offers, mode) # {} THEN Strongest(offers)
    ELSE IF Offers(offers, "None", "None") THEN Default ELSE NoSecurity

\* A server as the report has it: its entry, found or not, and whether a problem was noted.
Verdict(entry, found, problem) == [entry |-> entry, found |-> found, problem |-> problem]

\* _Report.check.
Check(entry, offers, advanced) ==
    LET security  == Security(offers, advanced)
        filled    == IF entry.mode = "default" /\ security # Default
                     THEN [entry EXCEPT !.mode = security.mode, !.policy = security.policy] ELSE entry
        effective == Inherit(filled, advanced)
    IN  IF entry.mode = "default" /\ security = NoSecurity THEN Verdict(entry, FALSE, TRUE)
        ELSE IF filled.mode # "default" /\ ~Offers(offers, effective.mode, effective.policy)
             THEN Verdict(filled, FALSE, TRUE)
        ELSE Verdict(filled, TRUE,
                     filled.mode = "default" /\ ~Offers(offers, advanced.mode, advanced.policy))

\* The form's servers are all kept, checked or not.
CheckServers(servers, replies, advanced) ==
    [i \in DOMAIN servers |->
        LET reply == Endpoints(servers[i].url, replies[servers[i].url])
        IN  IF reply.kind = "server" THEN Check(servers[i], reply.offers, advanced)
            ELSE Verdict(servers[i], FALSE, TRUE)]

\* A name not taken by a server found before.
UniqueName(label, taken) ==
    LET free == {k \in 2 .. (Cardinality(taken) + 2) : Numbered[TraceName[label], k] \notin taken}
    IN  IF TraceName[label] \notin taken THEN TraceName[label]
        ELSE Numbered[TraceName[label], CHOOSE k \in free : \A j \in free : k <= j]

\* The k-th URL is the first its server answers at: one entry per server, and localhost wins.
First(replies, k) ==
    LET reply(j) == Endpoints(ProbedUrls[j], replies[ProbedUrls[j]])
    IN  /\ reply(k).kind = "server"
        /\ \A j \in 1 .. (k - 1) : reply(j).kind = "server" => reply(j).key # reply(k).key

\* A server found gets an entry and takes a name, and is kept if it can be connected to: the
\* host that answered, with the path its first EndpointUrl has.
Add(probed, k, replies, advanced) ==
    LET u       == ProbedUrls[k]
        label   == IF replies[u].label = Blank THEN HostName[u] ELSE replies[u].label
        entry   == [name |-> UniqueName(label, probed.taken), url |-> AtPath[u, replies[u].path],
                    mode |-> "default", policy |-> "default", user |-> "none",
                    strict |-> FALSE, pinned |-> <<>>, allowExpired |-> FALSE]
        verdict == Check(entry, replies[u].offers, advanced)
    IN  [taken |-> probed.taken \cup {entry.name},
         found |-> IF verdict.found THEN Append(probed.found, verdict) ELSE probed.found]

Probe(replies, advanced) ==
    LET probed[k \in 0 .. Len(ProbedUrls)] ==
            IF k = 0 THEN [taken |-> {}, found |-> <<>>]
            ELSE IF First(replies, k) THEN Add(probed[k - 1], k, replies, advanced) ELSE probed[k - 1]
    IN  probed[Len(ProbedUrls)].found
=============================================================================
