------------------------------- MODULE Setup -------------------------------
(***************************************************************************)
(* From the form to secure sessions: Auto-configure, a start of the        *)
(* extension, _create_client and _apply_security on each connect, the      *)
(* trust list (is_trusted, reject, trust), and the servers, which come and *)
(* go, renew their certificate or let it run out, and learn to trust the   *)
(* client's.                                                               *)
(*                                                                         *)
(* `trusted' and `rejected' are the files of two directories, by content;  *)
(* `trust' is an action of its own process, which may run at any time.      *)
(***************************************************************************)
EXTENDS Config

CONSTANTS
    Servers,
    Situations,     \* [world : [at : URL -> a server, "nothing" or "other", offers, label,
                    \* path, tokens, stale, ending], form : [advanced, servers], as entered]
    MaxRenewals,    \* bound: certificates a server gets after its first
    MaxDrops,       \* bound: connections lost
    MaxStarts       \* bound: starts of the extension

\* The form, as config.schema.json has it: Advanced settings, with a mode and a policy of their
\* enumerations, and servers, with a URL, a mode and a policy.  And what servers may offer.
Enumerated(advanced) ==
    advanced.mode \in Modes \cup {"None"} /\ advanced.policy \in Range(Policies) \cup {"None"}
Listed(entry) == {"url", "mode", "policy"} \subseteq DOMAIN entry /\ entry.url \in Urls
Served(offers, label) ==
    /\ offers \subseteq [over : {"opc.tcp", "https"}, mode : {"None"}, policy : {"None"}]
                   \cup [over : {"opc.tcp", "https"}, mode : Modes, policy : STRING \ {"None"}]
    /\ label = Blank \/ Labelled(label)
\* The path a server publishes leads to it, or nowhere: not to another server.
Leads(w, u) ==
    LET reached == w.at[AtPath[u, w.path[w.at[u]]]]
    IN  w.at[u] \in Servers /\ reached \in Servers => reached = w.at[u]

ASSUME SetupAssumption ==
    \A s \in Situations :
        /\ {"advanced", "servers"} \subseteq DOMAIN s.form /\ Enumerated(s.form.advanced)
        /\ \A i \in DOMAIN s.form.servers : Listed(s.form.servers[i])
        /\ \A v \in Servers : Served(s.world.offers[v], s.world.label[v]) /\ s.world.path[v] \in Paths
        /\ \A k \in 1 .. Len(ProbedUrls) : Leads(s.world, ProbedUrls[k])

VARIABLES
    world,
    up,         \* servers that run
    cert,       \* server -> number of its certificate
    expired,    \* certificates past their validity period
    trustsUs,   \* servers that trust the client's certificate
    entered,    \* the form as the user entered it
    form,
    vouched,    \* history: URLs the last report lists as found, without a problem
    process,    \* "stopped", "starting", "serving", "exited" or, at the config, "invalid"
    starts, drops,
    clients,    \* their settings
    conn,       \* client -> [step, cert, lapsed : as it was checked, problem, contacted]
    trusted, rejected

servers == <<world, up, cert, expired, trustsUs>>
config == <<entered, form, vouched>>
pki == <<trusted, rejected>>
vars == <<servers, config, process, starts, drops, clients, conn, pki>>

NotYet == [step |-> "idle", cert |-> <<>>, lapsed |-> FALSE, problem |-> "none", contacted |-> FALSE]

\* A certificate, by content, is its server's and its number.
CertOf(s) == <<s, cert[s]>>

At(c) == world.at[clients[c].url]
Reachable(c) == At(c) \in up
\* An opc.tcp endpoint with exactly this mode and policy.
Offered(c) ==
    [over |-> "opc.tcp", mode |-> clients[c].mode,
     policy |-> IF clients[c].mode = "None" THEN "None" ELSE clients[c].policy] \in world.offers[At(c)]

-----------------------------------------------------------------------------
Init ==
    /\ \E s \in Situations : world = s.world /\ entered = s.form /\ expired = s.world.stale
    /\ up = Servers /\ cert = [s \in Servers |-> 1] /\ trustsUs = {}
    /\ form = entered /\ vouched = {}
    /\ process = "stopped" /\ starts = 0 /\ drops = 0 /\ clients = <<>> /\ conn = <<>>
    /\ trusted = {} /\ rejected = {}

(* Auto-configure, with the replies the servers give at the time *)

Reply(u) ==
    LET s == world.at[u]
    IN  IF s \in up THEN [kind |-> "server", key |-> s, label |-> world.label[s],
                          path |-> world.path[s], offers |-> world.offers[s]]
        ELSE IF s = "other" THEN Failed ELSE Unreachable
Replies == [u \in Urls |-> Reply(u)]

AutoConfigure ==
    /\ process = "stopped"
    /\ \E verdicts \in {IF form.servers = <<>> THEN Probe(Replies, form.advanced)
                        ELSE CheckServers(form.servers, Replies, form.advanced)} :
        LET found == {i \in DOMAIN verdicts : verdicts[i].found}
        IN  /\ form' = IF found = {} THEN form
                       ELSE [form EXCEPT !.servers =
                                [i \in DOMAIN verdicts |-> verdicts[i].entry]]
            /\ vouched' = {verdicts[i].entry.url : i \in found}
                             \ {verdicts[i].entry.url : i \in {j \in DOMAIN verdicts : verdicts[j].problem}}
    /\ UNCHANGED <<servers, entered, process, starts, drops, clients, conn, pki>>

(* The extension *)

StartExtension ==
    /\ process = "stopped" /\ starts < MaxStarts /\ starts' = starts + 1
    /\ process' = IF BuildsClients(form.servers, form.advanced) THEN "starting" ELSE "invalid"
    /\ clients' = IF process' = "starting" THEN ResolveServers(form.servers, form.advanced) ELSE <<>>
    /\ conn' = [c \in DOMAIN clients' |-> NotYet]
    /\ UNCHANGED <<servers, config, drops, pki>>

\* Any failure is retried, at the backoff, once the extension serves.
Retried_NotSecurity(c) == conn[c].problem \notin {"untrusted", "offers"}
Retried(c) == TRUE

Serves(c) ==
    \/ process = "starting" /\ ~conn[c].contacted
    \/ process = "serving" /\ Retried(c)

Ends(c, problem) ==
    conn' = [conn EXCEPT ![c] = [step |-> IF problem = "none" THEN "up" ELSE "idle",
                                 cert |-> IF problem = "none" THEN @.cert ELSE <<>>,
                                 lapsed |-> problem = "none" /\ @.lapsed,
                                 problem |-> problem, contacted |-> TRUE]]
Goes(c, step) == conn' = [conn EXCEPT ![c].step = step]
Receives(c, crt) ==
    conn' = [conn EXCEPT ![c].step = "checking", ![c].cert = crt, ![c].lapsed = crt \in expired]

\* GetEndpoints, for a secure session: an endpoint the client can use, which takes user
\* certificates if the client has one; and the server's certificate, and its period.
Contact(c) ==
    /\ conn[c].step = "idle" /\ Serves(c)
    /\ IF ~Reachable(c) THEN Ends(c, "unreachable")
       ELSE IF clients[c].mode = "None" THEN Goes(c, "open")
       ELSE IF ~Offered(c) THEN Ends(c, "offers")
       ELSE IF clients[c].user # "none" /\ At(c) \notin world.tokens THEN Ends(c, "user")
       ELSE Receives(c, CertOf(At(c)))
    /\ UNCHANGED <<servers, config, process, starts, drops, clients, pki>>

\* The certificate it was given: pinned, or on the trust list.
Accepted(c) ==
    IF clients[c].strict THEN conn[c].cert = clients[c].pinned ELSE conn[c].cert \in trusted

Judge(c) ==
    /\ conn[c].step = "checking"
    /\ IF ~Accepted(c)
       THEN IF clients[c].strict THEN Ends(c, "pinned") ELSE Goes(c, "refusing")
       ELSE IF conn[c].lapsed /\ ~clients[c].allowExpired THEN Ends(c, "period")
       ELSE Goes(c, "open")
    /\ UNCHANGED <<servers, config, process, starts, drops, clients, pki>>

\* It is saved for review; it may have been trusted since it was looked up.
Reject(c) ==
    /\ conn[c].step = "refusing" /\ rejected' = rejected \cup {conn[c].cert}
    /\ Ends(c, "untrusted")
    /\ UNCHANGED <<servers, config, process, starts, drops, clients, trusted>>

\* The channel is encrypted to the certificate that was checked, on the endpoint that has
\* this mode and policy; the server looks at the client's own.
Open(c) ==
    LET secure == clients[c].mode # "None"
    IN  /\ conn[c].step = "open"
        /\ IF ~Reachable(c) \/ (secure /\ conn[c].cert # CertOf(At(c))) THEN Ends(c, "unreachable")
           ELSE IF ~secure /\ ~Offered(c) THEN Ends(c, "offers")
           ELSE IF secure /\ At(c) \notin trustsUs THEN Ends(c, "rejected us")
           ELSE Ends(c, "none")
        /\ UNCHANGED <<servers, config, process, starts, drops, clients, pki>>

\* Once every server has been contacted: one that failed stops the extension.
FirstContact ==
    /\ process = "starting" /\ \A c \in DOMAIN clients : conn[c].contacted
    /\ IF \A c \in DOMAIN clients : conn[c].step = "up"
       THEN process' = "serving" /\ UNCHANGED <<clients, conn>>
       ELSE process' = "exited" /\ clients' = <<>> /\ conn' = <<>>
    /\ UNCHANGED <<servers, config, starts, drops, pki>>

\* The user starts it again, perhaps once Auto-configure has filled in the form.
Restart ==
    /\ process = "exited" /\ starts < MaxStarts /\ process' = "stopped"
    /\ UNCHANGED <<servers, config, starts, drops, clients, conn, pki>>

(* The user, and the servers *)

\* trust: the rejected file moves into trusted/.
Trust(crt) ==
    /\ crt \in rejected
    /\ trusted' = trusted \cup {crt} /\ rejected' = rejected \ {crt}
    /\ UNCHANGED <<servers, config, process, starts, drops, clients, conn>>

TrustUs(s) ==
    /\ s \notin trustsUs /\ trustsUs' = trustsUs \cup {s}
    /\ UNCHANGED <<world, up, cert, expired, config, process, starts, drops, clients, conn, pki>>

\* A certificate runs out; a session that is up does not look at it again.
Expires(s) ==
    /\ CertOf(s) \in world.ending \ expired /\ expired' = expired \cup {CertOf(s)}
    /\ UNCHANGED <<world, up, cert, trustsUs, config, process, starts, drops, clients, conn, pki>>

\* A server stops, or comes back with another certificate; its connections end.
Cut(S) ==
    conn' = [c \in DOMAIN conn |-> IF conn[c].step = "up" /\ At(c) \in S
                                   THEN [conn[c] EXCEPT !.step = "idle", !.cert = <<>>, !.lapsed = FALSE]
                                   ELSE conn[c]]

Leaves(s) ==
    /\ s \in up /\ drops < MaxDrops /\ drops' = drops + 1
    /\ up' = up \ {s} /\ Cut({s})
    /\ UNCHANGED <<world, cert, expired, trustsUs, config, process, starts, clients, pki>>

Returns(s) ==
    /\ s \notin up /\ up' = up \cup {s}
    /\ cert' \in {cert} \cup (IF cert[s] <= MaxRenewals THEN {[cert EXCEPT ![s] = @ + 1]} ELSE {})
    /\ UNCHANGED <<world, expired, trustsUs, config, process, starts, drops, clients, conn, pki>>

-----------------------------------------------------------------------------
Connect(c) == Contact(c) \/ Judge(c) \/ Reject(c) \/ Open(c)

Next ==
    \/ AutoConfigure \/ StartExtension \/ FirstContact \/ Restart
    \/ \E c \in DOMAIN clients : Connect(c)
    \/ \E s \in Servers :
          (\E n \in 1 .. cert[s] : Trust(<<s, n>>)) \/ TrustUs(s) \/ Expires(s) \/ Leaves(s) \/ Returns(s)

Spec == Init /\ [][Next]_vars

\* Each client's loop goes on, and the runner looks at the first contacts.
FairSpec ==
    Spec /\ WF_vars(FirstContact)
         /\ \A c \in 1 .. 2 : WF_vars(c \in DOMAIN clients /\ Connect(c))

-----------------------------------------------------------------------------
(* Properties *)

\* The settings the user entered, by URL, before Auto-configure filled any in.
AskedForNone(u) ==
    \/ entered.advanced.mode = "None"
    \/ \E i \in DOMAIN entered.servers : entered.servers[i].url = u /\ entered.servers[i].mode = "None"

\* A secure session is on an endpoint with the mode and policy configured, to a certificate
\* that is pinned or that the user has trusted, and that was in its period when this connect
\* checked it, unless the user allowed another.
SecureAsConfigured ==
    \A c \in DOMAIN clients : conn[c].step = "up" /\ clients[c].mode # "None" =>
        /\ Accepted(c) /\ Offered(c)
        /\ ~conn[c].lapsed \/ clients[c].allowExpired

\* A session is exactly as secure as configured, and it is secure unless the user asked for
\* None, whatever Auto-configure made of the form.
AsSecureAsAsked ==
    /\ SecureAsConfigured
    /\ \A c \in DOMAIN clients :
          conn[c].step = "up" /\ clients[c].mode = "None" => AskedForNone(clients[c].url)

\* What a report looks at: no reserved label, user certificate, nor entry with a policy of its
\* own under the default mode, which it does not.
Reviewed ==
    /\ form.advanced.user = "none" /\ form.advanced.identity # "half"
    /\ \A i \in DOMAIN form.servers : LET e == form.servers[i] IN
          /\ e.user = "none" /\ ~e.strict /\ NameOf(e) \notin Reserved
          /\ e.mode = "default" => e.policy = "default"

\* The server has the client's mode and policy, on a transport the client does not speak.
OnlyElsewhere(c) ==
    /\ ~Offered(c)
    /\ \E ep \in world.offers[At(c)] :
          /\ ep.over # "opc.tcp" /\ ep.mode = clients[c].mode
          /\ ep.mode = "None" \/ ep.policy = clients[c].policy

\* A report that finds every server and notes no problem is a form that starts, and a client
\* made from it is refused for what its server offers only if the server offers it on another
\* transport than opc.tcp, which the report does not tell apart.
ReportedFits ==
    Reviewed =>
        /\ entered.servers = <<>> /\ form.servers # <<>>
             /\ (\A i \in DOMAIN form.servers : form.servers[i].url \in vouched)
           => process # "invalid"
        /\ \A c \in DOMAIN clients :
             clients[c].url \in vouched /\ conn[c].problem = "offers" => OnlyElsewhere(c)

\* Without that exception it is what _Report.check says of its answer, "False ... when it cannot
\* connect as set", and not so of the code: _offers takes an endpoint on any transport.
ReportedConnects ==
    Reviewed => \A c \in DOMAIN clients : clients[c].url \in vouched => conn[c].problem # "offers"

\* While the extension serves, whatever was wrong with a connect is made good without a
\* restart: a server that runs, a certificate trusted by each side, and it connects.
Connectable(c) ==
    /\ process = "serving" /\ c \in DOMAIN clients /\ Reachable(c)
    /\ clients[c].mode = "None" \/
        ( /\ At(c) \in trustsUs /\ (CertOf(At(c)) \notin expired \/ clients[c].allowExpired)
          /\ ~clients[c].strict /\ CertOf(At(c)) \in trusted )
Reconnects == \A c \in 1 .. 2 : <>[]Connectable(c) => []<>(c \in DOMAIN conn /\ conn[c].step = "up")
=============================================================================
