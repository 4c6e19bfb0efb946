------------------------------- MODULE Client ------------------------------
(***************************************************************************)
(* A Client (src/api/client.rs) that several tasks fetch with at once,     *)
(* over the HSTS store and the cookie jar they share.                      *)
(*                                                                         *)
(* A fetch reads the clock once, as it begins, and goes by that until it   *)
(* has learned from its response: what it looks up and takes in may be     *)
(* overtaken by other fetches, each of which locks either store for one    *)
(* call at a time.                                                         *)
(***************************************************************************)
EXTENDS Integers, Sequences, FiniteSets, Functions

CONSTANTS
    Tasks,          \* the tasks that fetch
    Urls,           \* what they fetch
    Responses,      \* the Strict-Transport-Security and the Set-Cookies one may carry
    Versions,       \* the transports its configured versions run over: "tcp", "quic"
    MaxEntries,     \* max_hsts_entries
    MaxCookies,     \* max_cookies
    MaxPerDomain,   \* max_cookies_per_domain
    Addresses,      \* the hosts that are IP addresses
    Horizon,        \* the last instant the clock of this platform can tell
    MaxClock,       \* bound: the clock of a run ends here
    MaxFetches      \* bound: so many fetches begin

Store == INSTANCE HSTSStore
Jar == INSTANCE CookieJar

ASSUME ClientAssumption ==
    /\ Versions # {} /\ Versions \subseteq {"tcp", "quic"}
    /\ {MaxEntries, MaxCookies, MaxPerDomain} \subseteq Nat \ {0}
    /\ MaxClock \in Nat /\ Horizon \in Nat /\ MaxClock <= Horizon
    /\ \A url \in Urls :
        /\ url \in [host : {url.host}, path : {url.path}, secure : BOOLEAN]
        /\ url.host \in Seq(Range(url.host)) \ {<<>>}
    /\ \A response \in Responses : response.policy.max_age \in Nat \cup {Store!Unparsable}

VARIABLES
    entries,    \* the HSTSStore's
    jar,        \* the CookieJar's
    tasks,      \* where the fetch of each task is
    clock, fetches,
    promised,   \* what each host was last believed to insist on
    given,      \* every cookie that was last set, by what makes it one
    crowded, overfull   \* whether the store, and the jar, dropped what was still in force

vars == << entries, jar, tasks, clock, fetches, promised, given, crowded, overfull >>

Hosts == {url.host : url \in Urls}

Idle == [pc |-> "idle"]
Set(t, task) == tasks' = [tasks EXCEPT ![t] = task]
At(t, pc) == tasks[t].pc = pc

\* apply_hsts, of a URL that is not secure.
Applied(url, now) ==
    IF ~url.secure /\ Store!Secure(entries, url.host, now) THEN [url EXCEPT !.secure = TRUE] ELSE url

\* fetch begins, or websocket, which the cookies are nothing to.
Begin(t, url, socket) ==
    /\ At(t, "idle") /\ fetches < MaxFetches /\ fetches' = fetches + 1
    /\ entries' = IF url.secure THEN entries ELSE Store!Walked(entries, url.host, clock)
    /\ Set(t, [pc |-> "opening", url |-> Applied(url, clock), now |-> clock, socket |-> socket])
    /\ UNCHANGED << jar, clock, promised, given, crowded, overfull >>

\* open: what it dials, and whether it can with the versions it has.
Transport(url) ==
    IF ~url.secure THEN "plain" ELSE IF Versions = {"quic"} THEN "quic" ELSE "tls"

Open(t) ==
    LET task == tasks[t] IN
    /\ At(t, "opening")
    /\ \/ /\ ~task.socket /\ (Transport(task.url) = "plain" => "tcp" \in Versions)
          /\ Set(t, [pc |-> "sending", url |-> task.url, now |-> task.now, over |-> Transport(task.url)])
       \/ Set(t, Idle)      \* it fails or takes too long, or the socket is the caller's now
    /\ UNCHANGED << entries, jar, clock, fetches, promised, given, crowded, overfull >>

Send(t) ==
    LET task == tasks[t] IN
    /\ At(t, "sending")
    /\ Set(t, [pc |-> "waiting", url |-> task.url, now |-> task.now, over |-> task.over,
               cookies |-> Jar!CookiesFor(jar, task.url, task.now)])
    /\ UNCHANGED << entries, jar, clock, fetches, promised, given, crowded, overfull >>

\* request, whose informational responses are read past, and close.
Respond(t, response) ==
    LET task == tasks[t] IN
    /\ At(t, "waiting")
    /\ Set(t, [pc |-> "cookies", url |-> task.url, now |-> task.now, policy |-> response.policy, set |-> response.cookies])
    /\ UNCHANGED << entries, jar, clock, fetches, promised, given, crowded, overfull >>

Fail(t) ==
    /\ At(t, "waiting") /\ Set(t, Idle)
    /\ UNCHANGED << entries, jar, clock, fetches, promised, given, crowded, overfull >>

\* The cookies of `cookies` as the jar would have them, and what they replace.
Givens(url, cookies, now) == UNION {Jar!Resolved(url, cookies[n], now) : n \in DOMAIN cookies}

LearnCookies(t) ==
    LET task == tasks[t]
        new == Givens(task.url, task.set, task.now)
        kept == {c \in given : \A n \in new : Jar!Identity(c) # Jar!Identity(n)}
        alive == {c \in Range(jar) : c \in kept /\ ~Jar!Expired(c, clock)}
    IN  /\ At(t, "cookies")
        /\ jar' = Jar!Taken(jar, task.url, task.set, task.now)
        /\ given' = kept \cup {n \in new : ~Jar!Expired(n, task.now)}
        /\ overfull' = (overfull \/ ~(alive \cup {n \in new : ~Jar!Expired(n, clock)} \subseteq Range(jar')))
        /\ Set(t, [pc |-> "policy", url |-> task.url, now |-> task.now, policy |-> task.policy])
        /\ UNCHANGED << entries, clock, fetches, promised, crowded >>

\* What a response is to be believed of: one that came over TLS from a host.
Believed(task) ==
    task.url.secure /\ task.url.host \notin Addresses /\ task.policy.max_age # Store!Unparsable

LearnPolicy(t) ==
    LET task == tasks[t]
        host == task.url.host
        entry == [expiry |-> task.now + task.policy.max_age, subdomains |-> task.policy.subdomains]
    IN  /\ At(t, "policy")
        /\ entries' \in Store!Learned(entries, host, task.policy, task.url.secure, task.now)
        /\ promised' = IF ~Believed(task) THEN promised
                       ELSE IF task.policy.max_age = Store!Withdrawn THEN Store!Without(promised, {host})
                       ELSE Store!With(promised, host, entry)
        /\ crowded' = (crowded \/ \E h \in DOMAIN entries \ {host} : h \notin DOMAIN entries' /\ entries[h].expiry > clock)
        /\ Set(t, Idle)
        /\ UNCHANGED << jar, clock, fetches, given, overfull >>

\* The caller may sweep either store, and time passes.
Prune ==
    /\ \/ entries' = Store!Pruned(entries, clock) /\ UNCHANGED jar
       \/ jar' = Jar!Unexpired(jar, clock) /\ UNCHANGED entries
    /\ UNCHANGED << tasks, clock, fetches, promised, given, crowded, overfull >>

Tick ==
    /\ clock < MaxClock /\ clock' = clock + 1
    /\ UNCHANGED << entries, jar, tasks, fetches, promised, given, crowded, overfull >>

Init ==
    /\ entries = <<>> /\ jar = <<>> /\ promised = <<>> /\ given = {}
    /\ tasks = [t \in Tasks |-> Idle] /\ clock = 0 /\ fetches = 0 /\ crowded = FALSE /\ overfull = FALSE

Fetch(t) ==
    \/ \E url \in Urls, socket \in BOOLEAN : Begin(t, url, socket)
    \/ Open(t) \/ Send(t) \/ Fail(t) \/ LearnCookies(t) \/ LearnPolicy(t)
    \/ \E response \in Responses : Respond(t, response)

Next == Prune \/ Tick \/ \E t \in Tasks : Fetch(t)

Spec == Init /\ [][Next]_vars

-----------------------------------------------------------------------------
\* The types of the state, with the ceilings both stores keep themselves under,
\* and no two cookies that are one.
TypeOK ==
    /\ Cardinality(DOMAIN entries) <= MaxEntries
    /\ DOMAIN entries \subseteq Hosts \ Addresses
    /\ Len(jar) <= MaxCookies
    /\ \A n \in DOMAIN jar :
        /\ Cardinality({m \in DOMAIN jar : jar[m].domain = jar[n].domain}) <= MaxPerDomain
        /\ \A m \in DOMAIN jar : Jar!Identity(jar[m]) = Jar!Identity(jar[n]) => m = n
    /\ \A t \in Tasks : tasks[t].pc \in {"idle", "opening", "sending", "waiting", "cookies", "policy"}

\* Whether a host insists on TLS by what it was last believed to say, or one of
\* its parents for its subdomains.
Insists(host) ==
    /\ host \notin Addresses
    /\ \E domain \in DOMAIN promised :
        /\ promised[domain].expiry > clock
        /\ domain = host \/ (Jar!DomainMatches(host, domain) /\ promised[domain].subdomains)

\* secure says of every host what the last field each host was believed by says:
\* through fetches that overtake one another, expiry found on the way, and
\* sweeps.  A store that was too small may forget, and never makes up.
Insistence ==
    \A host \in Hosts :
        /\ Store!Secure(entries, host, clock) => Insists(host)
        /\ ~crowded => (Insists(host) => Store!Secure(entries, host, clock))

\* A host that insists is forgotten only when it withdraws, or in a full store of
\* others that insist for as long: a fetch that goes by an older time may keep
\* what has expired, but drops nothing for it.
KeptUntilFull ==
    [][\A host \in DOMAIN entries \ DOMAIN entries' :
        LET live == {h \in DOMAIN entries : entries[h].expiry > clock} IN
        host \in live =>
            \/ host \notin DOMAIN promised'
            \/ Cardinality(live) >= MaxEntries /\ \A h \in live : entries[h].expiry >= entries[host].expiry]_vars

\* A request carries the cookies that were last set for where it goes, and that
\* no later response took back; those of a jar that was too small may be missing,
\* and the stores keep under their ceilings all the while, with one of each cookie.
CookiesRight ==
    TypeOK /\ \A url \in Urls :
        LET sent == Range(Jar!CookiesFor(jar, url, clock))
            due == {c \in given : Jar!Matches(c, url, clock)}
        IN  sent \subseteq due /\ (~overfull => due \subseteq sent)
=============================================================================
