----------------------------- MODULE HSTSStore -----------------------------
(***************************************************************************)
(* What HSTSStore (src/hsts.rs) does to its entries under its lock, as     *)
(* functions of them.  A host is the sequence of its labels, normalized    *)
(* already; an address is a host that has no policy.                       *)
(***************************************************************************)
EXTENDS Integers, Sequences, FiniteSets, Functions, FiniteSetsExt

CONSTANTS
    MaxEntries,     \* max_hsts_entries
    Addresses,      \* the hosts that are IP addresses
    Horizon         \* the last instant the clock of this platform can tell

Withdrawn == 0
Unparsable == -1
Policy(max_age, subdomains) == [max_age |-> max_age, subdomains |-> subdomains]

\* The entries without some, those that have not expired, and those with one more.
Without(entries, hosts) == Restrict(entries, DOMAIN entries \ hosts)
Pruned(entries, now) == Without(entries, {h \in DOMAIN entries : entries[h].expiry <= now})
With(entries, host, entry) == [h \in DOMAIN entries \cup {host} |-> IF h = host THEN entry ELSE entries[h]]

Soonest(entries) ==
    {h \in DOMAIN entries : \A g \in DOMAIN entries : entries[h].expiry <= entries[g].expiry}

\* Faulty: what anyone may have put there is believed.
IgnoredUnlessHost(host, policy, secure) == host \in Addresses \/ policy.max_age = Unparsable

Ignored(host, policy, secure) == ~secure \/ host \in Addresses \/ policy.max_age = Unparsable

\* The entries with room for one more: the map is unordered, so any of those
\* that expire soonest may go.
Room(entries, host, now) ==
    LET kept == Pruned(entries, now)
    IN  IF Cardinality(DOMAIN kept) >= MaxEntries /\ host \notin DOMAIN kept
        THEN {Without(kept, {h}) : h \in Soonest(kept)}
        ELSE {kept}

\* learn, of a field the response of `host` carried: what the entries may become.
Learned(entries, host, policy, secure, now) ==
    CASE Ignored(host, policy, secure) -> {entries}
      [] ~Ignored(host, policy, secure) /\ policy.max_age = Withdrawn -> {Without(entries, {host})}
      [] ~Ignored(host, policy, secure) /\ policy.max_age > 0 /\ now + policy.max_age > Horizon -> {entries}
      [] OTHER -> {With(room, host, [expiry |-> now + policy.max_age, subdomains |-> policy.subdomains]) :
                        room \in Room(entries, host, now)}

\* secure walks from the host to its last label, and stops at the first entry
\* that is in force.
Domains(host) == [n \in DOMAIN host |-> SubSeq(host, n, Len(host))]
InForce(entries, host, n, now) ==
    LET domain == Domains(host)[n] IN
    /\ domain \in DOMAIN entries /\ entries[domain].expiry > now
    /\ n = 1 \/ entries[domain].subdomains

Found(entries, host, now) ==
    IF host \in Addresses THEN {} ELSE {n \in DOMAIN host : InForce(entries, host, n, now)}

Secure(entries, host, now) == Found(entries, host, now) # {}

\* Faulty: what does not decide the walk is dropped with what has expired.
WalkedClean(entries, host, now) ==
    LET found == Found(entries, host, now)
        seen == IF found = {} THEN DOMAIN host ELSE 1 .. Min(found) - 1
    IN  IF host \in Addresses THEN entries
        ELSE Without(entries, {Domains(host)[n] : n \in seen})

\* What the walk leaves: it drops what it finds expired.
Walked(entries, host, now) ==
    LET found == Found(entries, host, now)
        seen == {Domains(host)[n] : n \in IF found = {} THEN DOMAIN host ELSE 1 .. Min(found)}
    IN  IF host \in Addresses THEN entries
        ELSE Without(entries, {h \in seen \cap DOMAIN entries : entries[h].expiry <= now})
=============================================================================
