----------------------------- MODULE CookieJar -----------------------------
(***************************************************************************)
(* What CookieJar (src/cookies.rs) does to its entries under its lock, as  *)
(* functions of them: a sequence, in the order they were stored.           *)
(*                                                                         *)
(* A host is the sequence of its labels, and a path that of what its       *)
(* slashes divide: "/" is <<"">>, "/a/" is <<"a", "">>.                    *)
(***************************************************************************)
EXTENDS Integers, Sequences, FiniteSets, SequencesExt

CONSTANTS
    MaxCookies,     \* max_cookies
    MaxPerDomain,   \* max_cookies_per_domain
    Addresses,      \* the hosts that are IP addresses
    Horizon         \* the last instant the clock of this platform can tell

\* What a cookie without a Max-Age has for it, and when it expires.
Lasting == Horizon + 1
Absent == <<>>

\* A SetCookie: its Domain and Path may be absent.
SetCookie(name, value, domain, path, secure, max_age) ==
    [name |-> name, value |-> value, domain |-> domain, path |-> path, secure |-> secure, max_age |-> max_age]

Root == << "" >>

DomainMatches(host, domain) ==
    \/ host = domain
    \/ host \notin Addresses /\ domain # <<>> /\ IsStrictSuffix(domain, host)

TooBroad(domain) == Len(domain) = 1

\* scope: the domain a cookie is stored under and whether it is the host's only,
\* or nothing when the cookie is refused.
Scope(host, domain) ==
    CASE domain = Absent -> {[domain |-> host, host_only |-> TRUE]}
      [] domain # Absent /\ domain = host -> {[domain |-> domain, host_only |-> FALSE]}
      [] OTHER -> IF TooBroad(domain) \/ ~DomainMatches(host, domain) THEN {}
                  ELSE {[domain |-> domain, host_only |-> FALSE]}

DefaultPath(target) == IF Len(target) = 1 THEN Root ELSE Front(target)

\* A target is under a path it goes on from at a slash, the path's own or the next.
PathMatches(target, path) ==
    \/ target = path
    \/ IF Last(path) = "" THEN IsPrefix(Front(path), target) /\ Len(target) >= Len(path)
       ELSE IsStrictPrefix(path, target)

Expired(cookie, now) == cookie.expires # Lasting /\ cookie.expires <= now

\* matches: whether a cookie goes with a request.
Matches(cookie, url, now) ==
    /\ ~Expired(cookie, now)
    /\ cookie.secure => url.secure
    /\ IF cookie.host_only THEN url.host = cookie.domain ELSE DomainMatches(url.host, cookie.domain)
    /\ PathMatches(url.path, cookie.path)

\* What makes two cookies one.
Identity(cookie) == << cookie.name, cookie.domain, cookie.path >>

Unexpired(entries, now) == SelectSeq(entries, LAMBDA c : ~Expired(c, now))

\* evict: the oldest cookie of a domain that is full, and then the oldest of all.
Evicted(entries, domain) ==
    LET own == {n \in DOMAIN entries : entries[n].domain = domain}
        left == IF Cardinality(own) >= MaxPerDomain /\ own # {} THEN RemoveAt(entries, Min(own)) ELSE entries
        over == IF Len(left) >= MaxCookies THEN Len(left) - MaxCookies + 1 ELSE 0
    IN  SubSeq(left, over + 1, Len(left))

\* What is left once a cookie has replaced the one like it.
Replaced(entries, cookie) == SelectSeq(entries, LAMBDA c : Identity(c) # Identity(cookie))

\* The cookies a SetCookie in a response to `url` asks for: one, or none.
Resolved(url, cookie, now) ==
    { [name |-> cookie.name, value |-> cookie.value, domain |-> scope.domain, host_only |-> scope.host_only,
       path |-> IF cookie.path = Absent THEN DefaultPath(url.path) ELSE cookie.path, secure |-> cookie.secure,
       expires |-> IF now + cookie.max_age > Horizon THEN Lasting ELSE now + cookie.max_age] :
      scope \in Scope(url.host, cookie.domain) }

\* Faulty: a cookie that is taken back is not stored, and no more.
StoredOnly(entries, url, cookie, now) ==
    IF Resolved(url, cookie, now) = {} \/ cookie.max_age <= 0 THEN entries
    ELSE LET stored == CHOOSE c \in Resolved(url, cookie, now) : TRUE
         IN  Append(Evicted(Unexpired(Replaced(entries, stored), now), stored.domain), stored)

\* learn, of one value a response to `url` carried.
Stored(entries, url, cookie, now) ==
    IF Resolved(url, cookie, now) = {} THEN entries
    ELSE LET stored == CHOOSE c \in Resolved(url, cookie, now) : TRUE
             left == Replaced(entries, stored)
         IN  IF cookie.max_age <= 0 \/ MaxCookies = 0 THEN left
             ELSE Append(Evicted(Unexpired(left, now), stored.domain), stored)

\* learn, of all the values a response carried.
Taken(entries, url, cookies, now) ==
    FoldLeft(LAMBDA jar, cookie : Stored(jar, url, cookie, now), entries, cookies)

\* cookie: those that go with a request.
CookiesFor(entries, url, now) == SelectSeq(entries, LAMBDA c : Matches(c, url, now))
=============================================================================
