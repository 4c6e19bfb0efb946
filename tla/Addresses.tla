----------------------------- MODULE Addresses -----------------------------
(***************************************************************************)
(* Where a request goes and what carries it there (src/models.rs): URLs    *)
(* and the authorities written from them, ports, versions and ALPN; the    *)
(* values of cookie fields (src/cookies.rs) and of an HSTS policy          *)
(* (src/hsts.rs); and the dates of src/finalizer.rs, as days counted and   *)
(* days named.                                                             *)
(*                                                                         *)
(* A text is a sequence of characters; a scheme is a word.                 *)
(***************************************************************************)
EXTENDS Integers, Sequences, SequencesExt, FiniteSets

Digits == << "0", "1", "2", "3", "4", "5", "6", "7", "8", "9" >>
HexLetters == {"a", "f"}
Invisible == {" ", "ctl"}

Delimiters == {"/", "?", "#"}
Reserved == {"/", "?", "#", "@", "[", "]", ":"}

All(text, set) == \A i \in DOMAIN text : text[i] \in set
Without(text, set) == \A i \in DOMAIN text : text[i] \notin set
FirstIn(text, set) == SelectInSeq(text, LAMBDA c : c \in set)
LastIn(text, set) == SelectLastInSeq(text, LAMBDA c : c \in set)
Until(text, i) == SubSeq(text, 1, i - 1)
Beyond(text, i) == SubSeq(text, i + 1, Len(text))

IsTarget(target) == target # <<>> /\ Without(target, Invisible)
IsAuthority(authority) == authority # <<>> /\ Without(authority, Invisible)
IsHost(host) == host # <<>> /\ Without(host, Invisible \cup Reserved)
IsLiteral(host) == host # <<>> /\ All(host, ToSet(Digits) \cup HexLetters \cup {":", "."})

DefaultPort(scheme) == IF scheme \in {"https", "wss"} THEN 443 ELSE 80
Secure(url) == url.scheme \in {"https", "wss"}

\* A sixteen-bit number, which may wear a plus sign.
Value(digits) == FoldLeft(LAMBDA n, c : 10 * n + SelectInSeq(Digits, LAMBDA d : d = c) - 1, 0, digits)
Unsigned(text) == IF Len(text) > 1 /\ text[1] = "+" THEN Tail(text) ELSE text
PortOf(text) ==
    IF text # <<>> /\ All(Unsigned(text), ToSet(Digits)) /\ Value(Unsigned(text)) < 2^16 THEN Value(Unsigned(text)) ELSE -1
Decimal(n) ==
    LET places == {p \in 0 .. 4 : n >= 10^p} \cup {0}
    IN  [i \in 1 .. Cardinality(places) |-> Digits[((n \div 10^(Cardinality(places) - i)) % 10) + 1]]

\* Faulty: the port is left out where it is that of any scheme.
AuthorityOfAnyScheme(scheme, host, port) ==
    (IF Without(host, {":"}) THEN host ELSE << "[" >> \o host \o << "]" >>)
    \o (IF port \in {80, 443} THEN <<>> ELSE << ":" >> \o Decimal(port))

AuthorityOf(scheme, host, port) ==
    (IF Without(host, {":"}) THEN host ELSE << "[" >> \o host \o << "]" >>)
    \o (IF port = DefaultPort(scheme) THEN <<>> ELSE << ":" >> \o Decimal(port))
Authority(url) == AuthorityOf(url.scheme, url.host, url.port)

Refused == [is |-> "refused"]
Whole(scheme, host, port, target) ==
    IF port = -1 THEN Refused ELSE [is |-> "url", scheme |-> scheme, host |-> host, port |-> port, target |-> target]

\* The host of a literal ends at its bracket; nothing but a port may follow.
Bracketed(scheme, rest, close, target) ==
    CASE close = 0 \/ ~IsLiteral(Until(rest, close)) -> Refused
      [] close > 0 /\ close = Len(rest) -> Whole(scheme, Until(rest, close), DefaultPort(scheme), target)
      [] OTHER -> IF rest[close + 1] # ":" THEN Refused
                  ELSE Whole(scheme, Until(rest, close), PortOf(Beyond(rest, close + 1)), target)

\* The port of a name hangs off the last colon.
Plain(scheme, authority, colon, target) ==
    LET host == IF colon = 0 THEN authority ELSE Until(authority, colon) IN
    IF ~IsHost(host) THEN Refused
    ELSE Whole(scheme, host, IF colon = 0 THEN DefaultPort(scheme) ELSE PortOf(Beyond(authority, colon)), target)

Located(scheme, authority, target) ==
    CASE ~IsTarget(target) -> Refused
      [] IsTarget(target) /\ authority # <<>> /\ authority[1] = "[" ->
            Bracketed(scheme, Tail(authority), FirstIn(Tail(authority), {"]"}), target)
      [] OTHER -> Plain(scheme, authority, LastIn(authority, {":"}), target)

\* Faulty: the userinfo ends at the first "@".
SplitAtFirst(scheme, before, target) == Located(scheme, Beyond(before, FirstIn(before, {"@"})), target)

\* What follows the scheme, up to its first delimiter and from there on.
Split(scheme, before, target) == Located(scheme, Beyond(before, LastIn(before, {"@"})), target)
Parse(scheme, rest) ==
    LET end == FirstIn(rest, Delimiters) IN
    IF scheme = "none" THEN Refused
    ELSE IF end = 0 THEN Split(scheme, rest, << "/" >>) ELSE Split(scheme, Until(rest, end), SubSeq(rest, end, Len(rest)))

-----------------------------------------------------------------------------
(* Versions, the ports that carry them, and how two ends settle on one.    *)

Versions == << "HTTP/1.0", "HTTP/1.1", "HTTP/2", "HTTP/3" >>
Identifiers ==
    << << 104, 116, 116, 112, 47, 49, 46, 48 >>, << 104, 116, 116, 112, 47, 49, 46, 49 >>, << 104, 50 >>, << 104, 51 >> >>
Ordinal(version) == SelectInSeq(Versions, LAMBDA v : v = version)
Identifier(version) == Identifiers[Ordinal(version)]
FromIdentifier(octets) == {Versions[i] : i \in {j \in DOMAIN Identifiers : Identifiers[j] = octets}}
Major(version) == IF Ordinal(version) <= 2 THEN 1 ELSE Ordinal(version) - 1
Transport(version) == IF Ordinal(version) = 4 THEN "quic" ELSE "stream"

\* A QUIC port settles its version when it is stood up, and offers one.
Carries(port, version) == (port = "quic") = (Transport(version) = "quic")
Offers(port, versions) ==
    LET offered == SelectSeq(versions, LAMBDA version : Carries(port, version))
    IN  IF port = "quic" /\ offered # <<>> THEN << Head(offered) >> ELSE offered

List(versions) == [i \in DOMAIN versions |-> Identifier(versions[i])]
Wire(versions) == FoldLeft(LAMBDA out, version : out \o << Len(Identifier(version)) >> \o Identifier(version), <<>>, versions)

\* Where the entries of a list in wire form start: one that runs past the end ends it.
Starts(client) ==
    LET Next(starts, i) == IF i = Last(starts) THEN Append(starts, i + 1 + client[i]) ELSE starts
    IN  Front(FoldLeft(Next, << 1 >>, [i \in DOMAIN client |-> i]))
Listed(client) ==
    {SubSeq(client, i + 1, i + client[i]) : i \in {j \in ToSet(Starts(client)) : j + client[j] <= Len(client)}}

\* Faulty: the client's preference wins.
SelectTheirs(offered, client) ==
    LET common == SelectSeq(Starts(client), LAMBDA i : SubSeq(client, i + 1, i + client[i]) \in ToSet(offered))
    IN  IF common = <<>> THEN {} ELSE {SubSeq(client, Head(common) + 1, Head(common) + client[Head(common)])}

\* The server's preference wins.
Select(offered, client) ==
    LET common == SelectSeq(offered, LAMBDA wanted : wanted \in Listed(client))
    IN  IF common = <<>> THEN {} ELSE {Head(common)}

\* A peer that selected nothing speaks HTTP/1, which predates ALPN.
Firsts(versions) == {versions[i] : i \in DOMAIN versions \cap {1}}
Old(versions) == SelectSeq(versions, LAMBDA version : Major(version) = 1)
Negotiated(selected, versions) ==
    IF selected = {} THEN Firsts(Old(versions))
    ELSE {version \in ToSet(versions) : \E octets \in selected : version \in FromIdentifier(octets)}

\* Faulty: the version a client prefers is taken for granted.
PriorFirst(versions) == Firsts(Offers("stream", versions))

\* What a client speaks to a peer it cannot ask: the one version it was given, or HTTP/1.
PriorVersion(versions) ==
    IF Len(Offers("stream", versions)) = 1 THEN Firsts(Offers("stream", versions)) ELSE Firsts(Old(versions))

\* A server that cannot be asked looks at the first octets, as many as there are before the end.
Preface == << "P", "R", "I", " " >>
Opening(version) == IF version = "HTTP/2" THEN Preface ELSE << "P", "U", "T", " " >>
Sniffed(offered, octets) ==
    IF "HTTP/2" \in ToSet(offered) /\ octets # <<>> /\ IsPrefix(octets, Preface) THEN {"HTTP/2"} ELSE Firsts(Old(offered))

\* Which version each end of a connection runs; none is a connection that fails.
Both(client, server) == [client |-> client, server |-> server]
OverPlain(client, offered, arrived) ==
    Both(client, UNION {Sniffed(offered, SubSeq(Opening(version), 1, arrived)) : version \in client})
OverTls(client, offered, selected) == Both(Negotiated(selected, client), Negotiated(selected, offered))
\* An application is fixed before the handshake, and checked against what it settled.
Verified(selected, versions) == Firsts(versions) \cap Negotiated(selected, versions)
OverQuic(client, offered, selected) == Both(Verified(selected, client), Verified(selected, offered))
Chosen(offered, client) == Select(List(offered), Wire(client))
Settled(route, client, server, arrived) ==
    CASE route = "plain" -> OverPlain(PriorVersion(client), Offers("stream", server), arrived)
      [] route = "tls" -> OverTls(Offers("stream", client), Offers("stream", server), Chosen(Offers("stream", server), Offers("stream", client)))
      [] route = "quic" -> OverQuic(Offers("quic", client), Offers("quic", server), Chosen(Offers("quic", server), Offers("quic", client)))

\* Server::open and attach: a port needs a version that it carries, and a QUIC port an
\* identity; TLS is accepted on TCP where there is one.
Attach(port, identity, versions) ==
    LET offered == Offers(IF port = "quic" THEN "quic" ELSE "stream", versions)
    IN  IF offered = <<>> \/ (port = "quic" /\ ~identity) THEN Refused
        ELSE [is |-> "listener", versions |-> offered, acceptor |-> identity /\ port = "tcp"]
Route(port, listener) == IF port = "quic" THEN "quic" ELSE IF listener.acceptor THEN "tls" ELSE "plain"

-----------------------------------------------------------------------------
(* Field values.  A name that is matched whatever its case is a word.       *)

Stripped(text, set) ==
    LET kept == {i \in DOMAIN text : text[i] \notin set}
    IN  IF kept = {} THEN <<>> ELSE SubSeq(text, Min(kept), Max(kept))
Trim(text) == Stripped(text, {" "})
Unquoted(text) == Stripped(text, {"quote"})

\* split and split_once.
Divided(text, mark) ==
    FoldLeft(LAMBDA parts, c : IF c = mark THEN Append(parts, <<>>) ELSE [parts EXCEPT ![Len(parts)] = Append(@, c)],
             << <<>> >>, text)
Join(parts) == FoldLeft(LAMBDA text, part : IF text = <<>> THEN part ELSE text \o << ";", " " >> \o part, <<>>, parts)
HasPair(part) == FirstIn(part, {"="}) # 0
Key(part) == IF HasPair(part) THEN Trim(Until(part, FirstIn(part, {"="}))) ELSE Trim(part)
Raw(part) == IF HasPair(part) THEN Trim(Beyond(part, FirstIn(part, {"="}))) ELSE <<>>

IsNumber(text) == text # <<>> /\ All(text, ToSet(Digits))

\* i64::MAX, at the scale of these.
Most == 2^15 - 1
Saturated(digits) == Min({Value(digits), Most})

\* Cookie: pairs, of which the first of a name wins.
CookieParse(value) ==
    LET Next(pairs, part) ==
            IF ~HasPair(part) \/ Key(part) = <<>> \/ \E i \in DOMAIN pairs : pairs[i].name = Key(part) THEN pairs
            ELSE Append(pairs, [name |-> Key(part), value |-> Unquoted(Raw(part))])
    IN  FoldLeft(Next, <<>>, Divided(value, ";"))
CookieBuild(pairs) == Join([i \in DOMAIN pairs |-> pairs[i].name \o << "=" >> \o pairs[i].value])

\* SetCookie: an attribute that may be absent is a set of one or none.
SetCookieNew(name, value) ==
    [name |-> name, value |-> value, expires |-> {}, max_age |-> {}, domain |-> {}, path |-> {},
     secure |-> FALSE, httponly |-> FALSE, samesite |-> {}]
Age(text) ==
    LET negative == text # <<>> /\ text[1] = "-"
        digits == IF negative THEN Tail(text) ELSE text
    IN  IF IsNumber(digits) THEN {IF negative THEN -Saturated(digits) ELSE Saturated(digits)} ELSE {}
SameSites == {"strict", "lax", "none"}
SameSiteOf(raw) == {site \in SameSites : raw = << site >>}
Attribute(cookie, part) ==
    LET key == Key(part)
        raw == Raw(part)
    IN  CASE key = << "expires" >> -> [cookie EXCEPT !.expires = {raw}]
          [] key = << "max-age" >> -> [cookie EXCEPT !.max_age = Age(raw)]
          [] key = << "domain" >> -> [cookie EXCEPT !.domain = {raw}]
          [] key = << "path" >> -> [cookie EXCEPT !.path = {raw}]
          [] key = << "secure" >> -> [cookie EXCEPT !.secure = TRUE]
          [] key = << "httponly" >> -> [cookie EXCEPT !.httponly = TRUE]
          [] key = << "samesite" >> -> [cookie EXCEPT !.samesite = SameSiteOf(raw)]
          [] OTHER -> cookie
SetCookieParse(value) ==
    LET parts == Divided(value, ";") IN
    IF ~HasPair(Head(parts)) THEN Refused
    ELSE [is |-> "cookie", cookie |-> FoldLeft(Attribute, SetCookieNew(Key(Head(parts)), Raw(Head(parts))), Tail(parts))]

\* build: a name that is a token and a value that does not break out; attributes as they are.
Separators == {" ", "ctl", ";", "=", "quote", ",", "/", "?", "@", ":", "[", "]"}
Forbidden == {" ", "ctl", "quote", ",", ";"}
SignedDecimal(n) == IF n < 0 THEN << "-" >> \o Decimal(-n) ELSE Decimal(n)
Written(key, texts) == [i \in 1 .. Cardinality(texts) |-> << key, "=" >> \o CHOOSE text \in texts : TRUE]
Flag(key, set) == IF set THEN << << key >> >> ELSE <<>>
SetCookieBuild(cookie) ==
    IF cookie.name = <<>> \/ ~Without(cookie.name, Separators) \/ ~Without(cookie.value, Forbidden) THEN Refused
    ELSE [is |-> "field",
          text |-> Join(<< cookie.name \o << "=" >> \o cookie.value >>
                        \o Written("expires", cookie.expires)
                        \o Written("max-age", {SignedDecimal(n) : n \in cookie.max_age})
                        \o Written("domain", cookie.domain) \o Written("path", cookie.path)
                        \o Flag("secure", cookie.secure) \o Flag("httponly", cookie.httponly)
                        \o Written("samesite", {<< site >> : site \in cookie.samesite}))]

\* HSTSPolicy.
PolicyValue(policy) ==
    Join(<< << "max-age", "=" >> \o Decimal(Max({policy.max_age, 0})) >>
         \o Flag("includesubdomains", policy.subdomains) \o Flag("preload", policy.preload))

\* parse: a directive that is given twice, or a max-age that is no number, refuses them all.
Directive(policy, part) ==
    LET key == Key(part)
        digits == Unquoted(Raw(part))
    IN  CASE Trim(part) = <<>> \/ policy.is = "refused" -> policy
          [] Trim(part) # <<>> /\ policy.is # "refused" /\ key \in policy.seen -> [policy EXCEPT !.is = "refused"]
          [] OTHER ->
                LET seen == [policy EXCEPT !.seen = @ \cup {key}] IN
                CASE key = << "max-age" >> ->
                        IF HasPair(part) /\ IsNumber(digits) THEN [seen EXCEPT !.is = "policy", !.max_age = Saturated(digits)]
                        ELSE [seen EXCEPT !.is = "refused"]
                  [] key = << "includesubdomains" >> -> [seen EXCEPT !.subdomains = TRUE]
                  [] key = << "preload" >> -> [seen EXCEPT !.preload = TRUE]
                  [] OTHER -> seen
PolicyParse(value) ==
    LET read == FoldLeft(Directive, [is |-> "open", seen |-> {}, max_age |-> -1, subdomains |-> FALSE, preload |-> FALSE],
                         Divided(value, ";"))
    IN  IF read.is = "policy" THEN {[max_age |-> read.max_age, subdomains |-> read.subdomains, preload |-> read.preload]}
        ELSE {}

-----------------------------------------------------------------------------
(* Dates.  The year begins in March, so that its leap day is its last.      *)

Epoch == 719468
DaysOfEra == 146097

\* Faulty: every hundredth year is a leap year.
YearOfJulianEra(day) == (day - (day \div 1460) + (day \div 146096)) \div 365

YearOfEra(day) == (day - (day \div 1460) + (day \div 36524) - (day \div 146096)) \div 365
DayOfYear(day, year) == day - (365 * year + (year \div 4) - (year \div 100))
CivilFromDays(days) ==
    LET era == (days + Epoch) \div DaysOfEra
        day == (days + Epoch) % DaysOfEra
        within == DayOfYear(day, YearOfEra(day))
        shifted == (5 * within + 2) \div 153
        month == IF shifted < 10 THEN shifted + 3 ELSE shifted - 9
    IN  << YearOfEra(day) + era * 400 + (IF month <= 2 THEN 1 ELSE 0), month, within - ((153 * shifted + 2) \div 5) + 1 >>

\* The date and the time of a second, given as a day and a second of that day.
Date(days, second) ==
    [weekday |-> (days + 4) % 7, day |-> CivilFromDays(days), time |-> << second \div 3600, (second % 3600) \div 60, second % 60 >>]
=============================================================================
