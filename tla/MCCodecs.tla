------------------------------ MODULE MCCodecs ------------------------------
(* Wires: every frame that is written, headers with payloads that may not   *)
(* fit them, messages well-formed and not, all short Huffman texts; URLs,    *)
(* versions, cookies, policies and days.                                   *)
EXTENDS Codecs

Wire(codec, octets, means) == [codec |-> codec, octets |-> octets, means |-> means]
Item(codec, item) == Wire(codec, <<>>, {item})

-----------------------------------------------------------------------------
\* HTTP/2.

OfKind(kind, stream) == [kind |-> kind, stream |-> stream]
H2Written ==
    {OfKind("DATA", 1) @@ [end |-> e, octets |-> o] : e \in BOOLEAN, o \in {<<>>, << 15, 0 >>}}
    \cup {OfKind("HEADERS", 1) @@ [end |-> e, whole |-> w, octets |-> << 9 >>] : e, w \in BOOLEAN}
    \cup {OfKind("PRIORITY", 3) @@ [on |-> on, exclusive |-> e, weight |-> 7] : on \in {0, H2!MaximumWindow}, e \in BOOLEAN}
    \cup {OfKind("RST_STREAM", 5) @@ [error |-> 8]}
    \cup {OfKind("SETTINGS", 0) @@ [ack |-> FALSE, params |-> p] : p \in {<<>>, << << 4, 65535 >>, << 9, 1 >> >>}}
    \cup {OfKind("SETTINGS", 0) @@ [ack |-> TRUE, params |-> <<>>]}
    \cup {OfKind("PUSH_PROMISE", 1) @@ [promised |-> 2, octets |-> << 1 >>]}
    \cup {OfKind("PING", 0) @@ [ack |-> a, octets |-> << 1, 2, 3, 4, 5, 6, 7, 8 >>] : a \in BOOLEAN}
    \cup {OfKind("GOAWAY", 0) @@ [last |-> l, error |-> 2, octets |-> << 4 >>] : l \in {0, H2!MaximumWindow}}
    \cup {OfKind("WINDOW_UPDATE", s) @@ [increment |-> i] : s \in {0, 1}, i \in {1, H2!MaximumWindow}}
    \cup {OfKind("CONTINUATION", 1) @@ [whole |-> w, octets |-> <<>>] : w \in BOOLEAN}
H2Payloads ==
    {<<>>, << 1 >>, << 2, 0, 3 >>, << 0, 0, 0, 0 >>, << 8, 0, 0, 1 >>, << 3, 0, 0, 1, 3 >>,
     << 0, 3, 0, 0, 0, 1 >>, << 8, 0, 0, 0, 0, 0, 0, 1 >>}
H2Header(length, code, flags, stream) == H2!Octets(3, length) \o << code, flags >> \o H2!Octets(4, stream)
H2Wires ==
    {Wire("h2", H2!Encode(f), {<< f >>}) : f \in H2Written}
    \cup {Wire("h2", H2!Encode(f) \o H2!Encode(g), {<< f, g >>}) :
            f \in {h \in H2Written : h.kind = "DATA"}, g \in {h \in H2Written : h.kind \in {"PING", "PRIORITY"}}}
    \cup {Wire("h2", H2Header(Len(p), code, flags, stream) \o p, {}) :
            p \in H2Payloads, code \in 0 .. 10, flags \in {0, 1, 4, 8, 12}, stream \in {0, 1}}
    \cup {Wire("h2", H2Header(MaxFrame + 1, 0, 0, 1), {})}

-----------------------------------------------------------------------------
\* HTTP/3.

H3Written ==
    {[kind |-> k, octets |-> o] : k \in {"DATA", "HEADERS"}, o \in {<<>>, << 15, 0 >>, << 1, 2, 3, 4, 5 >>}}
    \cup {[kind |-> k, id |-> i] : k \in {"CANCEL_PUSH", "MAX_PUSH_ID", "GOAWAY"}, i \in {0, 3, 4, 63, 64, 16384}}
    \cup {[kind |-> "SETTINGS", params |-> p] : p \in {<<>>, << << 1, 100 >>, << 8, 1 >> >>}}
    \cup {[kind |-> "PUSH_PROMISE", id |-> i, octets |-> << 7 >>] : i \in {1, 70}}
H3Payloads == {<<>>, << 1 >>, << 4, 1 >>, << 1, 2, 1, 3 >>, << 3, 4, 1, 2 >>, << 8, 0, 0, 1, 2 >>, << 12, 0, 0, 0, 0, 0, 0, 1 >>}
H3Wires ==
    {Wire("h3", H3!Encode(f), {<< f >>}) : f \in H3Written}
    \cup {Wire("h3", H3!Encode(f) \o H3!Encode(g), {<< f, g >>}) :
            f \in {h \in H3Written : h.kind = "DATA"}, g \in {h \in H3Written : h.kind \in {"SETTINGS", "GOAWAY"}}}
    \cup {Wire("h3", H3!Varint(code) \o H3!Varint(Len(p)) \o p, {}) : p \in H3Payloads, code \in 0 .. 15}

-----------------------------------------------------------------------------
\* WebSocket: payloads of every form of length but the longest.

Payload(n) == [i \in 1 .. n |-> i % Octet]
WSWritten ==
    {[fin |-> fin, op |-> op, mask |-> mask, payload |-> Payload(n)] :
        fin \in BOOLEAN, op \in {"text", "continuation", "binary"}, mask \in {<<>>, << 1, 7, 0, 15 >>}, n \in {0, 5, 6, 9}}
    \cup {[fin |-> TRUE, op |-> op, mask |-> << 1, 7, 0, 15 >>, payload |-> Payload(n)] : op \in {"close", "ping", "pong"}, n \in {0, 5}}
WSWires ==
    {Wire("ws", WS!Encode(f), {<< f >>}) : f \in WSWritten}
    \cup {Wire("ws", << first, op, form >> \o rest, {}) :
            first \in {0, 1, 8}, op \in {0, 1, 3, 9}, form \in {0, 2, 6, 7, 9, 14},
            rest \in {<<>>, << 0, 2, 5, 6 >>, << 0, 7, 1, 2, 3, 4, 5, 6, 7, 8 >>, << 0, 0, 0, 0, 0, 0, 0, 1, 5 >>,
                      << 8, 0, 0, 0, 0, 0, 0, 1 >>}}

-----------------------------------------------------------------------------
\* HTTP/1: messages, and wires put together of a start line, fields and a body.

Get == [is |-> "request", method |-> "GET", target |-> << "/", "x" >>, version |-> "HTTP/1.1"]
Found == [is |-> "response", status |-> "200", version |-> "HTTP/1.1", reason |-> << "x", " ", "y" >>]
HField(value) == [name |-> << "x" >>, value |-> value]
Ends == [is |-> "done"]
Messages(start) ==
    {[start |-> start, fields |-> f, framing |-> [is |-> "chunks"], chunks |-> c, trailers |-> t] :
        f, t \in {<<>>, << HField(<<>>), HField(<< "obs" >>) >>},
        c \in {<<>>, << << "x" >>, << "cr", "lf" >> >>}}
    \cup {[start |-> start, fields |-> << HField(<< "y", " ", "x", "tab" >>) >>, trailers |-> <<>>,
           framing |-> IF c = <<>> THEN Ends ELSE [is |-> "sized", size |-> Len(FlattenSeq(c))], chunks |-> c] :
        c \in {<<>>, << << "x" >> >>, << << "lf", "0" >>, << "cr", "x" >> >>}}
H1Wire(role, framing, octets, means) == Wire("h1", octets, means) @@ [role |-> role, framing |-> framing]
Joined(line) == line \o H1!CRLF
Lines == {Joined(H1!StartLine(Get)), H1!CRLF \o Joined(H1!StartLine(Get)), H1!CRLF \o H1!CRLF, << "lf" >>,
          Joined(<< "GET", " ", " ", "HTTP/1.1" >>), Joined(<< "x", " ", "x", " ", "HTTP/1.1" >>),
          Joined(<< "GET", " ", "x", " ", "HTTP/2" >>), Joined(<< "GET", " ", "ctl", " ", "HTTP/1.1" >>),
          Joined(<< "HTTP/1.1", " ", "200", " " >>), Joined(<< "HTTP/1.1", " ", "200" >>), Joined(<< "x", "y", "x", "y", "x", "y", "x", "y", "x" >>)}
Blocks == {H1!CRLF, << "x", ":", "y", "cr", "lf", "cr", "lf" >>, << "x", ":", "y", "lf", "cr", "lf" >>, << " ", "cr", "lf", "cr", "lf" >>,
           << ":", "x", "cr", "lf", "cr", "lf" >>, << "x", " ", ":", "cr", "lf", "cr", "lf" >>, << "x", ":", "ctl", "cr", "lf", "cr", "lf" >>,
           << "x", ":", "cr", "lf", "x", ":", "cr", "lf", "x", ":", "cr", "lf", "cr", "lf" >>}
Bodies == {<< "1", "cr", "lf", "x", "cr", "lf", "0", "cr", "lf", "cr", "lf", "x" >>, << "1", "lf", "x" >>, << "x", "cr", "lf" >>,
           << "1", ";", "x", "cr", "lf", "x", "y", "cr", "lf" >>, << "0", ";", "cr", "lf", "x", ":", "cr", "lf", "cr", "lf" >>,
           << "f", "cr", "lf" >>, << "f", "f", "f", "cr", "lf" >>, << "cr", "lf" >>}
H1Wires ==
    {H1Wire("server", m.framing, H1!Written(m), {m}) : m \in Messages(Get)}
    \cup {H1Wire("client", m.framing, H1!Written(m), {m}) : m \in Messages(Found)}
    \cup {H1Wire("server", Ends, line \o H1!CRLF, {}) : line \in Lines}
    \cup {H1Wire("client", Ends, line \o H1!CRLF, {}) : line \in Lines}
    \cup {H1Wire("server", Ends, Joined(H1!StartLine(Get)) \o block, {}) : block \in Blocks}
    \cup {H1Wire("server", [is |-> "chunks"], Joined(H1!StartLine(Get)) \o H1!CRLF \o body, {}) : body \in Bodies}

-----------------------------------------------------------------------------
\* Texts.  In Huffman code "0", ",", a NUL and an octet of thirty bits are words
\* of each kind; wires are every octet, and every other after one in a handful.

Symbols == {48, 44, 0, 10}
HuffTexts == UNION {[1 .. n -> Symbols] : n \in 0 .. 3}
HuffWires ==
    {Wire("huffman", Huff!Encode(text), {text}) : text \in HuffTexts}
    \cup {Wire("huffman", << a >>, {}) : a \in 0 .. 255}
    \cup {Wire("huffman", << a, b >>, {}) : a \in {0, 7, 249, 254, 255}, b \in 0 .. 255}
    \cup {Wire("huffman", << 255, 255, a, b >>, {}) : a \in {240, 255}, b \in {0, 127, 251, 252, 255}}
Base64Wires ==
    {Item("base64", text) : text \in UNION {[1 .. n -> {0, 5, 15}] : n \in 0 .. 4}}
    \cup {Item("base64 text", text) : text \in [1 .. 4 -> {0, 1, 6, Small!Pad, Small!Foreign}] \cup {<<>>, << 1 >>, << 1, 2, 3, 4, 5, 4, Small!Pad, Small!Pad >>}}
\* Texts longer than the window: of short words and of long ones.
LongTexts == {[i \in 1 .. n |-> IF i % k = 0 THEN long ELSE short] : n \in 10 .. 16, k \in 2 .. 4, short \in {48, 44}, long \in {10, 255, 49}}
LongWires == {Wire("huffman", Huff!Encode(text), {text}) : text \in LongTexts}
             \cup {Wire("huffman", Append(Huff!Encode(text), octet), {}) : text \in LongTexts, octet \in {0, 127, 255}}
ScheduleItems == {Item("schedule", [i \in 1 .. 16 |-> IF i \in {a, b} THEN 9 ELSE 0]) : a, b \in 1 .. 16}
Sha1Wires == {Wire("sha1", Payload(n), {}) : n \in 0 .. 17}
ScanItems == {Item("scan", text) : text \in UNION {[1 .. n -> {0, 1, 2, 3, 7, 8, 15}] : n \in {0, 3, 4}}}
             \cup {Item("scan", << 3, 3, 3 >> \o text) : text \in [1 .. 4 -> {0, 1, 7, 9}]}
             \cup {Item("scan", text) : text \in UNION {[1 .. n -> 3 .. 6] : n \in 1 .. 5}}
Texts == {Payload(n) : n \in 0 .. 40} \cup {<< 0 >>, << 0, 0 >>, << 0, 0, 0, 0 >>, << 1, 0, 3 >>} \cup {[Payload(9) EXCEPT ![i] = 0] : i \in 1 .. 9}
         \cup {[Payload(n) EXCEPT ![i] = 12] : n \in {8, 9, 11}, i \in 2 .. 8} \cup {[i \in 1 .. n |-> 3 + (i % 3)] : n \in 8 .. 10}
TextItems == {Item("text", text) @@ [others |-> Texts] : text \in Texts} \cup {Item("mask", Payload(n)) : n \in 0 .. 19}
StringItems == {Item("string", text) : text \in UNION {[1 .. n -> {48, 10, 200}] : n \in 0 .. 3} \cup {t \in LongTexts : Len(t) \in {10, 16} /\ t[1] # t[2]}}
BufferWires == {Wire("buffer", Payload(n), {}) @@ [chunk |-> chunk] : n \in {0, 5, 8, 13}, chunk \in {0, 1, 2, 6, 7, 100}}

-----------------------------------------------------------------------------
\* What is announced, counted and asked for.

SettingsItems ==
    {Item("h2 settings", [table |-> t, push |-> p, streams |-> s, window |-> w, frame |-> f, list |-> l, connect |-> c]) :
        t \in {0, 70}, p, c \in {0, 1, 2}, s, l \in {H2!NoLimit, 0, 9}, w \in {0, 100, H2!MaximumWindow, H2!TopBit},
        f \in {0, 16, 4095, 4096}}
    \cup {Item("h3 settings", [table |-> t, blocked |-> b, list |-> l, connect |-> c]) :
        t \in {0, 70}, b \in {0, 2}, l \in {H3!NoLimit, 0, 9}, c \in {0, 1, 2}}
IntegerItems == {Item("integer", n) : n \in 0 .. 127 \cup {16383, 16384, 65535}}
HandshakeItems ==
    {Item("handshake", WS!Request(v, m, [upgrade |-> u, connection |-> c, offers |-> o, key |-> k, accept |-> "none", protocol |-> p])) :
        v \in {"1.0", "1.1", "2", "3"}, m \in {"GET", "CONNECT"}, u \in {{}, {"websocket"}, {"h2c", "websocket"}},
        c \in {{}, {"upgrade"}, {"upgrade", "close"}}, o \in {"none", "8", "13"}, k \in {"none", "n1"}, p \in {"none", "websocket", "x"}}

-----------------------------------------------------------------------------
\* Addresses: put together of parts, and any few characters after a scheme;
\* every two preferences of versions; days about the turns of years.

Url(scheme, text, means) == Wire("url", <<>>, means) @@ [scheme |-> scheme, text |-> text]
Shown(host) == IF ":" \in ToSet(host) THEN << "[" >> \o host \o << "]" >> ELSE host
Hosts == {<< "g", "." >>, << "a", "8" >>, << ":", ":", "1" >>, << "f", ":", "8", "0" >>}
Users == {<<>>, << "g", "@" >>, << "g", ":", "1", "@" >>, << "@", "a", "@" >>}
Ports == {80, 443, 7, 65535}
UrlItems ==
    {Url(scheme, user \o Shown(host) \o << ":" >> \o plus \o Net!Decimal(port) \o target,
         {[is |-> "url", scheme |-> scheme, host |-> host, port |-> port, target |-> IF target = <<>> THEN << "/" >> ELSE target]}) :
        scheme \in {"http", "wss", "ftp"}, user \in Users, host \in Hosts, plus \in {<<>>, << "+" >>}, port \in Ports,
        target \in {<<>>, << "/", "@" >>, << "?", ":", "#" >>}}
    \cup {Url(scheme, text, {}) : scheme \in {"https", "none"}, text \in UNION {[1 .. n -> {"a", "g", "8", ":", "@", "[", "]", "/", " "}] : n \in 0 .. 3}}
    \cup {Url("http", << "[", ":", "]" >> \o text, {}) : text \in UNION {[1 .. n -> {"a", "8", ":", "@", "]", "#"}] : n \in 1 .. 3}}
    \cup {Url("http", << "a", ":" >> \o text, {Net!Refused}) : text \in {<< "6", "5", "5", "3", "6" >>, << "+" >>, << "8", "g" >>, <<>>}}

Preferences == UNION {{s \in [1 .. n -> ToSet(Net!Versions)] : IsInjective(s)} : n \in 0 .. 3}
VersionItems ==
    {Wire("alpn", <<>>, {}) @@ [route |-> how[1], arrived |-> how[2], server |-> server, client |-> client] :
        how \in {<< "plain", 0 >>, << "plain", 1 >>, << "plain", 4 >>, << "tls", 4 >>, << "quic", 4 >>}, server, client \in Preferences}

\* Cookies and policies: every short Cookie field, cookies with attributes of every kind,
\* and directives in any number and order.
Given(cookie, age, scope, flags) ==
    [cookie EXCEPT !.max_age = age, !.domain = scope, !.path = scope, !.expires = scope,
                   !.secure = flags, !.httponly = flags, !.samesite = IF flags THEN {"lax"} ELSE {}]
CookieItems ==
    {Item("set-cookie", Given(Net!SetCookieNew(name, value), age, scope, flags)) :
        name \in {<<>>, << "a" >>, << "a", "8" >>, << "a", "=" >>, << "b", ";" >>},
        value \in {<<>>, << "a" >>, << "a", "=", "b" >>, << "=", "8" >>, << "quote", "a", "quote" >>, << "b", " " >>},
        age \in {{}, {0}, {7}, {-1}, {Net!Most}, {-Net!Most - 1}}, scope \in {{}, {<<>>}, {<< "/", "a" >>}}, flags \in BOOLEAN}
    \cup {Item("cookie", text) : text \in UNION {[1 .. n -> {"a", "b", "=", ";", " "}] : n \in 0 .. 4}}
    \cup {Item("cookie", << "a", "=", "b", ";" >> \o text) : text \in [1 .. 4 -> {"a", "b", "=", ";", " "}]}
Directives ==
    {<< "max-age", "=", "7" >>, << " ", "max-age", " ", "=", " ", "quote", "8", "quote" >>, << "max-age" >>, << "max-age", "=", "a" >>,
     << "includesubdomains" >>, << " ", "preload" >>, << "preload", "=", "a" >>, << "a", "=", "1" >>, <<>>, << " " >>, << "=" >>}
PolicyItems == {Item("hsts", Net!Join(parts)) : parts \in UNION {[1 .. n -> Directives] : n \in 1 .. 3}}

DateItems ==
    {Wire("date", <<>>, {}) @@ [day |-> day, second |-> 86399] :
        day \in 0 .. 1500 \cup {365 * n + d : n \in 5 .. 66, d \in 0 .. 20} \cup 47480 .. 47550 \cup 157100 .. 157120}
    \cup {Wire("date", <<>>, {}) @@ [day |-> 0, second |-> 3599 * n] : n \in 0 .. 24}

MCSamples ==
    << H2Wires, H3Wires, WSWires, H1Wires, HuffWires, LongWires, Base64Wires, Sha1Wires,
       ScanItems, TextItems, ScheduleItems, SettingsItems, IntegerItems, HandshakeItems, UrlItems, VersionItems, DateItems,
       StringItems, BufferWires, CookieItems, PolicyItems >>
=============================================================================
