------------------------------ MODULE Messages ------------------------------
(***************************************************************************)
(* Messages and their field sections (src/models.rs), the coding of bodies *)
(* (src/helpers/compression.rs), what an endpoint fills in before a        *)
(* message goes out (src/finalizer.rs), and the field lists that HTTP/2    *)
(* and HTTP/3 put them in (src/protocol/common.rs).                        *)
(*                                                                         *)
(* A field name is a word in some spelling; a value is a list of entries,  *)
(* a token with its parameters each, which is how the fields that decide   *)
(* anything are read.  A body is how many octets its content has and the   *)
(* codings that were applied to it, one over the other.                    *)
(***************************************************************************)
EXTENDS Integers, Sequences, SequencesExt, FiniteSets, TLC

-----------------------------------------------------------------------------
(* Field sections: the fields, and a bit for each well-known name that may *)
(* be among them.                                                          *)

Entry(token) == [token |-> token, params |-> <<>>]
Says(token) == << Entry(token) >>
Name(word) == [word |-> word, lower |-> TRUE]
Field(word, value) == [name |-> Name(word), value |-> value]

WellKnown ==
    {"te", "host", "date", "server", "cookie", "upgrade", "location", "connection", "keep-alive", "set-cookie",
     "content-type", "content-length", "accept-encoding", "content-encoding", "proxy-connection",
     "transfer-encoding", "strict-transport-security"}

\* The bit of a name: none unless it is spelled in lowercase.
Bit(name) == IF name.lower THEN {name.word} \cap WellKnown ELSE {}
Presence(fields) == UNION {Bit(fields[i].name) : i \in DOMAIN fields}
Lowered(name) == [name EXCEPT !.lower = TRUE]
Named(stored, name) == stored.word = name.word

Adopt(fields, present) == [fields |-> fields, present |-> present]
FromFields(list) ==
    LET fields == [i \in DOMAIN list |-> [list[i] EXCEPT !.name = Lowered(@)]]
    IN  Adopt(fields, Presence(fields))
NoFields == Adopt(<<>>, {})

Absent(section, name) == Bit(name) # {} /\ Bit(name) \cap section.present = {}
Holds(section, name) ==
    ~Absent(section, name) /\ \E i \in DOMAIN section.fields : Named(section.fields[i].name, name)
GetAll(section, name) ==
    LET found == SelectSeq(section.fields, LAMBDA field : Named(field.name, name))
    IN  IF Absent(section, name) THEN <<>> ELSE [i \in DOMAIN found |-> found[i].value]
Has(section, word) == Holds(section, Name(word))

AppendField(section, name, value) ==
    Adopt(Append(section.fields, [name |-> Lowered(name), value |-> value]), section.present \cup Bit(Lowered(name)))

InsertField(section, name, value) ==
    LET kept == IF Absent(section, Lowered(name)) THEN section.fields
                ELSE SelectSeq(section.fields, LAMBDA field : field.name # Lowered(name))
    IN  AppendField(Adopt(kept, section.present), name, value)

\* Faulty: the bit goes whether or not every field of that name does.
RemoveClears(section, name) ==
    LET kept == SelectSeq(section.fields, LAMBDA field : field.name # name)
    IN  Adopt(kept, section.present \ Bit(Lowered(name)))

RemoveField(section, name) ==
    LET kept == SelectSeq(section.fields, LAMBDA field : ~Named(field.name, name))
    IN  IF Absent(section, name) \/ Len(kept) = Len(section.fields) THEN section ELSE Adopt(kept, Presence(kept))

With(section, word, value) == AppendField(section, Name(word), value)
Unless(held, section, word, value) == IF held \/ Has(section, word) THEN section ELSE With(section, word, value)

-----------------------------------------------------------------------------
(* Codings.                                                                *)

Codings == << "zstd", "br", "gzip", "deflate" >>

\* The coding a token names.
Coding(token) == IF token = "x-gzip" THEN "gzip" ELSE IF token \in ToSet(Codings) THEN token ELSE "none"

\* A quality is a text of digits and other octets, and is in ten-thousandths.
Point == 10
Full == 10000
Number(whole, digits) ==
    FoldLeft(LAMBDA sum, i : sum + digits[i] * (1000 \div 10^(i - 1)), whole * Full, [i \in DOMAIN digits |-> i])
Digits(text) == \A i \in DOMAIN text : text[i] < Point

\* One digit, and up to three after a point.
Qvalue(text) ==
    CASE text = <<>> -> -1
      [] text # <<>> /\ ~Digits(<< text[1] >>) -> -1
      [] Len(text) > 1 /\ (text[2] # Point \/ Len(text) > 5 \/ ~Digits(SubSeq(text, 3, Len(text)))) -> -1
      [] OTHER -> Number(text[1], SubSeq(text, 3, Len(text)))

\* The float parser, for texts of few digits with one point or none.
Float(text) ==
    LET point == SelectInSeq(text, LAMBDA octet : octet = Point)
        whole == IF point = 0 THEN text ELSE SubSeq(text, 1, point - 1)
        digits == IF point = 0 THEN <<>> ELSE SubSeq(text, point + 1, Len(text))
    IN  IF Digits(whole) /\ Digits(digits) /\ whole \o digits # <<>>
        THEN Number(FoldLeft(LAMBDA sum, digit : 10 * sum + digit, 0, whole), digits) ELSE -1

Rated(value) == IF Qvalue(value) >= 0 THEN Qvalue(value) ELSE Float(value)
Qualities(entry) == SelectSeq(entry.params, LAMBDA param : param.name = "q")

\* Faulty: what is out of range is taken for full acceptance.
QualityOrFull(entry) ==
    LET written == Qualities(entry)
    IN  IF written = <<>> \/ Rated(written[1].value) \notin 0 .. Full THEN Full ELSE Rated(written[1].value)

\* What an entry's first q parameter says; out of range, or no number: a refusal.
Quality(entry) ==
    LET written == Qualities(entry)
    IN  IF written = <<>> THEN Full
        ELSE IF Rated(written[1].value) \in 0 .. Full THEN Rated(written[1].value) ELSE 0

\* The entries of every value, those that name nothing left out.
Entries(values) == SelectSeq(FlattenSeq(values), LAMBDA entry : entry.token # "")

\* What was said last of a coding counts, and what was said last of "*" for the rest.
OwnEntry(entries, coding) == SelectLastInSeq(entries, LAMBDA entry : Coding(entry.token) = coding)
WildEntry(entries) == SelectLastInSeq(entries, LAMBDA entry : entry.token = "*")
QualityAt(entries, own, wild) ==
    CASE own > 0 -> Quality(entries[own]) [] own = 0 /\ wild > 0 -> Quality(entries[wild]) [] OTHER -> 0
AcceptedIn(entries) ==
    LET permitted == SelectSeq(Codings, LAMBDA coding : QualityAt(entries, OwnEntry(entries, coding), WildEntry(entries)) > 0)
    IN  IF permitted = <<>> THEN "none" ELSE Head(permitted)
AcceptedCoding(values) == AcceptedIn(Entries(values))

\* The one coding a body is in.
Applied(values) == SelectSeq(Entries(values), LAMBDA entry : entry.token # "identity")
AppliedCoding(values) == IF Len(Applied(values)) = 1 THEN Coding(Applied(values)[1].token) ELSE "none"
EncodedBody(values) == Applied(values) # <<>>

-----------------------------------------------------------------------------
(* Bodies.  A part is some of the octets of a coded body, as a range is.   *)

NoBody == [kind |-> "none", size |-> 0, coded |-> <<>>, part |-> FALSE]
Body(kind, size) == [NoBody EXCEPT !.kind = kind, !.size = size]

\* Octets on the wire: no two ways of coding a content come out the same length.
CodedAs == Codings \o << "raw deflate", "other" >>
Length(body) == FoldLeft(LAMBDA sum, coding : 7 * sum + SelectInSeq(CodedAs, LAMBDA c : c = coding), body.size, body.coded)
IsEmpty(body) == body.kind # "file" /\ Length(body) = 0
Inline(body) == body.kind \in {"data", "text"}
Materialized(body) == IF body.kind = "none" THEN body ELSE [body EXCEPT !.kind = "data"]

EncodedIn(coding, body) == [body EXCEPT !.kind = "data", !.coded = Append(@, coding)]

\* A deflate body is read as zlib first, and as raw deflate when it is not.
Reads(coding, body) ==
    body.coded # <<>> /\ ~body.part /\ Last(body.coded) \in {coding} \cup (IF coding = "deflate" THEN {"raw deflate"} ELSE {})
Drained(decoded, max) == IF Length(decoded) > max THEN [is |-> "too large"] ELSE [is |-> "body", body |-> decoded]
DecodedFrom(coding, body, max) ==
    IF Reads(coding, body) THEN Drained([body EXCEPT !.kind = "data", !.coded = Front(@)], max) ELSE [is |-> "coding"]

-----------------------------------------------------------------------------
(* Messages.                                                               *)

NewMessage(version) ==
    [version |-> version, method |-> "none", target |-> "none", status |-> 0, secure |-> FALSE,
     headers |-> NoFields, trailers |-> NoFields, body |-> NoBody, compression |-> "none"]
Request(method, target, version) == [NewMessage(version) EXCEPT !.method = method, !.target = target]
Response(status, version) == [NewMessage(version) EXCEPT !.status = status]

IsRequest(message) == message.method # "none"
IsResponse(message) == message.status # 0
Contentless(status) == status \in 100 .. 199 \cup {204, 304}
Bodyless(message, method) == IsResponse(message) /\ (Contentless(message.status) \/ method = "HEAD")
Tunneling(message, method) ==
    \/ message.method = "CONNECT"
    \/ method = "CONNECT" /\ message.status \in 200 .. 299
Compressed(message) == EncodedBody(GetAll(message.headers, Name("content-encoding")))
Accepted(message) == AcceptedCoding(GetAll(message.headers, Name("accept-encoding")))
Codable(message) ==
    /\ ~Contentless(message.status)
    /\ message.status # 206 /\ ~Has(message.headers, "content-range")
    /\ message.method # "CONNECT"

Done(message) == [is |-> "message", message |-> message]
Failed(why) == [is |-> why]
Materialize(message) == [message EXCEPT !.body = Materialized(@)]

\* Content-Length, where a section has one, is that of the body.
Corrected(section, body) ==
    IF Has(section, "content-length") THEN InsertField(section, Name("content-length"), Says(ToString(Length(body)))) ELSE section

\* A body in its coding, with the fields that say so.
Coded(message, coding, varying) ==
    LET body == EncodedIn(coding, message.body)
        headers == Corrected(With(message.headers, "content-encoding", Says(coding)), body)
    IN  [message EXCEPT !.body = body, !.compression = coding, !.headers = Unless(~varying, headers, "vary", Says("accept-encoding"))]

\* Faulty: a body that is coded already is coded again, and still says so once.
Recoded(message, coding) ==
    LET body == EncodedIn(coding, message.body)
    IN  [message EXCEPT !.body = body, !.compression = coding,
                        !.headers = Corrected(InsertField(message.headers, Name("content-encoding"), Says(coding)), body)]
CompressAgain(message, coding, varying) ==
    IF coding = "none" \/ ~Codable(message) \/ message.body.kind = "none" THEN Done([message EXCEPT !.compression = "none"])
    ELSE Done(Recoded(message, coding))

CompressIn(message, coding, varying) ==
    CASE coding = "none" \/ Compressed(message) \/ ~Codable(message) \/ message.body.kind = "none" \/ IsEmpty(message.body) ->
            Done([message EXCEPT !.compression = "none"])
      [] OTHER -> IF Inline(message.body) THEN Done(Coded(message, coding, varying)) ELSE Failed("file")
Compress(message, accepted) ==
    CompressIn(message, IF message.compression = "auto" THEN accepted ELSE message.compression,
               message.compression = "auto" /\ IsResponse(message))

Decoded(message, coding, decoded) ==
    CASE decoded.is # "body" -> Failed(decoded.is)
      [] OTHER -> Done([message EXCEPT !.body = decoded.body, !.compression = coding,
                            !.headers = Corrected(RemoveField(@, Name("content-encoding")), decoded.body)])
DecompressFrom(message, coding, max) ==
    IF coding = "none" \/ ~Inline(message.body) THEN Done(message)
    ELSE Decoded(message, coding, DecodedFrom(coding, message.body, max))
Decompress(message, max) == DecompressFrom(message, AppliedCoding(GetAll(message.headers, Name("content-encoding"))), max)

-----------------------------------------------------------------------------
(* What is filled in on the way out, by a server and by a client.          *)

FinalizeResponse(message, hsts) ==
    LET dated == Unless(FALSE, message.headers, "date", Says("now"))
        named == Unless(FALSE, dated, "server", Says("Soyokaze"))
    IN  IF message.status < 200 THEN message
        ELSE [message EXCEPT !.headers = Unless(~(hsts /\ message.secure), named, "strict-transport-security", Says("policy"))]

FinalizeRequest(message, authority) ==
    LET addressed == Unless(authority = "none", message.headers, "host", Says(authority))
    IN  [message EXCEPT !.headers =
            Unless(message.method = "CONNECT", addressed, "accept-encoding", [i \in DOMAIN Codings |-> Entry(Codings[i])])]

\* Each finalizer leaves alone what is not its own.
Finalize(message, client, secure, authority, hsts) ==
    CASE client -> IF IsRequest(message) THEN FinalizeRequest(message, authority) ELSE message
      [] OTHER -> IF IsResponse(message) THEN FinalizeResponse([message EXCEPT !.secure = secure], hsts) ELSE message

-----------------------------------------------------------------------------
(* The field list of HTTP/2 and HTTP/3.                                    *)

PseudoRequest == {":method", ":scheme", ":authority", ":path", ":protocol"}
PseudoResponse == {":status"}
Pseudo(name) == name.word \in PseudoRequest \cup PseudoResponse \cup {":other"}
ConnectionSpecific(name) ==
    name.lower /\ name.word \in {"connection", "keep-alive", "proxy-connection", "transfer-encoding", "upgrade"}
ForbiddenTrailer(name) ==
    ConnectionSpecific(name) \/ (name.lower /\ name.word \in {"content-length", "expect", "host", "te", "trailer"})

\* Octets that may not be in a value, or in a target.
IsValue(value) == \A i \in DOMAIN value : value[i].token # "ctl"
IsVisible(token) == token \notin {"", "ctl", "a b"}
Check(field) == field.name.lower /\ ~Pseudo(field.name) /\ IsValue(field.value)

First(section, word) == LET values == GetAll(section, Name(word)) IN IF values = <<>> THEN "none" ELSE values[1][1].token

StartFields(message) ==
    LET host == First(message.headers, "host")
        protocol == First(message.headers, ":protocol")
    IN  CASE message.method = "CONNECT" /\ protocol = "none" ->
                << Field(":method", Says("CONNECT")), Field(":authority", Says(message.target)) >>
          [] IsRequest(message) ->
                << Field(":method", Says(message.method)), Field(":scheme", Says(IF message.secure THEN "https" ELSE "http")) >>
                \o (IF host = "none" THEN <<>> ELSE << Field(":authority", Says(host)) >>)
                \o << Field(":path", Says(message.target)) >>
                \o (IF protocol = "none" THEN <<>> ELSE << Field(":protocol", Says(protocol)) >>)
          [] OTHER -> << Field(":status", Says(ToString(message.status))) >>

\* What of a section goes in the list: Host is said by :authority.
Framed(section) == SelectSeq(section.fields, LAMBDA field : ~Pseudo(field.name) /\ field.name # Name("host"))
Listed(start, regular) ==
    IF \/ \E i \in DOMAIN start : start[i].name.word \in {":authority", ":path"} /\ ~IsVisible(start[i].value[1].token)
       \/ \E i \in DOMAIN regular : ~Check(regular[i]) \/ ConnectionSpecific(regular[i].name)
    THEN Failed("refused")
    ELSE [is |-> "fields", fields |-> start \o regular]
Write(message) ==
    IF IsRequest(message) \/ IsResponse(message) THEN Listed(StartFields(message), Framed(message.headers)) ELSE Failed("refused")

IntoTrailers(fields) ==
    IF \E i \in DOMAIN fields : Pseudo(fields[i].name) \/ ~Check(fields[i]) \/ ForbiddenTrailer(fields[i].name)
    THEN Failed("refused")
    ELSE [is |-> "trailers", trailers |-> Adopt(fields, Presence(fields))]

At(fields, word) == SelectInSeq(fields, LAMBDA field : field.name = Name(word))
Seen(fields, word) == At(fields, word) > 0
What(fields, word) == IF Seen(fields, word) THEN fields[At(fields, word)].value[1].token ELSE "none"

Methods == {"GET", "HEAD", "POST", "PUT", "DELETE", "CONNECT", "OPTIONS", "TRACE", "PATCH"}

\* The statuses the model has: a value names one, or is not three digits.
Statuses == {100, 103, 200, 204, 206, 304, 404}
StatusOf(token) == {status \in Statuses : ToString(status) = token}

\* Faulty: a field that is about the connection is let in.
RegularLoosely(field) == Check(field) /\ field.name = Name("te") => field.value = Says("trailers")
Regular(field) == /\ Check(field) /\ ~ConnectionSpecific(field.name)
                  /\ field.name = Name("te") => field.value = Says("trailers")

\* A pseudo-header the format defines, whose value is of its kind.
Defined(field) ==
    /\ field.name.word \in PseudoRequest \cup PseudoResponse /\ IsValue(field.value)
    /\ field.name.word \in {":authority", ":path"} => IsVisible(field.value[1].token)
    /\ field.name.word = ":method" => field.value[1].token \in Methods
    /\ field.name.word = ":status" => StatusOf(field.value[1].token) # {}

\* Each once, and all before the first regular field.
WellFormed(fields) ==
    \A i \in DOMAIN fields :
        IF Pseudo(fields[i].name)
        THEN Defined(fields[i]) /\ \A j \in 1 .. i - 1 : Pseudo(fields[j].name) /\ fields[j].name # fields[i].name
        ELSE Regular(fields[i])

OpensTunnel(fields) == What(fields, ":method") = "CONNECT" /\ ~Seen(fields, ":protocol")

\* Those of its own kind of message, and all that kind needs.
Complete(fields) ==
    CASE ~Seen(fields, ":method") -> Seen(fields, ":status") /\ \A word \in PseudoRequest : ~Seen(fields, word)
      [] Seen(fields, ":method") /\ OpensTunnel(fields) ->
            Seen(fields, ":authority") /\ \A word \in {":status", ":scheme", ":path"} : ~Seen(fields, word)
      [] OTHER -> Seen(fields, ":scheme") /\ Seen(fields, ":path") /\ ~Seen(fields, ":status")

\* Every field that was delivered is kept, and an authority is a Host as well.
Hosted(section, fields) ==
    IF Seen(fields, ":method") /\ Seen(fields, ":authority")
    THEN InsertField(section, Name("host"), fields[At(fields, ":authority")].value) ELSE section

IntoMessage(fields, version) ==
    IF ~WellFormed(fields) \/ ~Complete(fields) THEN Failed("refused")
    ELSE Done([NewMessage(version) EXCEPT
            !.method = What(fields, ":method"),
            !.target = IF OpensTunnel(fields) THEN What(fields, ":authority") ELSE What(fields, ":path"),
            !.status = IF Seen(fields, ":status") THEN CHOOSE status \in StatusOf(What(fields, ":status")) : TRUE ELSE 0,
            !.secure = What(fields, ":scheme") = "https",
            !.headers = Hosted(Adopt(fields, Presence(fields)), fields)])
=============================================================================
