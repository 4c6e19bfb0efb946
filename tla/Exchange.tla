------------------------------ MODULE Exchange ------------------------------
(***************************************************************************)
(* A message on its way from hop to hop: an application makes a request,   *)
(* changes its fields, a client connection sends it, a server connection   *)
(* hands it on; there it is answered, or sent on to a further hop as a     *)
(* proxy does, and the answer goes back the way the request came.  What    *)
(* each connection does with a message on the way out and in is            *)
(* send_message and receive_message of src/protocol/{h1,h2,h3}.rs; how it  *)
(* is framed there is the subject of other modules.                        *)
(***************************************************************************)
EXTENDS Messages

CONSTANTS
    Requests,       \* the requests an application may make
    Foreign,        \* the field lists of requests that another implementation may send
    Edits,          \* the changes an application may make to a field section: [op, name, value]
    Answers,        \* the responses an application may make
    ForeignAnswers, \* what another implementation may answer with: [fields, body]
    Families,       \* the ways a hop may frame a message: "h1", "binary"
    Authority,      \* what a client connection was dialled with, or "none"
    MaxEdits,       \* bound: how many changes are made in all
    MaxHops,        \* bound: how many exchanges are open at once
    MaxDecoded      \* the limit max_decompressed_body_size

VARIABLES
    message,    \* the message the application holds
    origin,     \* how it came by it: "built", or the family that delivered it, untouched since
    asked,      \* the exchanges that are open: [family, method, accepts], the last one first to be answered
    edits,      \* how many changes were made
    outcome     \* "held", or why the last hop failed: "sender", or what the receiver said

vars == << message, origin, asked, edits, outcome >>

-----------------------------------------------------------------------------
(* One hop.                                                                *)

Versioned(family) == IF family = "h1" THEN "HTTP/1.1" ELSE "HTTP/2"
Secure(family) == family = "binary"

\* What both kinds of connection do before they frame a message.  A request has
\* no exchange to consult.
Prepared(held, family, accepted) ==
    LET finalized == Finalize([held EXCEPT !.version = Versioned(family)], IsRequest(held), Secure(family), Authority, TRUE)
    IN  Compress(Materialize(finalized), IF IsRequest(held) THEN "none" ELSE accepted)

\* HTTP/1: names in title case, and a length where the fields give none.
Tokens(section) == \A i \in DOMAIN section.fields : ~Pseudo(section.fields[i].name) /\ IsValue(section.fields[i].value)
Lengthened(prepared) ==
    LET owes == /\ ~Has(prepared.headers, "content-length") /\ ~Contentless(prepared.status)
                /\ prepared.body.kind # "none" \/ IsResponse(prepared)
    IN  Unless(~owes, prepared.headers, "content-length", Says(ToString(Length(prepared.body))))
TitleCase(section) == [i \in DOMAIN section.fields |-> [section.fields[i] EXCEPT !.name.lower = FALSE]]

\* What is left of a body on the far side: none where the message ends at its
\* fields, where a tunnel begins, or where nothing was in it.
EndsAtFields(prepared, method) == Bodyless(prepared, method) \/ Tunneling(prepared, method)
Delivering(prepared, method) == IF EndsAtFields(prepared, method) \/ IsEmpty(prepared.body) THEN NoBody ELSE prepared.body

Stamped(received, family, max) == Decompress([received EXCEPT !.secure = Secure(family)], max)

OverH1(prepared, method) ==
    IF (IsRequest(prepared) /\ ~IsVisible(prepared.target)) \/ ~Tokens(prepared.headers) THEN Failed("sender")
    ELSE Stamped([NewMessage("HTTP/1.1") EXCEPT
                    !.method = prepared.method, !.target = prepared.target, !.status = prepared.status,
                    !.headers = FromFields(TitleCase([prepared EXCEPT !.headers = Lengthened(prepared)].headers)),
                    !.body = Delivering(prepared, method)], "h1", MaxDecoded)

\* HTTP/2 and HTTP/3: a field list, and trailers as they are.
Assembled(received, trailers, body) ==
    IF received.is # "message" THEN received
    ELSE IF trailers.is # "trailers" THEN trailers
    ELSE Stamped([received.message EXCEPT !.trailers = trailers.trailers, !.body = body], "binary", MaxDecoded)
Trailing(prepared, method) == IF EndsAtFields(prepared, method) THEN <<>> ELSE prepared.trailers.fields
OverBinary(prepared, method, written) ==
    IF written.is # "fields" THEN Failed("sender")
    ELSE Assembled(IntoMessage(written.fields, "HTTP/2"), IntoTrailers(Trailing(prepared, method)), Delivering(prepared, method))

Sent(prepared, family, method) ==
    CASE prepared.is # "message" -> Failed("sender")
      [] prepared.is = "message" /\ family = "h1" -> OverH1(prepared.message, method)
      [] OTHER -> OverBinary(prepared.message, method, Write(prepared.message))

-----------------------------------------------------------------------------
Init ==
    /\ message \in Requests
    /\ origin = "built" /\ asked = <<>> /\ edits = 0 /\ outcome = "held"

Exchanged(received) == [method |-> received.method, accepts |-> GetAll(received.headers, Name("accept-encoding"))]
Accepts(exchange) == AcceptedCoding(exchange.accepts)

\* What a hop came to: the message on the far side, or nothing any more.
Arrives(arrived, family) ==
    IF arrived.is = "message" THEN message' = arrived.message /\ origin' = family /\ outcome' = "held"
    ELSE outcome' = arrived.is /\ UNCHANGED << message, origin >>

\* Headers::append, insert and remove.
Changed(section, edit) ==
    CASE edit.op = "append" -> AppendField(section, edit.name, edit.value)
      [] edit.op = "insert" -> InsertField(section, edit.name, edit.value)
      [] edit.op = "remove" -> RemoveField(section, edit.name)
Edit(edit) ==
    /\ outcome = "held" /\ edits < MaxEdits
    /\ message' = [message EXCEPT !.headers = Changed(@, edit)]
    /\ edits' = edits + 1 /\ origin' = "built"
    /\ UNCHANGED << asked, outcome >>

\* A request goes out, and its exchange is kept by both ends.
Ask(family) ==
    LET arrived == Sent(Prepared(message, family, "none"), family, "none") IN
    /\ outcome = "held" /\ IsRequest(message) /\ Len(asked) < MaxHops
    /\ Arrives(arrived, family)
    /\ asked' = IF arrived.is = "message" THEN << [family |-> family] @@ Exchanged(arrived.message) >> \o asked ELSE asked
    /\ UNCHANGED edits

\* Another implementation asks.
Hear(fields) ==
    LET arrived == Assembled(IntoMessage(fields, "HTTP/2"), IntoTrailers(<<>>), NoBody) IN
    /\ outcome = "held" /\ asked = <<>> /\ origin = "built" /\ edits = 0
    /\ Arrives(arrived, "binary")
    /\ asked' = IF arrived.is = "message" THEN << [family |-> "binary"] @@ Exchanged(arrived.message) >> ELSE asked
    /\ UNCHANGED edits

\* The application answers what it holds.
Answer(answer) ==
    /\ outcome = "held" /\ IsRequest(message) /\ asked # <<>>
    /\ message' = answer /\ origin' = "built"
    /\ UNCHANGED << asked, edits, outcome >>

\* Another implementation answers, on a hop that is binary.
HearAnswer(answer) ==
    LET arrived == Assembled(IntoMessage(answer.fields, "HTTP/2"), IntoTrailers(<<>>), answer.body) IN
    /\ outcome = "held" /\ IsRequest(message) /\ asked # <<>> /\ asked[1].family = "binary"
    /\ Arrives(arrived, "binary")
    /\ asked' = Tail(asked)
    /\ UNCHANGED edits

\* A response goes back on the exchange it answers and ends it; interim ones are not sent here.
Respond ==
    /\ outcome = "held" /\ IsResponse(message) /\ asked # <<>>
    /\ LET family == asked[1].family IN
       Arrives(Sent(Prepared(message, family, Accepts(asked[1])), family, asked[1].method), family)
    /\ asked' = Tail(asked)
    /\ UNCHANGED edits

Next ==
    \/ \E edit \in Edits : Edit(edit)
    \/ \E family \in Families : Ask(family)
    \/ \E fields \in Foreign : Hear(fields)
    \/ \E answer \in Answers : Answer(answer)
    \/ \E answer \in ForeignAnswers : HearAnswer(answer)
    \/ Respond

Spec == Init /\ [][Next]_vars

-----------------------------------------------------------------------------
\* What a section says of a name, field by field.
Values(section, word) ==
    LET found == SelectSeq(section.fields, LAMBDA field : field.name.word = word)
    IN  [i \in DOMAIN found |-> found[i].value]
Words == WellKnown \cup {"vary", "x", ":authority"}

(* No lookup misses a field that is there, in whatever case it is asked for,  *)
(* after any run of appends, inserts and removals, on sections that were      *)
(* built, received in title case or adopted: the presence bits of Headers     *)
(* never rule out what the list holds (Headers::absent, adopt, from_fields).  *)
SectionsTrue ==
    \A section \in {message.headers, message.trailers}, word \in Words, lower \in BOOLEAN :
        LET name == [word |-> word, lower |-> lower] IN
        /\ GetAll(section, name) = Values(section, word)
        /\ Holds(section, name) <=> Values(section, word) # <<>>

-----------------------------------------------------------------------------
\* The codings a message names are those its body is in, and its length is the body's.
Shown(coding) == CASE coding = "raw deflate" -> "deflate" [] coding = "other" -> "none" [] OTHER -> coding
Described(held) ==
    LET named == Applied(Values(held.headers, "content-encoding"))
    IN  held.body.kind # "none" =>
            /\ [i \in DOMAIN named |-> Coding(named[i].token)] = [i \in DOMAIN held.body.coded |-> Shown(held.body.coded[i])]
            /\ Values(held.headers, "content-length") \in {<<>>, << Says(ToString(Length(held.body))) >>}

\* What connections fill in, and what they change.
Filled == {"date", "server", "strict-transport-security", "accept-encoding"}
Theirs == {"content-length", "content-encoding", "vary", "host", ":authority"}

SaysTheSame(sent, got, family, method) ==
    /\ << got.method, got.target, got.status >> = << sent.method, sent.target, sent.status >>
    /\ \A word \in Words \ Theirs :
        Values(got.headers, word) = Values(sent.headers, word) \/ (Values(sent.headers, word) = <<>> /\ word \in Filled)
    /\ IsPrefix(Values(sent.headers, "vary"), Values(got.headers, "vary"))
    /\ IsRequest(sent) /\ sent.method # "CONNECT" =>
        LET host == Values(sent.headers, "host") IN
        Values(got.headers, "host") = IF host = <<>> THEN << Says(Authority) >> ELSE IF family = "h1" THEN host ELSE << host[1] >>
    /\ Described(sent) => Described(got)
    /\ IF EndsAtFields(sent, method) \/ sent.body.kind = "none" \/ sent.body.size = 0 THEN got.body = NoBody
       ELSE got.body.size = sent.body.size /\ got.body.part = sent.body.part
    /\ family = "binary" => got.trailers.fields = Trailing(sent, method)

\* A step that takes the message over a hop.
Hops(family, method) ==
    \/ Ask(family) /\ method = "none"
    \/ Respond /\ family = asked[1].family /\ method = asked[1].method

(* A message that arrives says what was sent: its start line, its fields but   *)
(* those a connection owns, one host, and its content, in the codings its      *)
(* fields name and of the length they give, however it was coded on the way    *)
(* (send_message and receive_message, Message::compress and decompress,        *)
(* Fields::write and into_message, the finalizers).                            *)
Delivered ==
    [][\A family \in Families, method \in {"none"} \cup {asked[i].method : i \in DOMAIN asked} :
        Hops(family, method) /\ outcome' = "held" => SaysTheSame(message, message', family, method)]_vars

\* A coding the peer takes, by what it said of it last, or else of "*".
Takes(accepts, coding) ==
    LET entries == Entries(accepts)
        own == {i \in DOMAIN entries : Coding(entries[i].token) = coding}
        asking == IF own # {} THEN own ELSE {i \in DOMAIN entries : entries[i].token = "*"}
        Rating(i) == LET written == Qualities(entries[i]) IN IF written = <<>> THEN Full ELSE Float(written[1].value)
    IN  \E i \in asking : (\A j \in asking : j <= i) /\ Rating(i) \in 1 .. Full

\* A response whose coding was left to the connection.
Left(held, method) ==
    /\ held.compression = "auto" /\ ~Compressed(held) /\ Codable(held) /\ held.body.kind # "none" /\ held.body.size > 0
    /\ ~EndsAtFields(held, method)

(* A response that is coded by what the peer said it accepts is coded in the   *)
(* first coding the peer takes, and in none where it takes none, and a cache   *)
(* is told (Message::compress, Compression::accepted, Exchange.accepted of     *)
(* h1.rs, H2Stream.accepted).                                                  *)
Readable ==
    [][Respond /\ outcome' = "held" /\ Left(message, asked[1].method) =>
        LET taken == SelectSeq(Codings, LAMBDA coding : Takes(asked[1].accepts, coding)) IN
        IF taken = <<>> THEN message'.compression = "none"
        ELSE message'.compression = Head(taken) /\ Values(message'.headers, "vary") # <<>>]_vars

\* What the application, or a peer, put in a message that cannot be sent on.
Unsendable(held, family) ==
    \/ \E i \in DOMAIN held.headers.fields :
        LET field == held.headers.fields[i] IN
        ~IsValue(field.value) \/ (IF family = "h1" THEN Pseudo(field.name) ELSE ConnectionSpecific(field.name))
    \/ IsRequest(held) /\ ~IsVisible(held.target)
    \/ IsRequest(held) /\ \E i \in DOMAIN Values(held.headers, "host") : ~IsVisible(Values(held.headers, "host")[i][1].token)

\* What a sender lets out all the same: a TE the format has no use for.
Unchecked(held) == \E i \in DOMAIN Values(held.headers, "te") : Values(held.headers, "te")[i] # Says("trailers")

(* A receiver refuses nothing that one of these connections sent, unless it is *)
(* too large once decoded or asks for a transfer coding, which Fields::write   *)
(* does not look at; a sender refuses only what is malformed or belongs to a   *)
(* connection; and what a binary hop delivered, another carries on:            *)
(* Fields::into_message lets in only what Fields::write lets out.              *)
Carried ==
    [][\A family \in Families, method \in {"none"} \cup {asked[i].method : i \in DOMAIN asked} :
        Hops(family, method) /\ outcome' # "held" =>
            /\ outcome' \in {"sender", "too large"} \/ (outcome' = "refused" /\ family = "binary" /\ Unchecked(message))
            /\ outcome' = "sender" => Unsendable(message, family) /\ ~(origin = "binary" /\ family = "binary")]_vars

(* What a hop delivered, the next one carries on, be it of another version,    *)
(* unless the fields are about the connection.  It does not hold: README,      *)
(* Findings.                                                                   *)
ForwardedAcross ==
    [][\A family \in Families : Ask(family) /\ origin # "built" /\ outcome' = "sender" =>
        \E i \in DOMAIN message.headers.fields : ConnectionSpecific(message.headers.fields[i].name)]_vars

(* A body is coded for a peer that asked for nothing only if the application   *)
(* named the coding.  It does not hold of a response sent on: README, Findings. *)
CodedOnRequest ==
    [][Respond /\ outcome' = "held" /\ origin # "built" =>
        message'.compression = "none" \/ Takes(asked[1].accepts, message'.compression) \/ Compressed(message)]_vars
=============================================================================
