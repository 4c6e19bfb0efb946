----------------------------- MODULE H1Grammar -----------------------------
(***************************************************************************)
(* HTTP/1 messages as text (src/protocol/h1.rs): the start line, the field *)
(* section and the chunks, written and read back from a buffer that fills  *)
(* as octets arrive.                                                       *)
(*                                                                         *)
(* An item is an octet, or a word that reading never looks into: a method, *)
(* a version, a status.  Items stand for every octet of their class.       *)
(***************************************************************************)
EXTENDS Integers, Sequences, SequencesExt, FiniteSetsExt

CONSTANTS
    MaxLine,        \* max_startline_size
    MaxSection,     \* max_headers_size
    MaxCount,       \* max_header_count
    MaxChunkLine,   \* max_chunk_header_size
    MaxBody,        \* max_message_body_size, or what is left for the body
    Word            \* how many sizes can be addressed: 2^64

CR == "cr"
LF == "lf"
CRLF == << CR, LF >>
Blanks == {" ", "tab"}
Methods == {"GET", "POST"}
Versions == {"HTTP/1.0", "HTTP/1.1"}
Statuses == {"200", "404"}
HexDigits == [d \in {"0", "1", "2", "f"} |-> CASE d = "0" -> 0 [] d = "1" -> 1 [] d = "2" -> 2 [] d = "f" -> 15]

\* Octets::TABLE: a control character is "ctl", CR or LF, and text beyond ASCII
\* is "obs"; "HTTP/2" is a version that is not one of HTTP/1.
Token == {"x", "y"} \cup Methods \cup Statuses \cup DOMAIN HexDigits
Visible == Token \cup Versions \cup {"HTTP/2", "/", ":", ";", "obs"}
FieldText == Visible \cup Blanks
All(items, class) == ToSet(items) \subseteq class

At(items, item) == SelectInSeq(items, LAMBDA i : i = item)
Before(items, at) == SubSeq(items, 1, at - 1)
After(items, at) == SubSeq(items, at + 1, Len(items))

-----------------------------------------------------------------------------
\* The start line.

\* write: of a message that is a request or a response.
StartLine(message) ==
    IF message.is = "request"
    THEN << message.method, " " >> \o message.target \o << " ", message.version >>
    ELSE << message.version, " ", message.status, " " >> \o message.reason

Malformed == [is |-> "refused", status |-> 0]

\* A line between its first two spaces and around them, where it has two.
Parts(line) ==
    LET first == At(line, " ")
        second == At(After(line, first), " ")
    IN  IF first = 0 \/ second = 0 THEN <<>>
        ELSE << Before(line, first), Before(After(line, first), second), After(After(line, first), second) >>

\* Whether items are one word of a set.
Is(items, words) == Len(items) = 1 /\ items[1] \in words
Target(items) == items # <<>> /\ All(items, Visible)

\* parse_bytes of a request line, by its parts.
RequestOf(part) ==
    IF part # <<>> /\ Is(part[1], Methods) /\ Target(part[2]) /\ Is(part[3], Versions)
    THEN [is |-> "request", method |-> part[1][1], target |-> part[2], version |-> part[3][1]]
    ELSE Malformed

\* parse_bytes of a status line; the reason is checked and dropped.
ResponseOf(part) ==
    IF part # <<>> /\ Is(part[1], Versions) /\ Is(part[2], Statuses) /\ All(part[3], FieldText)
    THEN [is |-> "response", status |-> part[2][1], version |-> part[1][1]]
    ELSE Malformed

\* error_status_bytes: what a server answers to a line it cannot parse.
ErrorStatus(part) ==
    IF part = <<>> THEN 400
    ELSE IF ~Is(part[1], Methods) THEN 501
    ELSE IF ~Target(part[2]) THEN 400
    ELSE IF ~Is(part[3], Versions) THEN 505
    ELSE 400

StartOf(line) ==
    IF line # <<>> /\ line[1] \in Versions \cup {"HTTP/2"} THEN ResponseOf(Parts(line)) ELSE RequestOf(Parts(line))

-----------------------------------------------------------------------------
\* Field sections.

\* Field::write, of a field it does not refuse.
Writable(field) == field.name # <<>> /\ All(field.name, Token) /\ All(field.value, FieldText)
FieldLine(field) == field.name \o << ":", " " >> \o field.value \o CRLF
Section(fields) == FlattenSeq([i \in DOMAIN fields |-> FieldLine(fields[i])])

\* What is between the blanks at either end.
Trimmed(items) ==
    LET kept == {i \in DOMAIN items : items[i] \notin Blanks} IN
    IF kept = {} THEN <<>> ELSE SubSeq(items, Min(kept), Max(kept))

\* name_end and spans
FieldOf(line) ==
    LET colon == At(line, ":")
        value == Trimmed(After(line, colon))
    IN  IF colon > 1 /\ All(Before(line, colon), Token) /\ All(value, FieldText)
        THEN [is |-> "field", name |-> Before(line, colon), value |-> value]
        ELSE Malformed

\* parse_block: one line at a time, until one is refused or there are too many.
TakeLine(state) ==
    LET end == At(state.rest, LF)
        line == SubSeq(state.rest, 1, end - 2)
        field == FieldOf(line)
    IN  IF \/ end < 2 \/ state.rest[end - 1] # CR
           \/ Len(state.fields) >= MaxCount
           \/ line # <<>> /\ line[1] \in Blanks
           \/ field.is = "refused"
        THEN [state EXCEPT !.is = "refused"]
        ELSE [state EXCEPT !.rest = After(@, end),
                           !.fields = Append(@, [name |-> field.name, value |-> field.value])]
FieldsOf(block) ==
    FoldLeft(LAMBDA state, item : IF state.is = "refused" \/ state.rest = <<>> THEN state ELSE TakeLine(state),
             [is |-> "read", rest |-> block, fields |-> <<>>], block)

\* Faulty: what was searched is not looked at again, although a blank line may
\* be on its way.
BlockEndOnce(data, searched) ==
    LET lines == {i \in searched + 1 .. Len(data) : data[i] = LF}
        ends == {i \in lines : i + 2 <= Len(data) /\ SubSeq(data, i + 1, i + 2) = CRLF}
    IN  CASE IsPrefix(CRLF, data) -> [found |-> TRUE, fields |-> 0, searched |-> searched]
          [] ~IsPrefix(CRLF, data) /\ ends # {} -> [found |-> TRUE, fields |-> Min(ends), searched |-> searched]
          [] OTHER -> [found |-> FALSE, fields |-> 0, searched |-> Len(data)]

\* block_end: the line before the blank one, and how far the lines were searched
\* of which it is known whether a blank one follows.
BlockEnd(data, searched) ==
    LET lines == {i \in searched + 1 .. Len(data) : data[i] = LF}
        ends == {i \in lines : i + 2 <= Len(data) /\ SubSeq(data, i + 1, i + 2) = CRLF}
    IN  CASE IsPrefix(CRLF, data) -> [found |-> TRUE, fields |-> 0, searched |-> searched]
          [] ~IsPrefix(CRLF, data) /\ ends # {} -> [found |-> TRUE, fields |-> Min(ends), searched |-> searched]
          [] OTHER ->
                [found |-> FALSE, fields |-> 0,
                 searched |-> Max({i \in lines : i + 2 <= Len(data)} \cup {searched})]

-----------------------------------------------------------------------------
\* Chunks.

\* Number::write_hexadecimal, of a size below sixteen.
Hex(size) == CHOOSE d \in DOMAIN HexDigits : HexDigits[d] = size
Chunk(data) == << Hex(Len(data)) >> \o CRLF \o data \o CRLF

\* Chunk::size, where -1 is a size that is malformed or too large to address.
SizeOf(digits) ==
    FoldLeft(LAMBDA size, d :
                IF size = -1 \/ d \notin DOMAIN HexDigits THEN -1
                ELSE IF size * 16 + HexDigits[d] >= Word THEN -1 ELSE size * 16 + HexDigits[d],
             IF digits = <<>> THEN -1 ELSE 0, digits)

\* parse_size: the line, once it is there; an extension is read past.
SizeLine(data) ==
    LET end == At(data, LF)
        line == SubSeq(data, 1, end - 2)
        semicolon == At(line, ";")
        size == SizeOf(IF semicolon = 0 THEN line ELSE Before(line, semicolon))
    IN  IF end = 0 THEN [is |-> "incomplete"]
        ELSE IF end = 1 \/ data[end - 1] # CR \/ size = -1 THEN Malformed
        ELSE [is |-> "line", start |-> end, size |-> size]

-----------------------------------------------------------------------------
\* Reading a message.

\* A message is framed by its fields, which are not looked at here: `framing`
\* is what follows the head.
Reading(role, framing) ==
    [phase |-> "start", buffer |-> <<>>, searched |-> 0, role |-> role, framing |-> framing, blank |-> FALSE,
     start |-> Malformed, fields |-> <<>>, body |-> <<>>, trailers |-> <<>>]

Over(phase) == phase \in {"done", "refused", "limit"}
Fails(state, how) == [state EXCEPT !.phase = how, !.buffer = <<>>, !.searched = 0]
Consume(state, n) == [state EXCEPT !.buffer = After(@, n)]

\* Line::end, and what receive_message does with the line; a server reads past
\* one empty line.
ReadLine(state, end, line, start) ==
    LET read == Consume(state, end)
    IN  IF end = 0 THEN (IF Len(state.buffer) > MaxLine THEN Fails(state, "limit") ELSE state)
        ELSE IF end = 1 \/ state.buffer[end - 1] # CR THEN Fails(state, "refused")
        ELSE IF Len(line) > MaxLine THEN Fails(state, "limit")
        ELSE IF line = <<>> /\ state.role = "server" /\ ~state.blank THEN [read EXCEPT !.blank = TRUE]
        ELSE IF start.is = "refused"
             THEN [Fails(state, "refused") EXCEPT
                        !.start = [is |-> "refused", status |-> IF state.role = "server" THEN ErrorStatus(Parts(line)) ELSE 0]]
        ELSE [read EXCEPT !.phase = "fields", !.start = start]
ReadStart(state) ==
    LET end == At(state.buffer, LF)
        line == SubSeq(state.buffer, 1, end - 2)
    IN  ReadLine(state, end, line, StartOf(line))

\* read_header_block, of the fields or of the trailers.
ReadBlock(state, next, end) ==
    LET block == FieldsOf(SubSeq(state.buffer, 1, end.fields))
        read == [Consume(state, end.fields + 2) EXCEPT !.phase = next, !.searched = 0]
    IN  IF ~end.found /\ Len(state.buffer) > MaxSection THEN Fails(state, "limit")
        ELSE IF ~end.found THEN [state EXCEPT !.searched = end.searched]
        ELSE IF end.fields > MaxSection THEN Fails(state, "limit")
        ELSE IF block.is = "refused" THEN Fails(state, "refused")
        ELSE IF state.phase = "fields" THEN [read EXCEPT !.fields = block.fields]
        ELSE [read EXCEPT !.trailers = block.fields]
ReadSection(state, next) == ReadBlock(state, next, BlockEnd(state.buffer, state.searched))

\* One turn of read_body's loop over chunks; decode wants the whole chunk.
TakeChunk(state, size) ==
    LET last == size.start + size.size
        line == Len(state.buffer)
    IN  IF size.is = "refused" THEN Fails(state, "refused")
        ELSE IF size.is = "incomplete" THEN (IF line > MaxChunkLine THEN Fails(state, "limit") ELSE state)
        ELSE IF Len(state.body) + size.size > MaxBody THEN Fails(state, "limit")
        ELSE IF size.size = 0 THEN [Consume(state, size.start) EXCEPT !.phase = "trailers"]
        ELSE IF Len(state.buffer) < last + 2 THEN state
        ELSE IF SubSeq(state.buffer, last + 1, last + 2) # CRLF THEN Fails(state, "refused")
        ELSE [Consume(state, last + 2) EXCEPT !.body = @ \o SubSeq(state.buffer, size.start + 1, last)]

ReadChunk(state) == TakeChunk(state, SizeLine(state.buffer))

\* read_body of a length that is known.
ReadFixed(state) ==
    LET size == state.framing.size IN
    IF size > MaxBody THEN Fails(state, "limit")
    ELSE IF Len(state.buffer) < size THEN state
    ELSE [Consume(state, size) EXCEPT !.body = SubSeq(state.buffer, 1, size), !.phase = "done"]

Read(state) ==
    CASE state.phase = "start" -> ReadStart(state)
      [] state.phase = "fields" -> ReadSection(state, state.framing.is)
      [] state.phase = "chunks" -> ReadChunk(state)
      [] state.phase = "trailers" -> ReadSection(state, "done")
      [] state.phase = "sized" -> ReadFixed(state)
      [] OTHER -> state

\* As far as what has arrived goes.
RECURSIVE ReadOn(_, _)
ReadOn(state, next) == IF next = state THEN state ELSE ReadOn(next, Read(next))

\* A message as it is written.
Written(message) ==
    StartLine(message.start) \o CRLF \o Section(message.fields) \o CRLF
        \o (IF message.framing.is = "chunks"
            THEN FlattenSeq([i \in DOMAIN message.chunks |-> Chunk(message.chunks[i])])
                    \o << Hex(0) >> \o CRLF \o Section(message.trailers) \o CRLF
            ELSE FlattenSeq(message.chunks))
=============================================================================
