------------------------------ MODULE H2Frames ------------------------------
(***************************************************************************)
(* The HTTP/2 frame layer (src/protocol/h2/frames.rs).  The wire is a      *)
(* sequence of octets, each of which has Octet values rather than 256: a   *)
(* number of n octets is below Octet^n, and the reserved bit is the top    *)
(* bit of four.  Of the flags octet only the four bits that mean something *)
(* are kept.                                                               *)
(***************************************************************************)
EXTENDS Integers, Sequences, SequencesExt

CONSTANTS
    Octet,          \* how many values an octet has: a power of two, 16 at least
    DefaultFrame,   \* DEFAULT_MAX_FRAME_SIZE
    DefaultWindow   \* DEFAULT_INITIAL_WINDOW_SIZE

Octets(n, value) == [i \in 1 .. n |-> (value \div Octet^(n - i)) % Octet]
Number(octets) == FoldLeft(LAMBDA value, octet : value * Octet + octet, 0, octets)
Beyond(octets, n) == SubSeq(octets, n + 1, Len(octets))
Part(octets, first, last) == Number(SubSeq(octets, first, last))

MaximumFrame == Octet^3 - 1
MaximumWindow == Octet^4 \div 2 - 1
TopBit == MaximumWindow + 1
Masked(value) == value % TopBit

\* FrameType, in the order of its codes.
Kinds == << "DATA", "HEADERS", "PRIORITY", "RST_STREAM", "SETTINGS", "PUSH_PROMISE",
            "PING", "GOAWAY", "WINDOW_UPDATE", "CONTINUATION" >>
Code(kind) == (CHOOSE i \in 1 .. Len(Kinds) : Kinds[i] = kind) - 1
Known(code) == code < Len(Kinds)

OnConnection == {"SETTINGS", "PING", "GOAWAY"}
Misplaced(kind, stream) ==
    \/ kind \in OnConnection /\ stream # 0
    \/ kind \notin OnConnection \cup {"WINDOW_UPDATE"} /\ stream = 0

EndStream == 1
Ack == 1
EndHeaders == 2
Padded == 4
Priority == 8
Bit(flags, flag) == (flags \div flag) % 2 = 1
Flag(set, flag) == IF set THEN flag ELSE 0

HeaderSize == 9
HeaderOf(octets) ==
    [length |-> Part(octets, 1, 3), code |-> octets[4], flags |-> octets[5],
     stream |-> Masked(Part(octets, 6, 9))]

-----------------------------------------------------------------------------
\* Frames on the wire.

Flags(frame) ==
    CASE frame.kind = "DATA" -> Flag(frame.end, EndStream)
      [] frame.kind = "HEADERS" -> Flag(frame.end, EndStream) + Flag(frame.whole, EndHeaders)
      [] frame.kind \in {"SETTINGS", "PING"} -> Flag(frame.ack, Ack)
      [] frame.kind = "PUSH_PROMISE" -> EndHeaders
      [] frame.kind = "CONTINUATION" -> Flag(frame.whole, EndHeaders)
      [] OTHER -> 0

\* Faulty: the exclusive bit goes where the top of the dependency is.
PayloadUnmarked(frame) ==
    IF frame.kind = "PRIORITY" THEN Octets(4, frame.on) \o << frame.weight >>
    ELSE IF frame.kind \in {"DATA", "HEADERS", "CONTINUATION", "PING"} THEN frame.octets
    ELSE IF frame.kind = "RST_STREAM" THEN Octets(4, frame.error)
    ELSE IF frame.kind = "WINDOW_UPDATE" THEN Octets(4, frame.increment)
    ELSE IF frame.kind = "PUSH_PROMISE" THEN Octets(4, frame.promised) \o frame.octets
    ELSE IF frame.kind = "GOAWAY" THEN Octets(4, frame.last) \o Octets(4, frame.error) \o frame.octets
    ELSE FlattenSeq([i \in DOMAIN frame.params |-> Octets(2, frame.params[i][1]) \o Octets(4, frame.params[i][2])])

\* write_payload
Payload(frame) ==
    CASE frame.kind \in {"DATA", "HEADERS", "CONTINUATION", "PING"} -> frame.octets
      [] frame.kind = "PRIORITY" ->
            Octets(4, frame.on + Flag(frame.exclusive, TopBit)) \o << frame.weight >>
      [] frame.kind = "RST_STREAM" -> Octets(4, frame.error)
      [] frame.kind = "SETTINGS" ->
            FlattenSeq([i \in DOMAIN frame.params |->
                            Octets(2, frame.params[i][1]) \o Octets(4, frame.params[i][2])])
      [] frame.kind = "PUSH_PROMISE" -> Octets(4, frame.promised) \o frame.octets
      [] frame.kind = "GOAWAY" -> Octets(4, frame.last) \o Octets(4, frame.error) \o frame.octets
      [] frame.kind = "WINDOW_UPDATE" -> Octets(4, frame.increment)

\* encode
Encode(frame) ==
    Octets(3, Len(Payload(frame))) \o << Code(frame.kind), Flags(frame) >>
        \o Octets(4, Masked(frame.stream)) \o Payload(frame)

-----------------------------------------------------------------------------
\* Frames off the wire.

Refused == [is |-> "refused"]
Incomplete == [is |-> "incomplete"]
Decoded(frame) == [is |-> "frame", frame |-> frame]

\* What is left of a payload without its padding, and whether that is anything.
Unpads(header, payload) ==
    Bit(header.flags, Padded) /\ Kinds[header.code + 1] \in {"DATA", "HEADERS", "PUSH_PROMISE"}
WellPadded(header, payload) ==
    Unpads(header, payload) => payload # <<>> /\ payload[1] < Len(payload)
Unpadded(header, payload) ==
    IF Unpads(header, payload) THEN SubSeq(payload, 2, Len(payload) - payload[1]) ELSE payload

\* Whether a payload has a length its kind allows.
Sized(kind, header, payload) ==
    CASE kind = "HEADERS" -> Bit(header.flags, Priority) => Len(payload) >= 5
      [] kind = "PRIORITY" -> Len(payload) = 5
      [] kind \in {"RST_STREAM", "WINDOW_UPDATE"} -> Len(payload) = 4
      [] kind = "SETTINGS" -> IF Bit(header.flags, Ack) THEN payload = <<>> ELSE Len(payload) % 6 = 0
      [] kind = "PUSH_PROMISE" -> Len(payload) >= 4
      [] kind = "PING" -> Len(payload) = 8
      [] kind = "GOAWAY" -> Len(payload) >= 8
      [] OTHER -> TRUE

\* The frame a payload of that length is.
Content(kind, header, payload) ==
    LET flags == header.flags
        begun == [kind |-> kind, stream |-> header.stream]
        word == Part(payload, 1, 4)
        block == IF Bit(flags, Priority) THEN Beyond(payload, 5) ELSE payload
    IN  CASE kind = "DATA" -> begun @@ [end |-> Bit(flags, EndStream), octets |-> payload]
          [] kind = "HEADERS" ->
                begun @@ [end |-> Bit(flags, EndStream), whole |-> Bit(flags, EndHeaders), octets |-> block]
          [] kind = "PRIORITY" ->
                begun @@ [on |-> Masked(word), exclusive |-> word >= TopBit, weight |-> payload[5]]
          [] kind = "RST_STREAM" -> begun @@ [error |-> word]
          [] kind = "SETTINGS" ->
                begun @@ [ack |-> Bit(flags, Ack),
                          params |-> [i \in 1 .. Len(payload) \div 6 |->
                              << Part(payload, 6 * i - 5, 6 * i - 4), Part(payload, 6 * i - 3, 6 * i) >>]]
          [] kind = "PUSH_PROMISE" -> begun @@ [promised |-> Masked(word), octets |-> Beyond(payload, 4)]
          [] kind = "PING" -> begun @@ [ack |-> Bit(flags, Ack), octets |-> payload]
          [] kind = "GOAWAY" ->
                begun @@ [last |-> Masked(word), error |-> Part(payload, 5, 8), octets |-> Beyond(payload, 8)]
          [] kind = "WINDOW_UPDATE" -> begun @@ [increment |-> Masked(word)]
          [] kind = "CONTINUATION" -> begun @@ [whole |-> Bit(flags, EndHeaders), octets |-> payload]

\* assemble
Assemble(header, whole) ==
    LET kind == Kinds[header.code + 1]
        payload == Unpadded(header, whole)
    IN  IF /\ ~Misplaced(kind, header.stream)
           /\ WellPadded(header, whole)
           /\ Sized(kind, header, payload)
           /\ kind = "WINDOW_UPDATE" => Masked(Number(payload)) # 0
        THEN Decoded(Content(kind, header, payload))
        ELSE Refused

\* take: what the front of a buffer is, and how much of the buffer that was.
Take(buffer, maxFrame) ==
    LET header == HeaderOf(buffer)
        size == HeaderSize + header.length
        taken == SubSeq(buffer, HeaderSize + 1, size)
    IN  CASE Len(buffer) < HeaderSize -> Incomplete
          [] Len(buffer) >= HeaderSize /\ header.length > maxFrame -> Refused
          [] Len(buffer) >= HeaderSize /\ header.length <= maxFrame /\ Len(buffer) < size -> Incomplete
          [] OTHER ->
                (IF Known(header.code) THEN Assemble(header, taken) ELSE [is |-> "unknown", code |-> header.code])
                    @@ [size |-> size]

-----------------------------------------------------------------------------
\* Settings.  NoLimit is a parameter that is not set.

NoLimit == -1
Identifiers == [table |-> 1, push |-> 2, streams |-> 3, window |-> 4, frame |-> 5, list |-> 6, connect |-> 8]

\* Settings::peer and Settings::default
Peer == [table |-> DefaultFrame \div 4, push |-> 1, streams |-> NoLimit, window |-> DefaultWindow,
         frame |-> DefaultFrame, list |-> NoLimit, connect |-> 0]
Default == [Peer EXCEPT !.push = 0, !.connect = 1]

\* parameters
Parameters(settings) ==
    LET Sent(name) == << Identifiers[name], settings[name] >>
        Optional(name) == IF settings[name] = NoLimit THEN <<>> ELSE << Sent(name) >>
    IN  << Sent("table"), Sent("push"), Sent("window"), Sent("frame"), Sent("connect") >>
            \o Optional("streams") \o Optional("list")

\* Faulty: a frame size is only held below its maximum.
AllowedAnyFrame(name, value) ==
    CASE name \in {"push", "connect"} -> value <= 1
      [] name = "window" -> value <= MaximumWindow
      [] name = "frame" -> value <= MaximumFrame
      [] OTHER -> TRUE

Allowed(name, value) ==
    CASE name \in {"push", "connect"} -> value <= 1
      [] name = "window" -> value <= MaximumWindow
      [] name = "frame" -> value \in DefaultFrame .. MaximumFrame
      [] OTHER -> TRUE

\* apply
Apply(state, parameter) ==
    LET named == {name \in DOMAIN Identifiers : Identifiers[name] = parameter[1]}
        name == CHOOSE n \in named : TRUE
    IN  CASE state.is = "refused" \/ named = {} -> state
          [] state.is # "refused" /\ named # {} /\ ~Allowed(name, parameter[2]) -> [state EXCEPT !.is = "refused"]
          [] OTHER ->
                [state EXCEPT !.settings[name] = parameter[2],
                              !.moved = IF name = "window" THEN @ + parameter[2] - state.settings.window ELSE @]

Announced(params, settings) ==
    FoldLeft(Apply, [is |-> "applied", settings |-> settings, moved |-> 0], params)
=============================================================================
