------------------------------ MODULE H3Frames ------------------------------
(***************************************************************************)
(* The HTTP/3 frame layer (src/protocol/h3/frames.rs) over the             *)
(* variable-length integers of QUIC (Varint, src/protocol/quic.rs), and    *)
(* what a stream is from its number and its first octets.  An octet has    *)
(* Octet values rather than 256; its two top bits say how long an integer  *)
(* is.                                                                     *)
(***************************************************************************)
EXTENDS Integers, Sequences, SequencesExt

CONSTANTS
    Octet,          \* how many values an octet has: a power of two, 16 at least
    OwnTable,       \* qpack::Decoder::DEFAULT_MAX_CAPACITY
    OwnBlocked      \* qpack::Decoder::DEFAULT_MAX_BLOCKED_STREAMS

Beyond(octets, n) == SubSeq(octets, n + 1, Len(octets))

-----------------------------------------------------------------------------
\* Varint.

Quarter == Octet \div 4
Sizes == << 1, 2, 4, 8 >>

\* The class of an integer is the least whose size holds it (len).
Holds(class) == Quarter * Octet^(Sizes[class] - 1)
Class(value) ==
    IF value < Holds(1) THEN 1 ELSE IF value < Holds(2) THEN 2 ELSE IF value < Holds(3) THEN 3 ELSE 4
VarintSize(value) == Sizes[Class(value)]

\* encode
Varint(value) ==
    LET size == VarintSize(value) IN
    [i \in 1 .. size |-> ((value \div Octet^(size - i)) % Octet)
                            + (IF i = 1 THEN Quarter * (Class(value) - 1) ELSE 0)]

\* Faulty: the top bits of a longer integer are part of its value.
UnvarintUnmarked(octets) ==
    LET size == IF octets = <<>> THEN 1 ELSE Sizes[octets[1] \div Quarter + 1]
    IN  IF Len(octets) < size THEN [size |-> 0, value |-> 0]
        ELSE [size |-> size, value |-> IF size = 2 THEN octets[1] * Octet + octets[2] ELSE octets[1] % Quarter]

\* decode: no size is an integer that has not arrived whole.
Unvarint(octets) ==
    LET size == IF octets = <<>> THEN 1 ELSE Sizes[octets[1] \div Quarter + 1]
    IN  IF Len(octets) < size THEN [size |-> 0, value |-> 0]
        ELSE [size |-> size,
              value |-> FoldLeft(LAMBDA value, octet : value * Octet + octet,
                                 octets[1] % Quarter, SubSeq(octets, 2, size))]

\* only
Only(payload) == Unvarint(payload).size # 0 /\ Unvarint(payload).size = Len(payload)

-----------------------------------------------------------------------------
\* Frames on the wire.

Kinds == {"DATA", "HEADERS", "CANCEL_PUSH", "SETTINGS", "PUSH_PROMISE", "GOAWAY", "MAX_PUSH_ID"}
Codes == [DATA |-> 0, HEADERS |-> 1, CANCEL_PUSH |-> 3, SETTINGS |-> 4, PUSH_PROMISE |-> 5,
          GOAWAY |-> 7, MAX_PUSH_ID |-> 13]
ReservedTypes == {2, 6, 8, 9}
Of(code) == {kind \in Kinds : Codes[kind] = code}

\* write_payload
Payload(frame) ==
    CASE frame.kind \in {"DATA", "HEADERS"} -> frame.octets
      [] frame.kind \in {"CANCEL_PUSH", "MAX_PUSH_ID", "GOAWAY"} -> Varint(frame.id)
      [] frame.kind = "SETTINGS" ->
            FlattenSeq([i \in DOMAIN frame.params |-> Varint(frame.params[i][1]) \o Varint(frame.params[i][2])])
      [] frame.kind = "PUSH_PROMISE" -> Varint(frame.id) \o frame.octets

\* Faulty: what a parameter takes is its value's part alone.
PayloadSizeShort(frame) ==
    IF frame.kind = "SETTINGS"
    THEN FoldLeft(LAMBDA size, param : size + 2 * VarintSize(param[2]), 0, frame.params)
    ELSE Len(Payload(frame))

\* payload_len: worked out before the payload is written.
PayloadSize(frame) ==
    CASE frame.kind \in {"DATA", "HEADERS"} -> Len(frame.octets)
      [] frame.kind \in {"CANCEL_PUSH", "MAX_PUSH_ID", "GOAWAY"} -> VarintSize(frame.id)
      [] frame.kind = "SETTINGS" ->
            FoldLeft(LAMBDA size, param : size + VarintSize(param[1]) + VarintSize(param[2]), 0, frame.params)
      [] frame.kind = "PUSH_PROMISE" -> VarintSize(frame.id) + Len(frame.octets)

\* encode_into
Encode(frame) == Varint(Codes[frame.kind]) \o Varint(PayloadSize(frame)) \o Payload(frame)

-----------------------------------------------------------------------------
\* Frames off the wire.

Refused == [is |-> "refused"]
Incomplete == [is |-> "incomplete"]
Decoded(frame) == [is |-> "frame", frame |-> frame]

\* The parameters of a SETTINGS payload, while each is whole and none repeats.
Parameter(state) ==
    LET id == Unvarint(state.rest)
        value == Unvarint(Beyond(state.rest, id.size))
    IN  IF id.size = 0 \/ value.size = 0 \/ \E i \in DOMAIN state.params : state.params[i][1] = id.value
        THEN [state EXCEPT !.is = "refused"]
        ELSE [state EXCEPT !.params = Append(@, << id.value, value.value >>),
                           !.rest = Beyond(@, id.size + value.size)]
ParametersOf(payload) ==
    FoldLeft(LAMBDA state, octet : IF state.is = "refused" \/ state.rest = <<>> THEN state ELSE Parameter(state),
             [is |-> "read", params |-> <<>>, rest |-> payload], payload)

\* assemble
Assemble(kind, payload) ==
    LET first == Unvarint(payload)
        settings == ParametersOf(payload)
    IN  CASE kind \in {"DATA", "HEADERS"} -> Decoded([kind |-> kind, octets |-> payload])
          [] kind \in {"CANCEL_PUSH", "MAX_PUSH_ID", "GOAWAY"} ->
                IF Only(payload) THEN Decoded([kind |-> kind, id |-> first.value]) ELSE Refused
          [] kind = "SETTINGS" ->
                IF settings.is = "read" THEN Decoded([kind |-> kind, params |-> settings.params]) ELSE Refused
          [] kind = "PUSH_PROMISE" ->
                IF first.size = 0 THEN Refused
                ELSE Decoded([kind |-> kind, id |-> first.value, octets |-> Beyond(payload, first.size)])

\* One turn of parse: what the front of a buffer is, and how much of it that was.
Take(buffer) ==
    LET code == Unvarint(buffer)
        length == Unvarint(Beyond(buffer, code.size))
        head == code.size + length.size
        payload == SubSeq(buffer, head + 1, head + length.value)
        arrived == code.size # 0 /\ length.size # 0 /\ Len(buffer) >= head + length.value
    IN  CASE ~arrived -> Incomplete
          [] arrived /\ code.value \in ReservedTypes -> Refused
          [] arrived /\ code.value \notin ReservedTypes /\ Of(code.value) = {} ->
                [is |-> "unknown", code |-> code.value, size |-> head + length.value]
          [] OTHER ->
                Assemble(CHOOSE kind \in Of(code.value) : TRUE, payload) @@ [size |-> head + length.value]

-----------------------------------------------------------------------------
\* Streams: QUICStreamID and StreamKind.

Bidirectional(id) == id % 4 \in {0, 1}
OpenedByClient(id) == id % 2 = 0
FirstBidi(role) == IF role = "client" THEN 0 ELSE 1
FirstUni(role) == IF role = "client" THEN 2 ELSE 3
Step == 4

UniKinds == << "control", "push", "encoder", "decoder" >>
KindOfStream(id, first) ==
    CASE Bidirectional(id) -> "request"
      [] ~Bidirectional(id) /\ first < Len(UniKinds) -> UniKinds[first + 1]
      [] OTHER -> "unknown"

-----------------------------------------------------------------------------
\* Settings.  NoLimit is a parameter that is not set.

NoLimit == -1
Identifiers == [table |-> 1, list |-> 6, blocked |-> 7, connect |-> 8]
ReservedIdentifiers == {0, 2, 3, 4, 5}

\* Settings::peer and Settings::default
Peer == [table |-> 0, blocked |-> 0, list |-> NoLimit, connect |-> 0]
Default == [table |-> OwnTable, blocked |-> OwnBlocked, list |-> NoLimit, connect |-> 1]

\* parameters
Parameters(settings) ==
    LET Sent(name) == << Identifiers[name], settings[name] >> IN
    << Sent("table"), Sent("blocked"), Sent("connect") >>
        \o IF settings.list = NoLimit THEN <<>> ELSE << Sent("list") >>

\* apply
Apply(state, parameter) ==
    LET named == {name \in DOMAIN Identifiers : Identifiers[name] = parameter[1]}
        name == CHOOSE n \in named : TRUE
        refused == \/ parameter[1] \in ReservedIdentifiers
                   \/ named = {"connect"} /\ parameter[2] > 1
    IN  CASE state.is = "refused" -> state
          [] state.is # "refused" /\ refused -> [state EXCEPT !.is = "refused"]
          [] state.is # "refused" /\ ~refused /\ named = {} -> state
          [] OTHER -> [state EXCEPT !.settings[name] = parameter[2]]

Announced(params, settings) == FoldLeft(Apply, [is |-> "applied", settings |-> settings], params)
=============================================================================
