------------------------------- MODULE QPACK -------------------------------
(***************************************************************************)
(* One direction of QPACK (src/helpers/qpack.rs): an encoder, the decoder  *)
(* at the other end, and the three kinds of stream between them, which     *)
(* QUIC delivers in order each and in any order to one another.            *)
(*                                                                         *)
(* The encoder is the code's (`peer` = FALSE) or that of any peer that     *)
(* keeps to RFC 9204, which may name entries before they are acknowledged, *)
(* duplicate them, and count from where a section began, so that entries   *)
(* inserted since are post-base (`peer` = TRUE); the decoder is the code's.*)
(* Octets are abstracted to instructions and representations, the insert   *)
(* count to what its encoding modulo the table's range leaves of it.       *)
(***************************************************************************)
EXTENDS FieldTable, FiniteSets

CONSTANTS
    Streams,        \* the request streams
    Lists,          \* the header lists an application may send
    PerStream,      \* sections to a stream: headers, trailers
    Capacity,       \* the decoder's advertised table capacity
    Limit,          \* the encoder's own limit on its table
    MaxOutstanding, \* max_outstanding_sections
    MaxBlocked,     \* max_blocked_streams
    MaxInserted,    \* bound on the insertions explored
    Retires         \* whether the writer forgets a stream once it has answered

ASSUME QPACKAssumption ==
    /\ {Capacity, Limit, MaxOutstanding, MaxBlocked, MaxInserted, PerStream} \subseteq Nat
    /\ Retires \in BOOLEAN
    /\ Lists \subseteq Seq(Fields)

VARIABLES
    peer,           \* whether the encoder is a peer's
    encoder,        \* its table, known_received_count and sections
    building,       \* the section encode_into is working on, or Idle
    decoder,        \* its table and the streams blocked on it
    instructions,   \* the encoder stream
    answers,        \* the decoder stream
    wire,           \* the sections on their way on each request stream
    sent,           \* the header lists each stream carries
    got,            \* those decoded from it
    gone,           \* the streams their reader gave up
    forgotten,      \* the streams their writer has forgotten
    error           \* what ended the connection, or None

vars == << peer, encoder, building, decoder, instructions, answers, wire, sent, got,
           gone, forgotten, error >>

None == "none"
NoField == [name |-> None, value |-> 0]
Nothing == 1000     \* u64::MAX, the floor of a section that names no entry
Idle == [stream |-> None, rest |-> <<>>, required |-> 0, floor |-> Nothing,
         tracked |-> FALSE, fields |-> <<>>, base |-> 0]

-----------------------------------------------------------------------------
\* How the required insert count goes on the wire, and back.

MaxEntries == Capacity
FullRange == 2 * MaxEntries

EncodedCount(required) ==
    IF required = 0 \/ FullRange = 0 THEN 0 ELSE (required % FullRange) + 1

\* The counts decode_insert_count can make of `encoded`; none is an error.
DecodedCounts(encoded, inserted) ==
    LET most == inserted + MaxEntries
        wrapped == (most \div FullRange) * FullRange + encoded - 1
        required == IF wrapped > most THEN wrapped - FullRange ELSE wrapped
    IN  IF encoded = 0 THEN {0}
        ELSE IF FullRange = 0 \/ encoded > FullRange THEN {}
        ELSE IF required = 0 \/ (wrapped > most /\ wrapped <= FullRange) THEN {}
        ELSE {required}

-----------------------------------------------------------------------------
\* The encoder.

\* Faulty: only finished sections keep their entries.
FinishedFloors == {s.floor : s \in Range(encoder.sections)} \cup {Nothing}

\* The lowest entries that the sections in flight, and the one being built, name.
Floors == {s.floor : s \in Range(encoder.sections)} \cup {building'.floor}

\* What may be evicted: nothing a section names and, by RFC 9204, nothing
\* unacknowledged, which a peer keeps to and the code does not look at.
Admits(t, f) ==
    LET oldest == t.oldest + Excess(t, SizeOf[f])
    IN  Fits(t, f) /\ oldest <= Min(Floors) /\ (peer => oldest <= encoder.known)

\* Faulty: what has been inserted may be named at once.
InsertedCount == Inserted(encoder.table)

\* The encoder names what its peer is known to have.  A peer's may name whatever
\* it has inserted, while no more streams can block than it was allowed.
AtRisk == {s.stream : s \in {x \in Range(encoder.sections) : x.required > encoder.known}}
Nameable ==
    IF peer /\ Cardinality(AtRisk \cup {building.stream}) <= MaxBlocked
    THEN Inserted(encoder.table) ELSE encoder.known

\* What a field is written as; of several entries the newest is named.
Reference(t, f) ==
    LET as(kind, index) == [kind |-> kind, index |-> index, post |-> FALSE, field |-> f]
        exact == Exact(t, f, Nameable)
        named == Named(t, f, Nameable)
    IN  CASE f \in Static -> as("static", 0)
          [] f \notin Static /\ ~building.tracked -> as("literal", 0)
          [] f \notin Static /\ building.tracked /\ exact # {} -> as("exact", Max(exact))
          [] f.name \notin StaticNames /\ building.tracked /\ exact = {} /\ named # {} ->
                as("named", Max(named))
          [] OTHER -> as("literal", 0)

Dynamic(r) == r.kind \in {"exact", "named"}

\* An entry is inserted under its name's index where the name was matched.
Insertion(t, r) ==
    IF r.kind = "named"
    THEN [op |-> "named", index |-> Inserted(t) - r.index - 1, field |-> r.field]
    ELSE [op |-> "literal", index |-> 0, field |-> r.field]

BeginSection(s, list) ==
    /\ error = None /\ building = Idle
    /\ s \notin forgotten /\ Len(sent[s]) < PerStream
    /\ sent' = [sent EXCEPT ![s] = Append(@, list)]
    /\ building' = [Idle EXCEPT !.stream = s, !.rest = list, !.base = Inserted(encoder.table),
                                !.tracked = Len(encoder.sections) < MaxOutstanding]
    /\ UNCHANGED << peer, encoder, decoder, instructions, answers, wire, got,
                    gone, forgotten, error >>

\* One turn of the loop of encode_into, which nothing interrupts: the field is matched, what it names is
\* noted, and only then is it inserted, unless it is there or may not be.
EncodeField ==
    /\ building.rest # <<>>
    /\ LET t == encoder.table
           f == Head(building.rest)
           r == Reference(t, f)
       IN  /\ building' = [building EXCEPT
                    !.rest = Tail(@),
                    !.fields = Append(@, r),
                    !.required = IF Dynamic(r) THEN Max({@, r.index + 1}) ELSE @,
                    !.floor = IF Dynamic(r) THEN Min({@, r.index}) ELSE @]
           /\ IF /\ building.tracked /\ f \notin Static /\ f.name \notin Sensitive
                 /\ Exact(t, f, Inserted(t)) = {}
                 /\ Admits(t, f) /\ Inserted(t) < MaxInserted
              THEN /\ encoder' = [encoder EXCEPT !.table = Push(t, f)]
                   /\ instructions' = Append(instructions, Insertion(t, r))
              ELSE UNCHANGED << encoder, instructions >>
    /\ UNCHANGED << peer, decoder, answers, wire, sent, got, gone, forgotten, error >>

\* What a section is relative to: its insert count, or how many entries a peer's
\* encoder had inserted when it began, which may be more or fewer.
Bases(required) == {required} \cup (IF peer /\ required > 0 THEN {building.base} ELSE {})

\* A base as the sign and the distance of it from the insert count.
Delta(required, base) ==
    IF base >= required THEN [negative |-> FALSE, delta |-> base - required]
    ELSE [negative |-> TRUE, delta |-> required - base - 1]

\* An index counts back from the base, or on from it.
Relative(r, base) ==
    CASE ~Dynamic(r) -> r
      [] Dynamic(r) /\ r.index < base -> [r EXCEPT !.index = base - @ - 1]
      [] Dynamic(r) /\ r.index >= base -> [r EXCEPT !.index = @ - base, !.post = TRUE]

\* The section goes out.
FinishSection ==
    /\ building # Idle /\ building.rest = <<>>
    /\ \E base \in Bases(building.required) :
       LET required == building.required
           section == [count |-> EncodedCount(required), base |-> Delta(required, base),
                       fields |-> [i \in DOMAIN building.fields |-> Relative(building.fields[i], base)]]
           s == building.stream
       IN  /\ wire' = IF s \in gone THEN wire ELSE [wire EXCEPT ![s] = Append(@, section)]
           /\ encoder' = IF required = 0 THEN encoder
                ELSE [encoder EXCEPT !.sections =
                        Append(@, [stream |-> s, required |-> required, floor |-> building.floor])]
    /\ building' = Idle
    /\ UNCHANGED << peer, decoder, instructions, answers, sent, got, gone, forgotten, error >>

\* A peer's encoder may insert an entry it has once more.
Duplicate(absolute) ==
    /\ error = None /\ peer /\ building = Idle
    /\ LET t == encoder.table IN
        /\ absolute \in Indices(t) /\ Inserted(t) < MaxInserted
        /\ building' = building /\ Admits(t, At(t, absolute))
        /\ encoder' = [encoder EXCEPT !.table = Push(t, At(t, absolute))]
        /\ instructions' = Append(instructions,
                [op |-> "duplicate", index |-> Inserted(t) - absolute - 1, field |-> At(t, absolute)])
    /\ UNCHANGED << peer, decoder, answers, wire, sent, got, gone, forgotten, error >>

\* The peer's SETTINGS allow a table, and the encoder takes what it may of it.
LearnCapacity ==
    /\ error = None /\ building = Idle
    /\ encoder.table.capacity = 0 /\ Min({Capacity, Limit}) > 0
    /\ encoder' = [encoder EXCEPT !.table = SetCapacity(@, Min({Capacity, Limit}))]
    /\ instructions' = Append(instructions, [op |-> "capacity", index |-> Min({Capacity, Limit})])
    /\ UNCHANGED << peer, building, decoder, answers, wire, sent, got, gone, forgotten, error >>

OtherThan(s, sections) == SelectSeq(sections, LAMBDA x : x.stream # s)

\* The sections left when the peer acknowledges one of a stream: its first.
Acknowledged(s, sections) ==
    LET mine == {i \in DOMAIN sections : sections[i].stream = s}
    IN  IF mine = {} THEN sections ELSE RemoveAt(sections, Min(mine))

\* What is known once the first section of a stream is acknowledged.
KnownBy(s) ==
    LET mine == {i \in DOMAIN encoder.sections : encoder.sections[i].stream = s}
    IN  IF mine = {} THEN encoder.known
        ELSE Max({encoder.known, encoder.sections[Min(mine)].required})

OnAnswer ==
    /\ error = None /\ building = Idle /\ answers # <<>>
    /\ LET a == Head(answers) IN
        encoder' =
            IF a.op = "increment" THEN [encoder EXCEPT !.known = @ + 1]
            ELSE [encoder EXCEPT !.sections = Acknowledged(a.stream, @), !.known = KnownBy(a.stream)]
    /\ answers' = Tail(answers)
    /\ UNCHANGED << peer, building, decoder, instructions, wire, sent, got, gone, forgotten, error >>

\* The writer forgets a stream: once it hears that the reader gave it up, or,
\* where it Retires, as soon as it has answered (H3Session::retire).
Forget(s) ==
    /\ error = None /\ building = Idle /\ s \notin forgotten
    /\ s \in gone \/ (Retires /\ ~peer /\ sent[s] # <<>>)
    /\ forgotten' = forgotten \cup {s}
    /\ encoder' = [encoder EXCEPT !.sections = OtherThan(s, @)]
    /\ UNCHANGED << peer, building, decoder, instructions, answers, wire, sent, got, gone, error >>

-----------------------------------------------------------------------------
\* The decoder.

Fail(reason) ==
    /\ error' = reason
    /\ UNCHANGED << decoder, answers, got, wire >>

OnInstruction ==
    /\ error = None /\ building = Idle /\ instructions # <<>>
    /\ LET i == Head(instructions)
           t == decoder.table
           absolute == Inserted(t) - i.index - 1
           named == [name |-> At(t, absolute).name, value |-> i.field.value]
           field == CASE i.op = "literal" -> i.field
                      [] i.op = "named" -> named
                      [] i.op = "duplicate" -> At(t, absolute)
       IN  IF i.op = "capacity"
           THEN IF i.index > Capacity THEN Fail("capacity")
                ELSE /\ decoder' = [decoder EXCEPT !.table = SetCapacity(@, i.index)]
                     /\ UNCHANGED << answers, got, wire, error >>
           ELSE IF i.op # "literal" /\ absolute \notin Indices(t) THEN Fail("index")
           ELSE IF ~Fits(t, field) THEN Fail("entry")
           ELSE /\ decoder' = [decoder EXCEPT !.table = Push(@, field)]
                /\ answers' = Append(answers, [op |-> "increment", stream |-> None])
                /\ UNCHANGED << got, wire, error >>
    /\ instructions' = Tail(instructions)
    /\ UNCHANGED << peer, encoder, building, sent, gone, forgotten >>

Unblocked(s) == [decoder EXCEPT !.blocked = Restrict(@, DOMAIN @ \ {s})]

\* The base a section says, given its insert count.
Base(section, required) ==
    IF section.base.negative THEN required - section.base.delta - 1 ELSE required + section.base.delta

\* The header list a section says; a field that names no entry is NoField.
Resolved(section, base) ==
    LET absolute(r) == IF r.post THEN base + r.index ELSE base - r.index - 1
        field(r) ==
            IF ~Dynamic(r) THEN r.field
            ELSE IF absolute(r) \notin Indices(decoder.table) THEN NoField
            ELSE IF r.kind = "exact" THEN At(decoder.table, absolute(r))
            ELSE [name |-> At(decoder.table, absolute(r)).name, value |-> r.field.value]
    IN  [i \in DOMAIN section.fields |-> field(section.fields[i])]

\* decode_into on the first section of a stream that is not yet decoded.
Decode(s) ==
    LET section == Head(wire[s])
        counts == DecodedCounts(section.count, Inserted(decoder.table))
        required == CHOOSE c \in counts : TRUE
        base == Base(section, required)
    IN  IF counts = {} THEN Fail("insert count")
        ELSE IF required > Inserted(decoder.table)
        THEN IF s \notin DOMAIN decoder.blocked /\ Cardinality(DOMAIN decoder.blocked) >= MaxBlocked
             THEN Fail("blocked streams")
             ELSE /\ decoder' = [decoder EXCEPT !.blocked =
                            [x \in DOMAIN @ \cup {s} |-> IF x = s THEN required ELSE @[x]]]
                  /\ UNCHANGED << answers, got, wire, error >>
        ELSE IF base < 0 THEN Fail("base")
        ELSE IF NoField \in Range(Resolved(section, base)) THEN Fail("index")
        ELSE /\ decoder' = Unblocked(s)
             /\ got' = [got EXCEPT ![s] = Append(@, Resolved(section, base))]
             /\ wire' = [wire EXCEPT ![s] = Tail(@)]
             /\ answers' = IF required = 0 THEN answers
                           ELSE Append(answers, [op |-> "acknowledge", stream |-> s])
             /\ UNCHANGED error

\* Faulty: a stream is let go one insertion late.
ReadyLate == {s \in DOMAIN decoder.blocked : decoder.blocked[s] < Inserted(decoder.table)}

\* The streams whose insert count has been reached.
Ready == {s \in DOMAIN decoder.blocked : decoder.blocked[s] <= Inserted(decoder.table)}

\* A section arrives, those whose count has come having been resumed; one that
\* is blocked keeps those behind it waiting.
OnSection(s) ==
    /\ error = None /\ building = Idle /\ Ready = {}
    /\ wire[s] # <<>> /\ s \notin DOMAIN decoder.blocked
    /\ Decode(s)
    /\ UNCHANGED << peer, encoder, building, instructions, sent, gone, forgotten >>

Resume(s) ==
    /\ error = None /\ building = Idle /\ s \in Ready
    /\ Decode(s)
    /\ UNCHANGED << peer, encoder, building, instructions, sent, gone, forgotten >>

\* The reader gives a stream up; what was on its way there is dropped.
GiveUp(s) ==
    /\ error = None /\ building = Idle /\ sent[s] # <<>> /\ s \notin gone
    /\ gone' = gone \cup {s}
    /\ decoder' = Unblocked(s)
    /\ wire' = [wire EXCEPT ![s] = <<>>]
    /\ UNCHANGED << peer, encoder, building, instructions, answers, sent, got, forgotten, error >>

-----------------------------------------------------------------------------
Init ==
    /\ peer \in BOOLEAN
    /\ encoder = [table |-> EmptyTable(0), known |-> 0, sections |-> <<>>]
    /\ building = Idle
    /\ decoder = [table |-> EmptyTable(Capacity), blocked |-> <<>>]
    /\ instructions = <<>> /\ answers = <<>>
    /\ wire = [s \in Streams |-> <<>>]
    /\ sent = [s \in Streams |-> <<>>]
    /\ got = [s \in Streams |-> <<>>]
    /\ gone = {} /\ forgotten = {}
    /\ error = None

Next ==
    \/ LearnCapacity \/ EncodeField \/ FinishSection \/ OnAnswer \/ OnInstruction
    \/ \E absolute \in 0 .. MaxInserted : Duplicate(absolute)
    \/ \E s \in Streams :
        \/ \E list \in Lists : BeginSection(s, list)
        \/ OnSection(s) \/ Resume(s) \/ GiveUp(s) \/ Forget(s)

Spec == Init /\ [][Next]_vars
-----------------------------------------------------------------------------
\* The types of everything above.
TypeOK ==
    /\ peer \in BOOLEAN
    /\ encoder.table \in Tables /\ encoder.known \in Nat
    /\ \A s \in Range(encoder.sections) :
            s.stream \in Streams /\ s.required \in Nat \ {0} /\ s.floor \in Nat
    /\ building = Idle \/ building.stream \in Streams
    /\ decoder.table \in Tables
    /\ DOMAIN decoder.blocked \subseteq Streams
    /\ \A s \in Streams : sent[s] \in Seq(Lists) /\ got[s] \in Seq(Seq(Fields))
    /\ gone \subseteq Streams /\ forgotten \subseteq Streams
    /\ Held(encoder.table.entries) <= encoder.table.capacity
    /\ Held(decoder.table.entries) <= decoder.table.capacity

\* Both ends read the same: whatever order instructions, sections and answers
\* arrive in, and whatever was evicted meanwhile, a section decodes to the list
\* that was sent, and no end accuses the other (DynamicTable::admits); neither
\* table is ever over its capacity.
Sound == TypeOK /\ error = None /\ \A s \in Streams : IsPrefix(got[s], sent[s])

\* The code's encoder never leaves its peer blocked, as Encoder documents, and
\* what it takes the peer to have the peer has.  A stream a peer's encoder leaves
\* blocked waits for an insertion that was made and is on its way, however its
\* insert count was wrapped: none waits for ever.
WaitsForSomething ==
    /\ ~peer => DOMAIN decoder.blocked = {} /\ encoder.known <= Inserted(decoder.table)
    /\ error = None =>
        \A s \in DOMAIN decoder.blocked :
            /\ s \notin gone
            /\ decoder.blocked[s] <= Inserted(encoder.table)
            /\ s \notin Ready => instructions # <<>>
=============================================================================
