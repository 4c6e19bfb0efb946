------------------------------- MODULE Codecs -------------------------------
(***************************************************************************)
(* What is put on the wire by one end and read off it by the other, octet  *)
(* by octet: the frame layers of HTTP/2, HTTP/3 and WebSocket, HTTP/1      *)
(* messages, Huffman text, base64, SHA-1's blocks, integers, strings,      *)
(* settings, handshakes, addresses, cookies and dates, which are in        *)
(* modules of their own.                                                   *)
(*                                                                         *)
(* A sample is a wire, or something that is written.  A wire is read as a  *)
(* connection reads it: some octets arrive, and whatever is whole is taken *)
(* off the front of what has arrived; where the cuts fall is the peer's    *)
(* and the network's to choose.                                            *)
(***************************************************************************)
EXTENDS Integers, Sequences, SequencesExt, FiniteSetsExt, Bitwise

CONSTANTS
    Samples,    \* sets of [codec, octets, means], where means holds what is meant, if known
    Octet,      \* how many values an octet has in frames
    MaxFrame    \* the largest frame this end takes

H1 == INSTANCE H1Grammar WITH MaxLine <- 8, MaxSection <- 12, MaxCount <- 2, MaxChunkLine <- 4, MaxBody <- 4, Word <- 256
H2 == INSTANCE H2Frames WITH DefaultFrame <- 16, DefaultWindow <- 100
H3 == INSTANCE H3Frames WITH OwnTable <- 9, OwnBlocked <- 2
WS == INSTANCE WebSocketFrames
Huff == INSTANCE Huffman
Net == INSTANCE Addresses
Small == INSTANCE Octets WITH Bits <- 4, Lanes <- 4, Block <- 8, Suffix <- 2, Inline <- 9

\* Words of 7 bits in groups of 3, whose last group has one bit to spare as that
\* of 64 bits in groups of 7 has.
Ints == INSTANCE WireInteger WITH Width <- 7, Group <- 3

VARIABLES
    sample,     \* what is read
    left,       \* the octets that have not arrived
    reader      \* what the reader has made of those that have

vars == << sample, left, reader >>

-----------------------------------------------------------------------------
Framed == {"h2", "h3", "ws"}

TakenOff(codec, buffer) ==
    CASE codec = "h2" -> H2!Take(buffer, MaxFrame)
      [] codec = "h3" -> H3!Take(buffer)
      [] codec = "ws" -> WS!Take(buffer)

\* Frames are taken off the front until one is not whole, or is refused.
Beyond(state, next) ==
    [state EXCEPT !.got = Append(@, next), !.buffer = SubSeq(@, next.size + 1, Len(@))]
RECURSIVE Frames(_, _, _)
Frames(codec, state, next) ==
    CASE state.over \/ next.is = "incomplete" -> state
      [] ~state.over /\ next.is = "refused" -> [state EXCEPT !.over = TRUE, !.buffer = <<>>]
      [] OTHER -> Frames(codec, Beyond(state, next), TakenOff(codec, Beyond(state, next).buffer))

\* A buffer is read into as far as it has room, and three octets are taken off it as
\* soon as they are there.
Piece == 3
Idle == 4
RECURSIVE Drained(_)
Drained(state) ==
    IF Len(state.buffer.data) < Piece THEN [state EXCEPT !.buffer = Small!Reclaimed(@, Idle)]
    ELSE Drained([got |-> Append(state.got, Small!TakenFrom(state.buffer, Piece)), buffer |-> Small!Consumed(state.buffer, Piece)])
RECURSIVE ReadIn(_, _)
ReadIn(state, octets) ==
    LET n == Min({Small!Room(state.buffer), Len(octets)}) IN
    IF octets = <<>> THEN state
    ELSE ReadIn(Drained([state EXCEPT !.buffer = Small!Filled(@, SubSeq(octets, 1, n))]), SubSeq(octets, n + 1, Len(octets)))

Begin(s) ==
    CASE s.codec \in Framed -> [buffer |-> <<>>, got |-> <<>>, over |-> FALSE]
      [] s.codec = "buffer" -> [buffer |-> Small!BufferOf(s.chunk), got |-> <<>>]
      [] s.codec = "h1" -> H1!Reading(s.role, s.framing)
      [] s.codec = "huffman" -> Huff!Start
      [] s.codec = "sha1" -> Small!Hash
      [] OTHER -> "none"

Feed(s, state, octets) ==
    CASE s.codec \in Framed ->
            LET arrived == [state EXCEPT !.buffer = @ \o octets] IN
            IF state.over THEN state ELSE Frames(s.codec, arrived, TakenOff(s.codec, arrived.buffer))
      [] s.codec = "h1" ->
            LET arrived == [state EXCEPT !.buffer = @ \o octets] IN
            IF H1!Over(state.phase) /\ state.phase # "done" THEN state ELSE H1!ReadOn(arrived, H1!Read(arrived))
      [] s.codec = "huffman" -> FoldLeft(LAMBDA r, octet : Huff!Transition(r, octet), state, octets)
      [] s.codec = "sha1" -> Small!Update(state, octets)
      [] s.codec = "buffer" -> ReadIn(state, octets)
      [] OTHER -> state

Init ==
    /\ \E i \in DOMAIN Samples : sample \in Samples[i]
    /\ left = sample.octets
    /\ reader = Begin(sample)

Arrive(n) ==
    /\ n \in 1 .. Len(left)
    /\ left' = SubSeq(left, n + 1, Len(left))
    /\ reader' = Feed(sample, reader, SubSeq(left, 1, n))
    /\ UNCHANGED sample

\* One octet, two, or all that are left.
Next == \E n \in {1, 2, Len(left)} : Arrive(n)

Spec == Init /\ [][Next]_vars
-----------------------------------------------------------------------------
\* What arrived, once nothing is left.
All == left = <<>>

(* Where the cuts fall makes no difference to what is read: frames, messages  *)
(* and the state left for what follows are those of the wire in one piece.    *)
(* Where HTTP/1 runs into the limits of a line it does make one (README,      *)
(* Findings), and those wires are left out.  take of each frame layer,        *)
(* receive_message of h1.rs, DecodeTable, Sha1::update, and what is taken     *)
(* from a Buffer, whose room for the next read the cuts do make a difference  *)
(* to, as they do to what is stale in the block that Sha1 holds.              *)
CutsDoNotMatter ==
    LET whole == Feed(sample, Begin(sample), sample.octets)
        Read(r) == CASE sample.codec = "buffer" -> << r.got, r.buffer.data >>
                     [] sample.codec = "sha1" -> [r EXCEPT !.block = SubSeq(@, 1, r.filled)]
                     [] OTHER -> r
    IN  All => Read(reader) = Read(whole) \/ (sample.codec = "h1" /\ "limit" \in {reader.phase, whole.phase})

\* What is meant, where it is known.
Meant == CHOOSE meant \in sample.means : TRUE

\* A frame, and what it is written as.
Encode(codec, frame) ==
    CASE codec = "h2" -> H2!Encode(frame) [] codec = "h3" -> H3!Encode(frame) [] codec = "ws" -> WS!Encode(frame)

\* The octets a frame in `got` was taken from, and whether writing what it says
\* gives a frame that says the same.
SaysTheSame(codec, taken) ==
    taken.is = "frame" => TakenOff(codec, Encode(codec, taken.frame)) =
                             [is |-> "frame", frame |-> taken.frame, size |-> Len(Encode(codec, taken.frame))]

FramesReturn ==
    /\ \A i \in DOMAIN reader.got : SaysTheSame(sample.codec, reader.got[i])
    /\ \A meant \in sample.means : All =>
            /\ ~reader.over /\ reader.buffer = <<>>
            /\ [i \in DOMAIN reader.got |-> reader.got[i].frame] = meant

\* A field as it is after its blanks were trimmed.
Kept(fields) == [i \in DOMAIN fields |-> [fields[i] EXCEPT !.value = H1!Trimmed(@)]]
MessageReturns ==
    \A meant \in sample.means : All =>
        /\ reader.phase = "done" /\ reader.buffer = <<>>
        /\ \A part \in DOMAIN reader.start : reader.start[part] = meant.start[part]
        /\ reader.fields = Kept(meant.fields)
        /\ reader.body = FlattenSeq(meant.chunks)
        /\ reader.trailers = Kept(meant.trailers)

\* What one end announces is what the other makes of it, unless it is out of the
\* range that parameter has: then it is refused.
SettingsReturn ==
    LET settings == Meant IN
    IF sample.codec = "h2 settings"
    THEN LET made == H2!Announced(H2!Parameters(settings), H2!Peer)
             legal == /\ settings.push \in 0 .. 1 /\ settings.connect \in 0 .. 1
                      /\ settings.window < H2!TopBit /\ settings.frame \in 16 .. Octet^3 - 1
         IN  IF legal THEN made = [is |-> "applied", settings |-> settings, moved |-> settings.window - 100]
             ELSE made.is = "refused"
    ELSE LET made == H3!Announced(H3!Parameters(settings), H3!Peer) IN
         IF settings.connect \in 0 .. 1 THEN made = [is |-> "applied", settings |-> settings]
         ELSE made.is = "refused"

\* Integers of each kind, and the numbers of streams, which the four kinds of
\* streams share out.
IntegersReturn ==
    LET n == Meant IN
    /\ \A bits \in {1, 2, 3} : n \in Ints!Words => Ints!Recovers(n, bits)
    /\ H3!Unvarint(H3!Varint(n) \o << 0 >>) = [size |-> H3!VarintSize(n), value |-> n]
    /\ \A k \in 0 .. Len(H3!Varint(n)) - 1 : H3!Unvarint(SubSeq(H3!Varint(n), 1, k)).size = 0
    /\ \A role \in {"client", "server"} :
        /\ H3!Bidirectional(n) /\ (H3!OpenedByClient(n) <=> role = "client")
                <=> n >= H3!FirstBidi(role) /\ (n - H3!FirstBidi(role)) % H3!Step = 0
        /\ ~H3!Bidirectional(n) /\ (H3!OpenedByClient(n) <=> role = "client")
                <=> n >= H3!FirstUni(role) /\ (n - H3!FirstUni(role)) % H3!Step = 0

\* A string is read as what it was written as, whichever way that is, whatever follows
\* it and not before it is whole; the shorter way is no longer than the other.
StringsReturn ==
    LET text == Meant
        Flags(prefix) == IF prefix < 7 THEN 2^(prefix + 1) ELSE 0
        whole == [is |-> "text", octets |-> text, ascii |-> \A i \in DOMAIN text : text[i] < 128]
    IN  \A prefix \in {3, 5, 7, 8} :
            LET wires == [huffman \in BOOLEAN |-> Huff!EncodeString(text, prefix, Flags(prefix), huffman)]
                shorter == Huff!EncodeShorter(text, prefix, Flags(prefix))
            IN  /\ \A huffman \in BOOLEAN :
                    /\ Huff!DecodeString(wires[huffman] \o << 255 >>, prefix) = whole @@ [size |-> Len(wires[huffman])]
                    /\ Len(shorter) <= Len(wires[huffman]) /\ \A i \in DOMAIN wires[huffman] : wires[huffman][i] < 256
                /\ \A n \in 0 .. Len(shorter) - 1 : Huff!DecodeString(SubSeq(shorter, 1, n), prefix).is = "incomplete"

\* A buffer holds what arrived and was not taken, in order, and the room that a read
\* is given stays between one octet and what was asked for.
BufferReturns ==
    /\ FlattenSeq(reader.got) \o reader.buffer.data = SubSeq(sample.octets, 1, Len(sample.octets) - Len(left))
    /\ reader.buffer.chunk \in 1 .. reader.buffer.chunk_size /\ reader.buffer.chunk_size <= Small!MaximumChunkSize
    /\ Small!Room(reader.buffer) >= reader.buffer.chunk
    /\ ~Small!Oversized(reader.buffer, Idle) \/ reader.got = <<>>

\* What opens a WebSocket is verified, and confirmed by its confirmation and by
\* no other's; what is verified was asked for.
HandshakeReturns ==
    LET request == Meant
        nonces == {"n1", "n2"}
    IN  /\ WS!Verify(request, nonces) =>
                /\ WS!Requested(request)
                /\ \A other \in {r \in {WS!Open(v, n) : v \in {"1.1", "2", "3"}, n \in nonces} : r.version = request.version} :
                    WS!Confirmed(request, WS!Confirmation(other)) <=> request.key = other.key \/ request.version # "1.1"
        /\ WS!Verify(request, nonces) <=>
                /\ request.version # "1.0"
                /\ \E opened \in {WS!Open(request.version, n) : n \in nonces} :
                    LET looked == IF request.version = "1.1" THEN {"method", "offers", "key"} ELSE {"method", "protocol"} IN
                    /\ \A part \in looked : request[part] = opened[part]
                    /\ opened.upgrade \subseteq request.upgrade /\ opened.connection \subseteq request.connection

\* A URL is what its parts say, and its authority names it again.
AddressReturns(url) ==
    /\ \A meant \in sample.means : url = meant
    /\ url.is = "url" =>
            /\ Net!IsAuthority(Net!Authority(url)) /\ Net!IsTarget(url.target)
            /\ Net!Parse(url.scheme, Net!Authority(url) \o url.target) = url

\* The two ends of a connection run the same version, one that both offer and the
\* first of those for the server, or one of HTTP/1 each where nothing was settled;
\* an end that cannot ask runs what the other takes, if it was not pinned to another.
Carrier(route) == IF route = "quic" THEN "quic" ELSE "stream"
VersionsAgree(ends, route, offered, asked) ==
    LET common == SelectSeq(offered, LAMBDA v : v \in ToSet(asked))
        Majors(versions) == {Net!Major(v) : v \in versions}
    IN  /\ ends.server \subseteq ToSet(offered) /\ ends.client \subseteq ToSet(asked)
        /\ common # <<>> /\ route # "plain" => ends.client = {Head(common)} /\ ends.server = {Head(common)}
        /\ ends.client # {} /\ ends.server # {} /\ sample.arrived = 4 =>
            \/ Majors(ends.client) = Majors(ends.server)
            \/ route = "plain" /\ Len(asked) = 1 /\ Majors(ends.client) \cap Majors(ToSet(offered)) = {}
        /\ Len(asked) > 1 /\ Net!Old(common) # <<>> => ends.client # {} /\ ends.server # {}
        /\ Len(asked) = 1 => ends.client \in {{}, ToSet(asked)}

\* A port that is opened can be reached, by a peer that prefers what it does, and one
\* that is refused could not be.
PortsStand(server) ==
    \A port \in {"uds", "tcp", "quic"}, identity \in BOOLEAN :
        LET listener == Net!Attach(port, identity, server) IN
        IF listener.is = "refused"
        THEN Net!Offers(IF port = "quic" THEN "quic" ELSE "stream", server) = <<>> \/ (port = "quic" /\ ~identity)
        ELSE LET ends == Net!Settled(Net!Route(port, listener), server, server, 4)
             IN  ends.server = ends.client /\ ends.server # {} /\ ends.server \subseteq ToSet(listener.versions)

\* The cookie a server sets is the one that a client keeps, and what the client then
\* sends back says the same, alongside another.
CookieReturns ==
    LET cookie == Meant
        built == Net!SetCookieBuild(cookie)
        other == [name |-> << "b", "b" >>, value |-> << "=" >>]
        pairs == << other, [name |-> cookie.name, value |-> cookie.value] >>
    IN  built.is = "field" =>
            /\ Net!SetCookieParse(built.text) =
                    [is |-> "cookie", cookie |-> [cookie EXCEPT !.max_age = {Max({n, -Net!Most}) : n \in @}]]
            /\ Net!CookieParse(Net!CookieBuild(pairs)) = pairs
            /\ Net!CookieParse(Net!CookieBuild(pairs \o pairs)) = pairs

\* What was read of a Cookie field has each name once, and reads the same again.
PairsReturn ==
    LET pairs == Net!CookieParse(Meant) IN
    /\ \A i, j \in DOMAIN pairs : pairs[i].name = pairs[j].name => i = j
    /\ Net!CookieParse(Net!CookieBuild(pairs)) = pairs

\* A policy is what its value says, and directives say it in any order.
PolicyReturns ==
    LET policies == Net!PolicyParse(Meant) IN
    /\ \A policy \in policies : Net!PolicyParse(Net!PolicyValue(policy)) = {policy}
    /\ Net!PolicyParse(Net!Join(Reverse(Net!Divided(Meant, ";")))) = policies

\* A day is the days of the years, of the months and of the month before it.
Leap(year) == year % 4 = 0 /\ (year % 100 # 0 \/ year % 400 = 0)
DaysIn(year, month) ==
    CASE month = 2 -> IF Leap(year) THEN 29 ELSE 28 [] month \in {4, 6, 9, 11} -> 30 [] OTHER -> 31
DateReturns(date, days, second) ==
    LET year == date.day[1]
        Days(n) == IF n = 0 THEN 0 ELSE 365 * n + ((n - 1) \div 4) - ((n - 1) \div 100) + ((n - 1) \div 400) + 1
        months == FoldLeft(LAMBDA sum, month : sum + DaysIn(year, month), 0, [m \in 1 .. date.day[2] - 1 |-> m])
    IN  /\ date.day[2] \in 1 .. 12 /\ date.day[3] \in 1 .. DaysIn(year, date.day[2])
        /\ Days(year) - Days(1970) + months + date.day[3] - 1 = days
        /\ second = (date.time[1] * 60 + date.time[2]) * 60 + date.time[3]

(* What one end writes the other reads: frames, messages, settings, integers,  *)
(* strings, handshakes, authorities, versions, cookies, policies and dates     *)
(* come back as what they were, whole and with nothing left over, and what was *)
(* read says the same when it is written again.                                *)
RoundTrip ==
    CASE sample.codec \in Framed -> FramesReturn
      [] sample.codec = "h1" -> MessageReturns
      [] sample.codec \in {"h2 settings", "h3 settings"} -> SettingsReturn
      [] sample.codec = "integer" -> IntegersReturn
      [] sample.codec = "handshake" -> HandshakeReturns
      [] sample.codec = "url" -> AddressReturns(Net!Parse(sample.scheme, sample.text))
      [] sample.codec = "alpn" ->
            /\ VersionsAgree(Net!Settled(sample.route, sample.client, sample.server, sample.arrived), sample.route,
                             Net!Offers(Carrier(sample.route), sample.server), Net!Offers(Carrier(sample.route), sample.client))
            /\ PortsStand(sample.server)
      [] sample.codec = "string" -> StringsReturn
      [] sample.codec = "buffer" -> BufferReturns
      [] sample.codec = "set-cookie" -> CookieReturns
      [] sample.codec = "cookie" -> PairsReturn
      [] sample.codec = "hsts" -> PolicyReturns
      [] sample.codec = "date" -> DateReturns(Net!Date(sample.day, sample.second), sample.day, sample.second)
      [] OTHER -> TRUE

(* A text has one spelling in Huffman code and one in base64: a wire that is  *)
(* decoded is what its text is encoded as, whichever of the two Huffman       *)
(* decoders reads it, and they agree on every wire ("accept exactly the same  *)
(* encodings", src/helpers/huffman.rs).                                       *)
OneSpelling ==
    CASE sample.codec = "huffman" ->
            All => /\ Huff!Decode(sample.octets) = Huff!Result(reader)
                   /\ Huff!Result(reader).is = "text" => Huff!Encode(Huff!Result(reader).octets) = sample.octets
                   /\ \A text \in sample.means :
                        /\ Huff!Result(reader) = [is |-> "text", octets |-> text]
                        /\ Huff!EncodedLength(text) = Len(sample.octets)
      [] sample.codec = "base64 text" ->
            LET decoded == Small!Decode64(Meant) IN
            decoded.is = "octets" => Small!Encode64(decoded.octets) = Meant
      [] sample.codec = "base64" -> Small!Decode64(Small!Encode64(Meant)) = [is |-> "octets", octets |-> Meant]
      [] OTHER -> TRUE

\* A table of two classes.
Table == [octet \in 0 .. 15 |-> (IF octet > 1 THEN 1 ELSE 0) + (IF octet % 2 = 1 THEN 2 ELSE 0)]
\* However a text is made, it is the same as one of its octets.
TextsAgree(text) ==
    /\ Small!AsBytes(Small!TextOf(text)) = text
    /\ Small!FromAscii(text) = Small!TextOf(Small!Lossy(text))
    /\ Small!FromAsciiLowercase(text) = Small!TextOf(Small!Lowered(Small!Lossy(text)))
    /\ Small!MakeAsciiLowercase(Small!TextOf(text)) = Small!TextOf(Small!Lowered(text))
    /\ Small!IsAscii(text) => /\ Small!FromVerifiedAscii(text) = Small!FromAscii(text)
                              /\ Small!FromVerifiedAsciiLowercase(text) = Small!FromAsciiLowercase(text)

\* Whether an entry of one name and value is found by another that is both.
Named(text, other) ==
    LET Field(octets) == [name |-> octets, value |-> octets]
        entry == Small!EntryOf(Field(text))
    IN  Small!Named(entry, Small!Mark(other), Field(other)) /\ Small!Valued(entry, Field(other))
(* Octets looked at a word at a time, or copied in two parts that overlap, are *)
(* what they are one at a time: find, classify_field_value and all_visible of  *)
(* src/helpers/scan.rs, Text however it is made, is_name and Mark of           *)
(* src/helpers/fields.rs, apply_mask, and the blocks and words of Sha1.        *)
WordsAsOctets ==
    LET text == Meant
        At(i) == text[i]
    IN  CASE sample.codec = "scan" ->
                /\ \A needle \in {0, 1, 2, 15} :
                    Small!Find(text, needle) = SelectInSeq(text, LAMBDA octet : octet = needle) - 1
                /\ Small!Classify(text) =
                        [control |-> \E i \in DOMAIN text : At(i) = Small!DEL \/ (At(i) < Small!Space /\ At(i) # Small!Tab),
                         obs |-> \E i \in DOMAIN text : At(i) >= 8]
                /\ Small!AllVisible(text) <=> \A i \in DOMAIN text : At(i) > Small!Space /\ At(i) # Small!DEL
                /\ \A mask \in {1, 2} : Small!AllInClass(text, Table, mask) <=> \A i \in DOMAIN text : Table[At(i)] & mask # 0
                /\ Small!IsLowercaseName(text) <=> Small!IsName(text) /\ Small!Lowered(text) = text
                /\ Small!IsName(text) => Small!IsLowercaseName(Small!Lowered(text)) /\ Small!IsValue(text)
          [] sample.codec = "schedule" ->
                LET Word(words, t) ==
                        Append(words, Small!RotatedLeft(((words[t - 3] ^^ words[t - 8]) ^^ words[t - 14]) ^^ words[t - 16], 1))
                    words == FoldLeft(Word, text, [i \in 1 .. 64 |-> i + 16])
                    Ring(state, t) ==
                        LET ring == Small!Extend(state.ring, t)
                        IN  [ring |-> ring, all |-> Append(state.all, ring[(t % 16) + 1])]
                IN  FoldLeft(Ring, [ring |-> text, all |-> <<>>], [i \in 1 .. 80 |-> i - 1]).all = words
          [] sample.codec = "text" ->
                /\ Small!Touched(Len(text)) = DOMAIN text
                /\ \A other \in sample.others :
                        /\ Small!SameText(Small!TextOf(text), Small!TextOf(other)) <=> text = other
                        /\ Small!Mark(text) = Small!Mark(other) <=> text = other
                        /\ Named(text, other) <=> text = other
                /\ TextsAgree(text)
          [] sample.codec = "mask" ->
                \A mask \in {<< 1, 2, 4, 8 >>, << 0, 15, 3, 5 >>} :
                    /\ \A i \in DOMAIN text : WS!ApplyMask(mask, text)[i] = At(i) ^^ mask[((i - 1) % 4) + 1]
                    /\ WS!ApplyMask(mask, WS!ApplyMask(mask, text)) = text
          [] sample.codec = "sha1" ->
                All => LET hash == Small!Finish(reader)
                           padded == FlattenSeq(hash.blocks)
                       IN  /\ hash.filled = 0 /\ Len(padded) < Len(sample.octets) + 1 + 2 + 8
                           /\ IsPrefix(Append(sample.octets, "mark"), padded)
                           /\ IsSuffix([i \in 1 .. 2 |-> << "length", 8 * Len(sample.octets), i >>], padded)
          [] OTHER -> TRUE
=============================================================================
