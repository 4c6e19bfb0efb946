-------------------------- MODULE WebSocketFrames --------------------------
(***************************************************************************)
(* WebSocket on the wire (src/websocket.rs): frames and their masks, close *)
(* codes, and the handshakes that open one over each version of HTTP.      *)
(*                                                                         *)
(* An octet has Octet values rather than 256, and the first octet of a     *)
(* frame is written as two, its fin and reserved bits and its opcode.      *)
(* Lengths up to Small fit the octet that has the mask bit.                *)
(***************************************************************************)
EXTENDS Integers, Sequences, SequencesExt, Bitwise

CONSTANT Octet      \* how many values an octet has: a power of two, 16 at least

Beyond(octets, n) == SubSeq(octets, n + 1, Len(octets))
Octets(n, value) == [i \in 1 .. n |-> (value \div Octet^(n - i)) % Octet]
Number(octets) == FoldLeft(LAMBDA value, octet : value * Octet + octet, 0, octets)

TopBit == Octet \div 2
Small == TopBit - 3         \* 125, and MAXIMUM_CONTROL_PAYLOAD
InTwo == TopBit - 2         \* 126: the length is in two octets
InEight == TopBit - 1       \* 127: it is in eight

Codes == [continuation |-> 0, text |-> 1, binary |-> 2, close |-> 8, ping |-> 9, pong |-> 10]
Of(code) == {op \in DOMAIN Codes : Codes[op] = code}
Control(op) == Codes[op] >= 8

-----------------------------------------------------------------------------
\* Masks: four octets, or none where there is no mask.

Word == 8

\* Faulty: the octets after the last word go on where the key was left in it.
ApplyMaskOn(mask, payload) ==
    LET words == (Len(payload) \div Word) * Word IN
    [i \in DOMAIN payload |->
        payload[i] ^^ mask[((IF i <= words THEN i - 1 ELSE i - words) % 4) + 1]]

\* apply_mask: a word at a time, which holds the key twice, and then the tail.
ApplyMask(mask, payload) ==
    LET words == (Len(payload) \div Word) * Word IN
    [i \in DOMAIN payload |->
        payload[i] ^^ (IF i <= words THEN (mask \o mask)[((i - 1) % Word) + 1]
                                     ELSE mask[((i - words - 1) % 4) + 1])]

Unmasked(mask, payload) == IF mask = <<>> THEN payload ELSE ApplyMask(mask, payload)

-----------------------------------------------------------------------------
\* Frames.

\* encode_into
Encode(frame) ==
    LET length == Len(frame.payload)
        masked == IF frame.mask = <<>> THEN 0 ELSE TopBit
    IN  << IF frame.fin THEN TopBit ELSE 0, Codes[frame.op] >>
            \o (IF length <= Small THEN << masked + length >>
                ELSE IF length < Octet^2 THEN << masked + InTwo >> \o Octets(2, length)
                ELSE << masked + InEight >> \o Octets(8, length))
            \o frame.mask \o Unmasked(frame.mask, frame.payload)

Refused == [is |-> "refused"]
Incomplete == [is |-> "incomplete"]

\* FrameHead::decode, with where the payload starts, and take, which unmasks it.
Take(buffer) ==
    LET op == CHOOSE o \in Of(buffer[2]) : TRUE
        fin == buffer[1] >= TopBit
        form == buffer[3] % TopBit
        extra == CASE form = InTwo -> 2 [] form = InEight -> 8 [] OTHER -> 0
        sized == Len(buffer) >= 3 + extra
        high == extra = 8 /\ buffer[4] >= TopBit
        length == IF extra = 0 THEN form ELSE Number(SubSeq(buffer, 4, 3 + extra))
        mask == IF buffer[3] < TopBit THEN 0 ELSE 4
        start == 3 + extra + mask
    IN  IF Len(buffer) < 3 THEN Incomplete
        ELSE IF buffer[1] % TopBit # 0 \/ Of(buffer[2]) = {} THEN Refused
        ELSE IF ~sized THEN Incomplete
        ELSE IF high \/ (Control(op) /\ (length > Small \/ ~fin)) THEN Refused
        ELSE IF Len(buffer) < start + length THEN Incomplete
        ELSE LET key == SubSeq(buffer, start - mask + 1, start) IN
             [is |-> "frame", size |-> start + length,
              frame |-> [fin |-> fin, op |-> op, mask |-> key,
                         payload |-> Unmasked(key, SubSeq(buffer, start + 1, start + length))]]

\* CloseCode::permitted, and verify_close of a payload whose code is a number.
Registered == {1000, 1001, 1002, 1003, 1007, 1008, 1009, 1010, 1011}
Permitted(code) == code \in Registered \cup 3000 .. 4999
VerifyClose(close) ==
    \/ close.size = 0
    \/ close.size >= 2 /\ Permitted(close.code) /\ close.reason = "text"

-----------------------------------------------------------------------------
\* Handshakes.  A message has what they look at of it; a field it does not have
\* is "none", and tokens of a list are a set.

NoFields == [upgrade |-> {}, connection |-> {}, offers |-> "none", key |-> "none",
             accept |-> "none", protocol |-> "none"]
Request(version, method, fields) == [version |-> version, method |-> method, status |-> 0] @@ fields
Response(version, status, fields) == [version |-> version, method |-> "none", status |-> status] @@ fields

Upgrading == [NoFields EXCEPT !.upgrade = {"websocket"}, !.connection = {"upgrade"}]

\* accept_key, of which only the nonce's owner can tell whether it is right.
AcceptKey(nonce) == << "accept", nonce >>

\* Upgrade::request and Connect::request, Upgrade::response and Connect::response.
Open(version, nonce) ==
    IF version \in {"2", "3"}
    THEN Request(version, "CONNECT", [NoFields EXCEPT !.protocol = "websocket", !.offers = "13"])
    ELSE Request(version, "GET", [Upgrading EXCEPT !.offers = "13", !.key = nonce])

Confirmation(request) ==
    IF request.version \in {"2", "3"} THEN Response(request.version, 200, NoFields)
    ELSE Response(request.version, 101, [Upgrading EXCEPT !.accept = AcceptKey(request.key)])

AsksUpgrade(message) == "websocket" \in message.upgrade /\ "upgrade" \in message.connection

\* Handshake::requested: a cheap test, for routing.
Requested(request) ==
    CASE request.version = "1.1" -> request.method = "GET" /\ AsksUpgrade(request)
      [] request.version \in {"2", "3"} -> request.method = "CONNECT" /\ request.protocol = "websocket"
      [] request.version = "1.0" -> FALSE

\* Faulty: a version of WebSocket other than 13 is taken for it.
VerifyAnyVersion(request, nonces) ==
    CASE request.version = "1.1" -> request.method = "GET" /\ AsksUpgrade(request) /\ request.key \in nonces
      [] OTHER -> Requested(request)

\* Handshake::verify; the nonces are the keys of sixteen octets.
Verify(request, nonces) ==
    CASE request.version = "1.1" ->
            /\ request.method = "GET" /\ AsksUpgrade(request)
            /\ request.offers = "13" /\ request.key \in nonces
      [] request.version \in {"2", "3"} -> request.method = "CONNECT" /\ request.protocol = "websocket"
      [] request.version = "1.0" -> FALSE

\* Upgrade::verify_response and Connect::verify_response.
Confirmed(request, response) ==
    IF request.version \in {"2", "3"} THEN response.status \in 200 .. 299
    ELSE /\ response.status = 101 /\ AsksUpgrade(response)
         /\ response.accept = AcceptKey(request.key)
=============================================================================
