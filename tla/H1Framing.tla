----------------------------- MODULE H1Framing -----------------------------
(***************************************************************************)
(* How HTTP/1 messages are framed (src/protocol/h1.rs): what follows a     *)
(* head, whether the connection persists, and what a message becomes on    *)
(* the wire.  Octets are items: a head, an octet of a body, a chunk with   *)
(* its size line, and the last chunk with its trailers.  Each remembers    *)
(* the message it is of, which the code cannot see.                        *)
(***************************************************************************)
EXTENDS Integers, Sequences, SequencesExt, FiniteSetsExt

CONSTANT MaxBody    \* max_message_body_size

ASSUME MaxBodyAssumption == MaxBody \in Nat

\* A message as Message holds it, as far as framing looks at it.
Blank == [id |-> 0, method |-> "none", status |-> 0, version |-> 11,
          connection |-> {}, expect |-> FALSE, te |-> <<>>, cl |-> <<>>, size |-> 0]

Request(i, method, size) == [Blank EXCEPT !.id = i, !.method = method, !.size = size]
Response(i, status, size) == [Blank EXCEPT !.id = i, !.status = status, !.size = size]
IsRequest(m) == m.method # "none"
Informational(m) == m.status \in 100 .. 199

\* Persistence::keep_alive: `close` wins, and 1.0 has to ask to be kept.
KeepAlive(m) ==
    /\ "close" \notin m.connection
    /\ m.version = 10 => "keep-alive" \in m.connection

Expects(m) == m.expect /\ m.version # 10

\* Whether the status alone rules a body out, and whether the method does too.
Empty(m) == Informational(m) \/ m.status \in {204, 304}
Bodyless(m, method) == ~IsRequest(m) /\ (Empty(m) \/ method = "HEAD")

Absent == [is |-> "none", size |-> 0]
Chunked == [is |-> "chunked", size |-> 0]
Fixed(n) == [is |-> "fixed", size |-> n]
UntilClose == [is |-> "close", size |-> 0]
Malformed == [is |-> "malformed", size |-> 0]

\* BodyLength::of for a coded message: chunked once, and last.
CodedLength(m) ==
    LET applied == {i \in DOMAIN m.te : m.te[i] = "chunked"}
    IN  CASE applied = {Len(m.te)} -> Chunked
          [] applied = {} /\ ~IsRequest(m) -> UntilClose
          [] OTHER -> Malformed

\* BodyLength::of; `method` is that of the request a response answers.
Length(m, method) ==
    LET tunnelled == method = "CONNECT" /\ m.status \in 200 .. 299
    IN  CASE ~IsRequest(m) /\ (Bodyless(m, method) \/ tunnelled) -> Absent
          [] OTHER ->
                CASE m.te # <<>> /\ m.cl # <<>> -> Malformed
                  [] m.te # <<>> /\ m.cl = <<>> -> CodedLength(m)
                  [] m.te = <<>> /\ m.cl # <<>> ->
                        IF Cardinality(Range(m.cl)) = 1 THEN Fixed(m.cl[1]) ELSE Malformed
                  [] OTHER -> IF IsRequest(m) THEN Absent ELSE UntilClose

-----------------------------------------------------------------------------
\* What send_message writes.

EndsChunked(m) == m.te # <<>> /\ Last(m.te) = "chunked"

\* Content-Length is added where the last coding is not chunked, one that is
\* neither chunked nor absent included.
Measured(m) ==
    IF ~EndsChunked(m) /\ m.cl = <<>> /\ ~Empty(m) /\ (m.size > 0 \/ ~IsRequest(m))
    THEN [m EXCEPT !.cl = <<m.size>>] ELSE m

Announced(m, closing) ==
    IF closing /\ m.connection = {} THEN [m EXCEPT !.connection = {"close"}] ELSE m

Item(is, m, size) == [is |-> is, of |-> m, size |-> size]
Octets(m) == [i \in 1 .. m.size |-> Item("octet", m, 1)]

\* Faulty: an empty chunked body is left without its last chunk.
WrittenOpen(m, method, closing) ==
    LET head == Announced(Measured(m), closing)
    IN  <<Item("head", head, 0)>>
            \o (IF EndsChunked(m) \/ Bodyless(m, method) THEN <<>> ELSE Octets(head))

\* The octets of a message whose answer, if it is one, goes to `method`.
Written(m, method, closing) ==
    LET head == Announced(Measured(m), closing)
        body == IF EndsChunked(m)
                THEN (IF m.size > 0 THEN <<Item("chunk", head, m.size)>> ELSE <<>>)
                        \o <<Item("end", head, 0)>>
                ELSE Octets(head)
    IN  <<Item("head", head, 0)>> \o (IF Bodyless(m, method) THEN <<>> ELSE body)

-----------------------------------------------------------------------------
\* What read_body takes off the front of the buffer.

Total(items) == FoldSeq(LAMBDA x, sum : x.size + sum, 0, items)

\* Whether `taken` is all of a body, or what comes next can be no more of it.
\* An octet where a size line should be, or a size line among counted octets,
\* is what desynchronised ends read.
Complete(length, taken, ended) ==
    CASE length.is = "none" -> TRUE
      [] length.is = "fixed" -> Len(taken) = length.size
      [] length.is = "chunked" -> taken # <<>> /\ Last(taken).is = "end"
      [] length.is = "close" -> ended

Acceptable(length, item, taken) ==
    /\ length.is = "chunked" => item.is \in {"chunk", "end"}
    /\ length.is \in {"chunked", "close"} => Total(taken) + item.size <= MaxBody

Oversized(length) == length.is = "fixed" /\ length.size > MaxBody

\* The body read is that of the message whose head was read, and all of it.
Whole(m, method, taken) ==
    /\ \A i \in DOMAIN taken : taken[i].of = m /\ taken[i].is # "head"
    /\ Total(taken) = IF Bodyless(m, method) THEN 0 ELSE m.size
=============================================================================
