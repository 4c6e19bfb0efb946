---------------------------- MODULE H2Connection ----------------------------
(***************************************************************************)
(* One end of an HTTP/2 connection (src/protocol/h2.rs), for each member   *)
(* of Endpoints.  H2Peer puts one end against an arbitrary peer, H2Pair    *)
(* puts two against each other.                                            *)
(*                                                                         *)
(* An end is driven by one task at a time (every operation takes           *)
(* `&mut self`): it is idle, in receive_message, or in send_message with   *)
(* body octets left to write.  Each action runs the task from one point    *)
(* where it can wait for the peer to the next: a frame is handled whole,   *)
(* as it is taken off the transport, by `handle`.                          *)
(*                                                                         *)
(* Field sections are abstracted to the kind of message they decode to,    *)
(* bodies to their size.  Frames queued in the output buffer are taken to  *)
(* be on their way to the peer: buffering only delays them, and the order  *)
(* is the same.                                                            *)
(***************************************************************************)
EXTENDS Integers, FiniteSets, FiniteSetsExt, Functions, Sequences, SequencesExt

CONSTANTS
    Endpoints,          \* the ends modelled
    IsClient,           \* role: for each end, whether it opened the connection
    MaxConcurrent,      \* max_concurrent_streams, of each end
    MaxBody,            \* max_message_body_size
    MaxMessage,         \* max_message_size; a field section block counts 1
    MaxBuffered,        \* max_connection_buffer_size
    MaxPrematureResets, \* max_premature_resets
    MaxIdleFrames,      \* max_idle_frames
    MaxHeaderCount,     \* max_header_count, as it bounds CONTINUATION frames
    InitialWindow,      \* Settings::DEFAULT_INITIAL_WINDOW_SIZE
    MaximumWindow,      \* Settings::MAXIMUM_WINDOW_SIZE
    MaxFrame            \* the peer's max_frame_size

ASSUME H2Assumption ==
    /\ IsClient \in [Endpoints -> BOOLEAN]
    /\ MaxConcurrent \in [Endpoints -> Nat]
    /\ {MaxBody, MaxMessage, MaxBuffered, MaxPrematureResets, MaxIdleFrames} \subseteq Nat
    /\ {MaxHeaderCount, InitialWindow, MaximumWindow, MaxFrame} \subseteq Nat \ {0}

VARIABLES
    conn,   \* the state of each end
    out     \* the frames each end queued in the last step

None == [id |-> 0, kind |-> "none"]

-----------------------------------------------------------------------------
(* Stream states.                                                          *)

States == {"Idle", "Open", "HalfClosedLocal", "HalfClosedRemote", "Closed"}
Receivable(s) == s.state \in {"Idle", "Open", "HalfClosedLocal"}
Sendable(s) == s.state \in {"Idle", "Open", "HalfClosedRemote"}
CloseLocal(state) == IF state \in {"Open", "Idle"} THEN "HalfClosedLocal" ELSE "Closed"
CloseRemote(state) == IF state \in {"Open", "Idle"} THEN "HalfClosedRemote" ELSE "Closed"

\* The kinds of message a field section can decode to; "bad" is one that does
\* not decode, "trailers" one without pseudo-header fields.
Requests == {"get", "connect"}
Kinds == Requests \cup {"interim", "ok", "refusal", "trailers", "bad"}

NewStream(recv, send) ==
    [state |-> "Idle", recv |-> recv, send |-> send, head |-> 0, body |-> 0,
     headers |-> "none", trailers |-> FALSE, method |-> "none",
     abandoned |-> FALSE]

With(streams, id, s) ==
    [i \in DOMAIN streams \cup {id} |-> IF i = id THEN s ELSE streams[i]]
Without(streams, id) == [i \in DOMAIN streams \ {id} |-> streams[i]]

\* Puts a stream back, or drops it if it has finished (`retire`).
Retired(streams, id, s) ==
    IF s.state = "Closed" THEN Without(streams, id) ELSE With(streams, id, s)

Count(streams) == Cardinality(DOMAIN streams)

\* The octets of bodies that are held, each as its stream and its place there.
HeldOctets(streams) == UNION {{id} \X (1 .. streams[id].body) : id \in DOMAIN streams}
Buffered(streams) == Cardinality(HeldOctets(streams))

-----------------------------------------------------------------------------
(* One end.                                                                *)

NewConnection(e) ==
    [streams |-> <<>>,
     recvWindow |-> InitialWindow, sendWindow |-> InitialWindow,
     peerWindow |-> InitialWindow,      \* settings_remote.initial_window_size
     ceiling |-> MaxConcurrent[e],      \* what local_stream_ceiling answers
     nextId |-> IF IsClient[e] THEN 1 ELSE 2,
     highest |-> 0,                     \* highest_peer_stream_id
     started |-> FALSE,
     goaway |-> FALSE,
     ready |-> <<>>,                    \* messages completed during a send
     bound |-> 0,                       \* buffered_bound
     premature |-> 0, idle |-> 0,
     gathering |-> None,                \* the field block being continued
     task |-> "idle",
     sending |-> None,                  \* the message whose body is being sent
     rest |-> 0,                        \* the octets of it left to write
     returned |-> None,                 \* what the last receive returned
     error |-> "none",                  \* how the last operation failed
     open |-> TRUE]                     \* neither closed nor dropped

H2Init ==
    /\ conn = [e \in Endpoints |-> NewConnection(e)]
    /\ out = [e \in Endpoints |-> <<>>]

\* The step in which `e` becomes `c` and queues `frames`.
Step(e, c, frames) ==
    /\ conn' = [conn EXCEPT ![e] = c]
    /\ out' = [x \in Endpoints |-> IF x = e THEN frames ELSE <<>>]

\* errors.rs: a stream error leaves the connection running; the other errors
\* of an operation under way end it.  A refusal to open a stream changes
\* nothing, and the connection can be used on.
Failed(e) == conn[e].error \in {"protocol", "limit", "closed", "timeout"}

Fail(e, error, frames) == Step(e, [conn[e] EXCEPT !.task = "idle", !.error = error], frames)

\* Between operations, the connection free for the next.
Free(e) == conn[e].open /\ conn[e].task = "idle" /\ ~Failed(e)

Rst(id) == [type |-> "RST", id |-> id]
GoAway(last) == [type |-> "GOAWAY", last |-> last]
Credit(id, size) == [type |-> "WINDOW", id |-> id, size |-> size]
Settings(window, streams) == [type |-> "SETTINGS", window |-> window, streams |-> streams]
Plain(type) == [type |-> type]

\* A field section, in one HEADERS frame or continued in a second frame.
Block(id, kind, end, more) ==
    IF more
    THEN << [type |-> "HEADERS", id |-> id, kind |-> kind, end |-> end, more |-> TRUE],
            [type |-> "CONTINUATION", id |-> id, more |-> FALSE] >>
    ELSE << [type |-> "HEADERS", id |-> id, kind |-> kind, end |-> end, more |-> FALSE] >>

\* What a frame and a message may be; an id is a number.
AnyFrame ==
    [type : {"HEADERS"}, id : Nat, kind : Kinds, end : BOOLEAN, more : BOOLEAN]
        \cup [type : {"CONTINUATION"}, id : Nat, more : BOOLEAN]
        \cup [type : {"DATA"}, id : Nat, size : Nat, end : BOOLEAN]
        \cup [type : {"WINDOW"}, id : Nat, size : Nat]
        \cup [type : {"SETTINGS"}, window : Nat, streams : Nat]
        \cup [type : {"RST"}, id : Nat]
        \cup [type : {"GOAWAY"}, last : Nat]
        \cup [type : {"PREFACE", "EOF", "PING", "PONG", "ACK", "PRIORITY", "PUSH_PROMISE", "UNPARSED"}]

AnyMessage == [id : Nat, kind : Kinds, body : Nat, trailers : BOOLEAN]

-----------------------------------------------------------------------------
(* start                                                                   *)

\* A client opens with the preface and its SETTINGS.
StartClient(e) ==
    /\ Free(e) /\ ~conn[e].started
    /\ IsClient[e]
    /\ Step(e, [conn[e] EXCEPT !.started = TRUE],
            << Plain("PREFACE"), Settings(InitialWindow, MaxConcurrent[e]) >>)

\* A server waits for the preface first.
StartServer(e, f) ==
    /\ Free(e) /\ ~conn[e].started
    /\ ~IsClient[e]
    /\ IF f.type = "PREFACE"
       THEN Step(e, [conn[e] EXCEPT !.started = TRUE],
                 << Settings(InitialWindow, MaxConcurrent[e]) >>)
       ELSE Fail(e, IF f.type = "EOF" THEN "closed" ELSE "protocol", <<>>)

-----------------------------------------------------------------------------
(* Streams abandoned by Stream::reset are forgotten, and the peer told, the *)
(* next time the connection is driven (flush_resets).                       *)

Abandoned(c) == {id \in DOMAIN c.streams : c.streams[id].abandoned}

\* Faulty: the peer is told, and the stream kept.
FlushedKeeping(c) ==
    [c EXCEPT !.streams = [id \in DOMAIN @ |-> [@[id] EXCEPT !.abandoned = FALSE]]]

Flushed(c) ==
    [c EXCEPT !.streams = [id \in DOMAIN c.streams \ Abandoned(c) |-> c.streams[id]]]

FlushedFrames(c) ==
    LET ids == SetToSeq(Abandoned(c)) IN [i \in DOMAIN ids |-> Rst(ids[i])]

\* The whole of receive_message's first turn that needs nothing of the peer.
BeginReceive(e) ==
    /\ Free(e) /\ conn[e].started
    /\ IF conn[e].ready # <<>>
       THEN Step(e, [conn[e] EXCEPT !.returned = Head(conn[e].ready),
                                     !.ready = Tail(@), !.error = "none"], <<>>)
       ELSE Step(e, [Flushed(conn[e]) EXCEPT !.task = "receive", !.returned = None,
                                             !.error = "none"], FlushedFrames(conn[e]))

-----------------------------------------------------------------------------
(* send_message                                                            *)

Tunnels(kind, method) == kind = "connect" \/ (kind = "ok" /\ method = "connect")

\* Whether more is to follow on the stream after the message `m`.
LeavesOpen(m, method) == Tunnels(m.kind, method) \/ m.kind = "interim"

\* Faulty: a stream closed on both sides is kept.
ConcludedKeeping(c, m) ==
    LET s == c.streams[m.id]
        t == [s EXCEPT !.state = IF LeavesOpen(m, s.method) THEN @ ELSE CloseLocal(@)]
    IN  [c EXCEPT !.streams[m.id] = t, !.task = "idle", !.sending = None, !.rest = 0]

\* The end of send_message: the stream is closed on this side, and dropped if
\* it is closed on both.
Concluded(c, m) ==
    LET s == c.streams[m.id]
        t == [s EXCEPT !.state = IF LeavesOpen(m, s.method) THEN @ ELSE CloseLocal(@),
                       !.method = IF m.kind \in Requests THEN m.kind ELSE @]
    IN  [c EXCEPT !.streams = Retired(@, m.id, t), !.task = "idle",
                  !.sending = None, !.rest = 0]

Trailers(m) == IF m.trailers THEN Block(m.id, "trailers", TRUE, FALSE) ELSE <<>>

\* A message [id, kind, body, trailers]: one whose id is 0 opens a stream.
CanSend(e) == Free(e) /\ conn[e].started

SendOnGoneStream(e, m) ==
    /\ CanSend(e)
    /\ m.id # 0 /\ m.id \notin DOMAIN Flushed(conn[e]).streams
    /\ Step(e, [Flushed(conn[e]) EXCEPT !.error = "stream", !.returned = None],
            FlushedFrames(conn[e]))

\* Faulty: the ceiling is one too high.
RoomForOneMore(c) == Count(c.streams) <= c.ceiling

\* Whether one more stream may be opened.
HasRoom(c) == Count(c.streams) < c.ceiling

SendPastCeiling(e, m) ==
    /\ CanSend(e)
    /\ m.id = 0 /\ ~HasRoom(Flushed(conn[e]))
    /\ Step(e, [Flushed(conn[e]) EXCEPT !.error = "refused", !.returned = None],
            FlushedFrames(conn[e]))

\* The field section is written, and the body begun if there is one.
SendHead(e, msg, more) ==
    LET c == Flushed(conn[e])
        m == [msg EXCEPT !.id = IF @ = 0 THEN c.nextId ELSE @]
        opened == IF msg.id = 0
                  THEN [c EXCEPT !.streams = With(@, m.id, NewStream(InitialWindow, c.peerWindow)),
                                 !.nextId = @ + 2]
                  ELSE c
        d == [opened EXCEPT !.error = "none", !.returned = None]
        open == LeavesOpen(m, d.streams[m.id].method)
        end == ~open /\ m.body = 0 /\ ~m.trailers
        head == FlushedFrames(conn[e]) \o Block(m.id, m.kind, end, more)
    IN  /\ CanSend(e)
        /\ IF msg.id = 0 THEN HasRoom(c) ELSE msg.id \in DOMAIN c.streams
        /\ IF m.body = 0
           THEN Step(e, Concluded(d, m), head \o Trailers(m))
           ELSE Step(e, [d EXCEPT !.task = "send", !.sending = m, !.rest = m.body], head)

Writing(e) == conn[e].open /\ conn[e].task = "send"

\* The credit there is for the stream being written to.
Window(c) ==
    LET send == c.streams[c.sending.id].send
    IN  IF send < c.sendWindow THEN send ELSE c.sendWindow

Blocked(e) ==
    /\ Writing(e)
    /\ conn[e].sending.id \in DOMAIN conn[e].streams
    /\ Window(conn[e]) <= 0

\* Faulty: every frame of a body ends the stream.
SendDataEnding(e) ==
    LET c == conn[e]
        m == c.sending
        size == Min({c.rest, Window(c), MaxFrame})
        last == size = c.rest
        spent == [c EXCEPT !.sendWindow = @ - size, !.streams[m.id].send = @ - size,
                           !.rest = @ - size]
        data == << [type |-> "DATA", id |-> m.id, size |-> size, end |-> ~m.trailers] >>
    IN  /\ Writing(e)
        /\ m.id \in DOMAIN c.streams
        /\ Window(c) > 0
        /\ IF last THEN Step(e, Concluded(spent, m), data \o Trailers(m))
                   ELSE Step(e, spent, data)

\* One turn of write_data; after the last octet the trailers follow.
SendData(e) ==
    LET c == conn[e]
        m == c.sending
        size == Min({c.rest, Window(c), MaxFrame})
        last == size = c.rest
        spent == [c EXCEPT !.sendWindow = @ - size, !.streams[m.id].send = @ - size,
                           !.rest = @ - size]
        data == << [type |-> "DATA", id |-> m.id, size |-> size,
                    end |-> last /\ ~m.trailers] >>
    IN  /\ Writing(e)
        /\ m.id \in DOMAIN c.streams
        /\ Window(c) > 0
        /\ IF last THEN Step(e, Concluded(spent, m), data \o Trailers(m))
                   ELSE Step(e, spent, data)

\* The peer reset the stream while its body waited for credit.
SendInterrupted(e) ==
    /\ Writing(e)
    /\ conn[e].sending.id \notin DOMAIN conn[e].streams
    /\ Step(e, [conn[e] EXCEPT !.task = "idle", !.sending = None, !.rest = 0,
                               !.error = "stream"], <<>>)

-----------------------------------------------------------------------------
(* handle: one frame `f`, taken while the task waits for the peer.         *)

Listening(e) ==
    /\ conn[e].open /\ conn[e].started
    /\ conn[e].task = "receive" \/ Blocked(e)

\* Faulty: a message completed while a body is being written is dropped.
CompletedDropping(c, m) ==
    IF c.task = "receive" THEN [c EXCEPT !.task = "idle", !.returned = m] ELSE c

\* What the task does with a message a frame completed: receive_message
\* returns it, write_data keeps it for a later receive_message.
Completed(c, m) ==
    IF c.task = "receive" THEN [c EXCEPT !.task = "idle", !.returned = m]
                          ELSE [c EXCEPT !.ready = Append(@, m)]

\* And when it completed none: receive_message ends with Closed after a
\* GOAWAY once no stream is left, and otherwise waits on.
Continued(c) ==
    IF c.task = "receive" /\ c.goaway /\ DOMAIN c.streams = {}
    THEN [c EXCEPT !.task = "idle", !.error = "closed"]
    ELSE c

Handled(e, c, m, frames) ==
    Step(e, IF m = None THEN Continued(c) ELSE Completed(c, m), frames)

\* A frame between those of a field block is fatal, whatever it is.
Uninterrupted(e) == conn[e].gathering = None

Exhausted(e) == conn[e].idle >= MaxIdleFrames

\* Frames that `idle` counts before anything else is done with them.
IdleTypes == {"SETTINGS", "ACK", "PING", "PONG", "GOAWAY", "RST", "PRIORITY"}

\* idle past the limit: GOAWAY, and the connection is over (`overloaded`).
Overload(e, c, frames) ==
    Step(e, [c EXCEPT !.idle = @ + 1, !.task = "idle", !.error = "limit"],
         frames \o << GoAway(c.highest) >>)

HandleWhenExhausted(e, f) ==
    /\ Listening(e) /\ Uninterrupted(e)
    /\ f.type \in IdleTypes
    /\ Exhausted(e)
    /\ Overload(e, conn[e], <<>>)

Idled(e) == [conn[e] EXCEPT !.idle = @ + 1]

Idling(e, f, type) ==
    Listening(e) /\ Uninterrupted(e) /\ f.type = type /\ ~Exhausted(e)

\* A new initial window changes the credit of every stream, and may leave it
\* negative.  Never is the ceiling on streams taken to be zero.
HandleSettings(e, f) ==
    /\ Idling(e, f, "SETTINGS")
    /\ LET change == f.window - conn[e].peerWindow
           streams == conn[e].streams
       IN  Handled(e, [Idled(e) EXCEPT
                !.peerWindow = f.window,
                !.ceiling = IF f.streams = 0 THEN 1 ELSE f.streams,
                !.streams = [id \in DOMAIN streams |-> [streams[id] EXCEPT !.send = @ + change]]],
              None, << Plain("ACK") >>)

HandlePing(e, f) ==
    /\ Idling(e, f, "PING")
    /\ Handled(e, Idled(e), None, << Plain("PONG") >>)

HandleIgnored(e, f) ==
    /\ \E type \in {"ACK", "PONG", "PRIORITY"} : Idling(e, f, type)
    /\ Handled(e, Idled(e), None, <<>>)

HandleGoAway(e, f) ==
    /\ Idling(e, f, "GOAWAY")
    /\ Handled(e, [Idled(e) EXCEPT !.goaway = TRUE], None, <<>>)

\* A stream reset before it was answered counts against the peer.
HandleRstStream(e, f) ==
    /\ Idling(e, f, "RST")
    /\ LET c == Idled(e)
           premature == f.id \in DOMAIN c.streams /\ Sendable(c.streams[f.id])
           d == [c EXCEPT !.streams = Without(@, f.id),
                          !.premature = IF premature THEN @ + 1 ELSE @]
       IN  IF d.premature > MaxPrematureResets /\ premature
           THEN Step(e, [d EXCEPT !.task = "idle", !.error = "limit"], << GoAway(d.highest) >>)
           ELSE Handled(e, d, None, <<>>)

\* Frames no state of the connection allows: PUSH_PROMISE, a CONTINUATION
\* that begins a block, and whatever does not parse.
HandleRefused(e, f) ==
    /\ Listening(e) /\ Uninterrupted(e)
    /\ f.type \in {"PUSH_PROMISE", "CONTINUATION", "UNPARSED", "PREFACE"}
    /\ Fail(e, "protocol", <<>>)

HandleEof(e, f) ==
    /\ Listening(e)
    /\ f.type = "EOF"
    /\ Fail(e, "closed", <<>>)

HandleInterruption(e, f) ==
    /\ Listening(e) /\ ~Uninterrupted(e)
    /\ f.type # "EOF"
    /\ ~(f.type = "CONTINUATION" /\ f.id = conn[e].gathering.id)
    /\ Fail(e, "protocol", <<>>)

-----------------------------------------------------------------------------
(* WINDOW_UPDATE                                                           *)

\* Credit that unblocks a stalled window is progress; any other is counted.
Granted(e, c, unblocked) ==
    IF unblocked THEN Handled(e, [c EXCEPT !.idle = 0], None, <<>>)
    ELSE IF Exhausted(e) THEN Overload(e, c, <<>>)
    ELSE Handled(e, [c EXCEPT !.idle = @ + 1], None, <<>>)

Unblocks(before, size) == before <= 0 /\ before + size > 0

HandleConnectionCredit(e, f) ==
    /\ Listening(e) /\ Uninterrupted(e)
    /\ f.type = "WINDOW" /\ f.id = 0
    /\ LET c == [conn[e] EXCEPT !.sendWindow = @ + f.size]
       IN  IF c.sendWindow > MaximumWindow THEN Fail(e, "protocol", <<>>)
           ELSE Granted(e, c, Unblocks(conn[e].sendWindow, f.size))

\* Overflowing the window of one stream costs that stream, not the connection.
HandleStreamCredit(e, f) ==
    /\ Listening(e) /\ Uninterrupted(e)
    /\ f.type = "WINDOW" /\ f.id # 0
    /\ LET c == conn[e]
           before == c.streams[f.id].send
       IN  IF f.id \notin DOMAIN c.streams THEN Granted(e, c, FALSE)
           ELSE IF before + f.size > MaximumWindow
           THEN Handled(e, [c EXCEPT !.streams = Without(@, f.id)], None, << Rst(f.id) >>)
           ELSE Granted(e, [c EXCEPT !.streams[f.id].send = @ + f.size],
                        Unblocks(before, f.size))

-----------------------------------------------------------------------------
(* Field sections.                                                         *)

PeerOpens(e, id) == (id % 2 = 1) = ~IsClient[e]

\* Faulty: an id may be used again.
MayBeginAgain(e, id) ==
    \/ id \in DOMAIN conn[e].streams
    \/ PeerOpens(e, id) /\ id > 0 /\ Count(conn[e].streams) < MaxConcurrent[e]

\* begin_stream: the stream is there already, or the peer may open it.
MayBegin(e, id) ==
    \/ id \in DOMAIN conn[e].streams
    \/ /\ PeerOpens(e, id)
       /\ id > conn[e].highest
       /\ Count(conn[e].streams) < MaxConcurrent[e]

Begun(e, id) ==
    IF id \in DOMAIN conn[e].streams THEN conn[e]
    ELSE [conn[e] EXCEPT !.highest = id,
                         !.streams = With(@, id, NewStream(InitialWindow, conn[e].peerWindow))]

\* complete: the message on the stream, if there is one, is taken off it, and
\* the stream dropped if it is finished.  With no message waiting it returns
\* before it would be.
Taken(e, c, id, end, frames) ==
    LET s == c.streams[id]
        t == [s EXCEPT !.state = IF end THEN CloseRemote(@) ELSE @]
        rest == [t EXCEPT !.headers = "none", !.trailers = FALSE, !.body = 0]
    IN  IF t.headers = "none"
        THEN Handled(e, [c EXCEPT !.streams[id] = t], None, frames)
        ELSE Handled(e, [c EXCEPT !.streams = Retired(@, id, rest)],
                     [id |-> id, kind |-> t.headers, body |-> t.body, trailers |-> t.trailers],
                     frames)

\* finish_headers: the field section `x` is whole.  The first on a stream is
\* its message, a second its trailers.
FinishHeaders(e, begun, x) ==
    LET s == [begun.streams[x.id] EXCEPT !.head = @ + 1]
        c == [begun EXCEPT !.idle = 0, !.gathering = None, !.streams[x.id] = s]
        trailing == s.headers # "none"
        opened == [s EXCEPT !.state = IF @ = "Idle" THEN "Open" ELSE @]
        t == IF trailing THEN [opened EXCEPT !.trailers = TRUE]
             ELSE [opened EXCEPT !.headers = x.kind,
                                 !.method = IF x.kind \in Requests THEN x.kind ELSE @]
        d == [c EXCEPT !.streams[x.id] = t]
        malformed == x.kind = "bad" \/ trailing # (x.kind = "trailers")
    IN  IF s.head + s.body > MaxMessage THEN Fail(e, "limit", <<>>)
        ELSE IF malformed THEN Fail(e, "protocol", <<>>)
        ELSE IF x.kind = "interim"
        THEN Handled(e, [c EXCEPT !.streams[x.id] = opened],
                     [id |-> x.id, kind |-> "interim", body |-> 0, trailers |-> FALSE], <<>>)
        ELSE IF x.end \/ Tunnels(t.headers, t.method)
        THEN Taken(e, d, x.id, x.end, <<>>)
        ELSE Handled(e, d, None, <<>>)

HandleStrayHeaders(e, f) ==
    /\ Listening(e) /\ Uninterrupted(e)
    /\ f.type = "HEADERS"
    /\ ~MayBegin(e, f.id)
    /\ Fail(e, "protocol", <<>>)

HandleHeaders(e, f) ==
    /\ Listening(e) /\ Uninterrupted(e)
    /\ f.type = "HEADERS"
    /\ MayBegin(e, f.id)
    /\ LET x == [id |-> f.id, kind |-> f.kind, end |-> f.end, frames |-> 1]
       IN  IF f.more THEN Step(e, [Begun(e, f.id) EXCEPT !.gathering = x], <<>>)
                     ELSE FinishHeaders(e, Begun(e, f.id), x)

\* continue_headers: the block goes on for so many frames and no more.
HandleContinuation(e, f) ==
    /\ Listening(e) /\ ~Uninterrupted(e)
    /\ f.type = "CONTINUATION" /\ f.id = conn[e].gathering.id
    /\ LET x == [conn[e].gathering EXCEPT !.frames = @ + 1]
       IN  IF ~f.more THEN FinishHeaders(e, conn[e], x)
           ELSE IF x.frames > MaxHeaderCount THEN Fail(e, "limit", <<>>)
           ELSE Step(e, [conn[e] EXCEPT !.gathering = x], <<>>)

-----------------------------------------------------------------------------
(* DATA                                                                    *)

\* overbuffered: the bound is corrected only once it reads past the limit.
Rebound(c) == IF c.bound <= MaxBuffered THEN c ELSE [c EXCEPT !.bound = Buffered(c.streams)]

HandleStrayData(e, f) ==
    /\ Listening(e) /\ Uninterrupted(e)
    /\ f.type = "DATA"
    /\ f.id \in DOMAIN conn[e].streams => ~Receivable(conn[e].streams[f.id])
    /\ Fail(e, "protocol", <<>>)

Returned(id, size) == IF size = 0 THEN <<>> ELSE << Credit(id, size) >>

\* Faulty: the last frame of a body gives nothing back.
GivenBackUntilLast(f) == IF f.end THEN <<>> ELSE Returned(0, f.size)

\* The credit of the connection is given back for every frame, before what
\* becomes of its stream is known.
GivenBack(f) == Returned(0, f.size)

\* So the window of the connection is what it was; that of the stream is
\* given back for a frame the stream keeps.
HandleData(e, f) ==
    /\ Listening(e) /\ Uninterrupted(e)
    /\ f.type = "DATA"
    /\ f.id \in DOMAIN conn[e].streams
    /\ LET s == conn[e].streams[f.id]
           empty == f.size = 0 /\ ~f.end
           c == [conn[e] EXCEPT !.idle = IF empty THEN @ + 1 ELSE 0]
           body == s.body + f.size
           d == Rebound([c EXCEPT !.streams[f.id].body = body, !.bound = @ + f.size])
           credits == GivenBack(f) \o Returned(f.id, f.size)
       IN  /\ Receivable(s)
           /\ IF empty /\ Exhausted(e) THEN Overload(e, conn[e], <<>>)
              ELSE IF f.size > c.recvWindow THEN Fail(e, "protocol", <<>>)
              ELSE IF f.size > s.recv
              THEN Handled(e, [c EXCEPT !.streams = Without(@, f.id)], None,
                           GivenBack(f) \o << Rst(f.id) >>)
              ELSE IF body > MaxBody \/ s.head + body > MaxMessage \/ d.bound > MaxBuffered
              THEN Fail(e, "limit", GivenBack(f))
              ELSE IF f.end THEN Taken(e, d, f.id, TRUE, credits)
              ELSE Handled(e, d, None, credits)

Handle(e, f) ==
    \/ HandleWhenExhausted(e, f)
    \/ HandleSettings(e, f)
    \/ HandlePing(e, f)
    \/ HandleIgnored(e, f)
    \/ HandleGoAway(e, f)
    \/ HandleRstStream(e, f)
    \/ HandleRefused(e, f)
    \/ HandleEof(e, f)
    \/ HandleInterruption(e, f)
    \/ HandleConnectionCredit(e, f)
    \/ HandleStreamCredit(e, f)
    \/ HandleStrayHeaders(e, f)
    \/ HandleHeaders(e, f)
    \/ HandleContinuation(e, f)
    \/ HandleStrayData(e, f)
    \/ HandleData(e, f)

-----------------------------------------------------------------------------
(* What a caller does with a connection it is not waiting on.              *)

\* Stream::reset, through open_stream: noted, and sent with the next drive.
AbandonStream(e, id) ==
    /\ Free(e)
    /\ id \in DOMAIN conn[e].streams /\ ~conn[e].streams[id].abandoned
    /\ Step(e, [conn[e] EXCEPT !.streams[id].state = "Closed",
                               !.streams[id].abandoned = TRUE], <<>>)

\* H2Connection::reset: sent at once, and the stream forgotten.
ResetStream(e, id) ==
    /\ Free(e) /\ conn[e].started
    /\ Step(e, [conn[e] EXCEPT !.streams = Without(@, id)], << Rst(id) >>)

\* The deadline of a receive or a send passes.
TimeOut(e) ==
    /\ conn[e].open /\ conn[e].task # "idle"
    /\ Fail(e, "timeout", <<>>)

\* close: GOAWAY, and the transport is shut down.
Close(e) ==
    /\ conn[e].open /\ conn[e].task = "idle"
    /\ Step(e, [conn[e] EXCEPT !.open = FALSE],
            << GoAway(Max({conn[e].nextId - 2, 0})), Plain("EOF") >>)
=============================================================================
