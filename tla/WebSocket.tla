----------------------------- MODULE WebSocket -----------------------------
(***************************************************************************)
(* Two WebSocketConnections (src/websocket.rs) over one HTTP/1.1           *)
(* connection: the handshake, messages in fragments with control frames    *)
(* between them, and the closing handshake.                                *)
(*                                                                         *)
(* Each end is one task: what it calls, it awaits.  A write waits while    *)
(* the transport is full, and for that there is no deadline.  The          *)
(* application stops using a socket that failed or was closed, but for     *)
(* closing it.                                                             *)
(***************************************************************************)
EXTENDS Integers, Sequences, SequencesExt

CONSTANTS
    Plans,          \* what each end may send: a function from Ends to frames
    MaxMessage,     \* max_message_size
    MaxFragments,   \* ws_max_fragments
    Room            \* how many frames the transport holds each way

Ends == {"client", "server"}
Other(e) == IF e = "client" THEN "server" ELSE "client"

ASSUME WebSocketAssumption == {MaxMessage, MaxFragments, Room} \subseteq Nat \ {0}

VARIABLES
    plan,       \* the frames each end sends, and how many it has
    ends,       \* the WebSocketConnection of each end, and where its task is
    pipes,      \* what is on its way to each end
    written,    \* every frame an end wrote, in order
    taken       \* every message an end was handed

vars == << plan, ends, pipes, written, taken >>

\* A frame: `of` names the message it is of, and `valid` is whether the message
\* is text as it should be, or a close payload one that may be sent.
Frame(op, fin, of, size) == [op |-> op, fin |-> fin, of |-> of, size |-> size, valid |-> TRUE]
Handshake(kind) == Frame(kind, TRUE, 0, 0)
Close == Frame("close", TRUE, 0, 0)
Pong(ping) == [ping EXCEPT !.op = "pong"]
Data(frame) == frame.op \in {"text", "binary", "continuation"}

NoFragments == [op |-> "none", of |-> 0, size |-> 0, count |-> 0]

Begun(pc) == [pc |-> pc, buffer |-> <<>>, fragments |-> NoFragments, closing |-> FALSE,
              out |-> Close, next |-> "ready", told |-> "nothing"]

Set(e, end) == ends' = [ends EXCEPT ![e] = end]
At(e, pc) == ends[e].pc = pc

\* The end goes on to write a frame, and then to `next`.
Writes(end, frame, next) == [end EXCEPT !.pc = "writing", !.out = frame, !.next = next]

\* A call returns with an error, or with the Close that ends the exchange.
Told(end, what) == [end EXCEPT !.pc = "ready", !.told = what]

-----------------------------------------------------------------------------
\* The handshake: open_websocket and accept_websocket.

\* A request asks properly or not; Handshake::answer refuses one that does not.
Ask(kind) ==
    /\ At("client", "start")
    /\ Set("client", Writes(ends["client"], Handshake(kind), "confirming"))
    /\ UNCHANGED << plan, pipes, written, taken >>

Answer ==
    LET end == ends["server"] IN
    /\ At("server", "accepting") /\ end.buffer # <<>>
    /\ LET read == [end EXCEPT !.buffer = Tail(@)] IN
        Set("server", IF Head(end.buffer).op = "upgrade"
                      THEN Writes(read, Handshake("switching"), "ready")
                      ELSE Writes(read, Handshake("refusal"), "refused"))
    /\ UNCHANGED << plan, pipes, written, taken >>

\* Faulty: the socket begins with a buffer of its own.
ResumedEmpty(end) == [end EXCEPT !.buffer = <<>>]

\* into_transport and resume: what was read beyond the answer is the socket's.
Resumed(end) == [end EXCEPT !.buffer = Tail(@)]

Confirm ==
    LET end == ends["client"] IN
    /\ At("client", "confirming") /\ end.buffer # <<>>
    /\ Set("client", IF Head(end.buffer).op = "switching"
                     THEN [Resumed(end) EXCEPT !.pc = "ready"]
                     ELSE [end EXCEPT !.pc = "refused"])
    /\ UNCHANGED << plan, pipes, written, taken >>

-----------------------------------------------------------------------------
\* Sending.

\* send, of the next frame the application means to.
Send(e) ==
    LET end == ends[e] IN
    /\ At(e, "ready") /\ end.told = "nothing" /\ plan[e] # <<>>
    /\ Set(e, Writes(end, Head(plan[e]), "ready"))
    /\ plan' = [plan EXCEPT ![e] = Tail(@)]
    /\ UNCHANGED << pipes, written, taken >>

\* close: a close frame, unless one was sent, and then what ends it.
StartClose(e) ==
    LET end == ends[e] IN
    /\ At(e, "ready")
    /\ Set(e, IF end.closing THEN [end EXCEPT !.pc = "shut"]
              ELSE Writes([end EXCEPT !.closing = TRUE], Close, "lingering"))
    /\ UNCHANGED << plan, pipes, written, taken >>

\* The end has let go of the transport: open_websocket consumes the connection and
\* drops it when it fails.
Gone(e) == At(e, "shut") \/ (e = "client" /\ At(e, "refused"))

\* write_all, when the transport has room or the other end is gone, which may
\* fail; a close whose frame cannot be sent just shuts the transport.
Write(e) ==
    LET end == ends[e]
        done == [end EXCEPT !.pc = end.next]
    IN  /\ At(e, "writing")
        /\ \/ /\ ~Gone(Other(e)) /\ Len(pipes[Other(e)]) < Room
              /\ pipes' = [pipes EXCEPT ![Other(e)] = Append(@, end.out)]
              /\ written' = [written EXCEPT ![e] = Append(@, end.out)]
              /\ Set(e, done)
           \/ /\ Gone(Other(e))
              /\ Set(e, IF end.next = "lingering" THEN [end EXCEPT !.pc = "shut"] ELSE Told(end, "failure"))
              /\ UNCHANGED << pipes, written >>
        /\ UNCHANGED << plan, taken >>

-----------------------------------------------------------------------------
\* Receiving.

Reads(e) == ends[e].pc \in {"accepting", "confirming", "receiving", "lingering"}

\* fill: as much as has arrived.
Fill(e) ==
    /\ Reads(e) /\ ends[e].buffer = <<>> /\ pipes[e] # <<>>
    /\ \E n \in 1 .. Len(pipes[e]) :
        /\ Set(e, [ends[e] EXCEPT !.buffer = SubSeq(pipes[e], 1, n)])
        /\ pipes' = [pipes EXCEPT ![e] = SubSeq(@, n + 1, Len(@))]
    /\ UNCHANGED << plan, written, taken >>

\* receive_message begins; it may wait for the other end.
Receive(e) ==
    /\ At(e, "ready") /\ ends[e].told = "nothing"
    /\ Set(e, [ends[e] EXCEPT !.pc = "receiving"])
    /\ UNCHANGED << plan, pipes, written, taken >>

\* The fragments once a data frame joined them.
Joined(f, frame) ==
    IF frame.op = "continuation"
    THEN [f EXCEPT !.size = @ + frame.size, !.count = @ + 1]
    ELSE [op |-> frame.op, of |-> frame.of, size |-> frame.size, count |-> 1]

\* A frame that may not come now, or makes the message too large.
Misused(f, frame) ==
    \/ (f # NoFragments) # (frame.op = "continuation")
    \/ Joined(f, frame).size > MaxMessage
    \/ Joined(f, frame).count > MaxFragments /\ ~(frame.fin /\ f = NoFragments)

\* receive_message, of one data frame.
OnData(e, end, frame) ==
    LET f == Joined(end.fragments, frame)
        whole == [of |-> f.of, size |-> f.size]
    IN  CASE Misused(end.fragments, frame) ->
                \* what there is of it is never looked at again
                Set(e, Told(end, "failure")) /\ UNCHANGED taken
          [] ~Misused(end.fragments, frame) /\ ~frame.fin ->
                Set(e, [end EXCEPT !.fragments = f]) /\ UNCHANGED taken
          [] ~Misused(end.fragments, frame) /\ frame.fin /\ f.op = "text" /\ ~frame.valid ->
                \* close first, and then the error
                /\ Set(e, IF end.closing THEN [end EXCEPT !.pc = "shut"]
                          ELSE Writes([end EXCEPT !.closing = TRUE], Close, "lingering"))
                /\ UNCHANGED taken
          [] OTHER ->
                /\ Set(e, [end EXCEPT !.pc = "ready", !.fragments = NoFragments])
                /\ taken' = [taken EXCEPT ![e] = Append(@, whole)]

\* The answer to a close: its echo, unless a close was sent already.
Echoed(end, frame) ==
    IF end.closing THEN Told(end, "close")
    ELSE Writes([end EXCEPT !.closing = TRUE, !.told = "close"], frame, "ready")

\* receive_message, of one frame.
Take(e) ==
    LET frame == Head(ends[e].buffer)
        end == [ends[e] EXCEPT !.buffer = Tail(@)]
    IN  /\ At(e, "receiving") /\ ends[e].buffer # <<>>
        /\ IF Data(frame) THEN OnData(e, end, frame)
           ELSE /\ UNCHANGED taken
                /\ Set(e, CASE frame.op = "close" /\ frame.valid -> Echoed(end, frame)
                            [] frame.op = "close" /\ ~frame.valid -> Told(end, "failure")
                            [] frame.op = "ping" -> Writes(end, Pong(frame), "receiving")
                            [] OTHER -> end)
        /\ UNCHANGED << plan, pipes, written >>

\* close waits for the echo, and for nothing else.
Lingered(end, frame) == IF frame.op = "close" THEN [end EXCEPT !.pc = "shut"] ELSE end

Linger(e) ==
    /\ At(e, "lingering") /\ ends[e].buffer # <<>>
    /\ Set(e, Lingered([ends[e] EXCEPT !.buffer = Tail(@)], Head(ends[e].buffer)))
    /\ UNCHANGED << plan, pipes, written, taken >>

\* Faulty: linger is not bounded.
ExpiredUnlessLingering(end) ==
    CASE end.pc = "lingering" -> end
      [] end.pc = "receiving" -> Told(end, "failure")
      [] OTHER -> [end EXCEPT !.pc = "refused"]

Expired(end) ==
    CASE end.pc = "lingering" -> [end EXCEPT !.pc = "shut"]
      [] end.pc = "receiving" -> Told(end, "failure")
      [] OTHER -> [end EXCEPT !.pc = "refused"]

\* The other end is gone, or has not spoken for as long as it may not: a read
\* fails, and a close that waits is over.
Expire(e) ==
    /\ Reads(e) /\ ends[e].buffer = <<>> /\ pipes[e] = <<>>
    /\ Set(e, Expired(ends[e]))
    /\ UNCHANGED << plan, pipes, written, taken >>

-----------------------------------------------------------------------------
Init ==
    /\ plan \in Plans
    /\ ends = [e \in Ends |-> Begun(IF e = "client" THEN "start" ELSE "accepting")]
    /\ pipes = [e \in Ends |-> <<>>]
    /\ written = [e \in Ends |-> <<>>]
    /\ taken = [e \in Ends |-> <<>>]

Step(e) == Write(e) \/ Fill(e) \/ Take(e) \/ Linger(e) \/ Expire(e)

Next ==
    \/ \E kind \in {"upgrade", "malformed"} : Ask(kind)
    \/ Answer \/ Confirm
    \/ \E e \in Ends : Step(e) \/ Send(e) \/ Receive(e) \/ StartClose(e)

\* Each task goes on with what it awaits, and deadlines pass; an application
\* that was told to stop closes.  None need call anything else.
Fairness ==
    /\ WF_vars(Confirm)
    /\ \A e \in Ends :
        WF_vars(Step(e)) /\ WF_vars(ends[e].told # "nothing" /\ StartClose(e))

Spec == Init /\ [][Next]_vars /\ Fairness

-----------------------------------------------------------------------------
\* The types of the state, with the bounds on what is being reassembled.
TypeOK ==
    \A e \in Ends :
        /\ ends[e].pc \in {"start", "accepting", "confirming", "refused", "ready", "writing",
                           "receiving", "lingering", "shut"}
        /\ ends[e].told \in {"nothing", "close", "failure"} /\ ends[e].closing \in BOOLEAN
        /\ Len(pipes[e]) <= Room
        /\ ends[e].told = "nothing" =>
            ends[e].fragments.size <= MaxMessage /\ ends[e].fragments.count <= MaxFragments

\* The messages that are whole in a sequence of frames: where a data frame that
\* ends one began, and the size of all from there.
Messages(frames) ==
    LET data == SelectSeq(frames, Data)
        Begins(i) == data[i].op # "continuation"
        First(i) == CHOOSE f \in 1 .. i : Begins(f) /\ \A j \in f + 1 .. i : ~Begins(j)
        last == SelectSeq([i \in DOMAIN data |-> i], LAMBDA i : data[i].fin /\ \E f \in 1 .. i : Begins(f))
    IN  [k \in DOMAIN last |->
            [of |-> data[First(last[k])].of,
             size |-> FoldSeq(LAMBDA x, sum : x.size + sum, 0, SubSeq(data, First(last[k]), last[k]))]]

\* The closing handshake: an end sends one close, and nothing after it, even as
\* two closes cross.
CloseIsLast ==
    \A e \in Ends : \A i \in DOMAIN written[e] :
        written[e][i].op = "close" => i = Len(written[e])

\* receive_message hands over the messages that were sent, in order, each whole
\* and each once, whatever control frames came between their fragments and
\* however early they came; those before a close all come before it, and nothing
\* comes after.  What is being reassembled stays within its limits, though no
\* frame of it exceeds them.
Reassembled ==
    /\ TypeOK
    /\ CloseIsLast
    /\ \A e \in Ends :
        /\ IsPrefix(taken[e], Messages(written[Other(e)]))
        /\ ends[e].told = "close" => taken[e] = Messages(written[Other(e)])

\* A write that waits on a full transport, for an end that does not read: its
\* application calls nothing, or it waits to write itself.
Stalled(e) ==
    /\ At(e, "writing") /\ Len(pipes[Other(e)]) >= Room
    /\ At(Other(e), "ready") \/ At(Other(e), "writing")

\* A close ends with the transport shut down, whatever the other end does: what
\* `linger` waits for is bounded by its timeout.  What it writes is not, so that it
\* waits for good on an end that never reads again, and on no other.
CloseEnds ==
    \A e \in Ends : (ends[e].closing ~> At(e, "shut")) \/ <>[]Stalled(e)
=============================================================================
