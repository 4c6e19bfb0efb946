------------------------------- MODULE H2Peer -------------------------------
(***************************************************************************)
(* An HTTP/2 connection (src/protocol/h2.rs) against a peer that may send  *)
(* any frame at any time, under a caller that may do with it whatever its  *)
(* interface allows.                                                       *)
(***************************************************************************)
EXTENDS H2Connection

CONSTANTS
    Frames,     \* what the peer of each end may send
    Messages,   \* what the caller of each end may send
    MaxStreams  \* bound: the last stream this end opens

ASSUME PeerAssumption ==
    /\ MaxStreams \in Nat
    /\ \A e \in Endpoints : Frames[e] \subseteq AnyFrame /\ Messages[e] \subseteq AnyMessage

VARIABLES
    gone        \* history: the streams each end has forgotten, or has reset

vars == << conn, out, gone >>

Init == H2Init /\ gone = [e \in Endpoints |-> {}]

\* The streams left or reset by a step of `e`.
Dropped(e) ==
    (DOMAIN conn[e].streams \ DOMAIN conn'[e].streams)
        \cup {f.id : f \in {out'[e][i] : i \in {j \in DOMAIN out'[e] : out'[e][j].type = "RST"}}}

Remember == gone' = [e \in Endpoints |-> gone[e] \cup Dropped(e)]

\* The peer's turn: one frame, taken as soon as the connection waits for it.
PeerSends(e, f) ==
    /\ StartServer(e, f) \/ Handle(e, f)
    /\ Remember

\* The caller's turn.
CallerActs(e) ==
    /\ \/ StartClient(e)
       \/ BeginReceive(e)
       \/ \E m \in Messages[e] :
            \/ SendOnGoneStream(e, m)
            \/ SendPastCeiling(e, m)
            \/ /\ m.id = 0 => conn[e].nextId <= MaxStreams
               /\ \E more \in BOOLEAN : SendHead(e, m, more)
       \/ \E id \in DOMAIN conn[e].streams : AbandonStream(e, id) \/ ResetStream(e, id)
       \/ TimeOut(e)
       \/ Close(e)
    /\ Remember

\* The connection's own: a body being written.
Writes(e) ==
    /\ SendData(e) \/ SendInterrupted(e)
    /\ Remember

\* The ends are not each other's peers: one is explored, whichever begins.
Unused(e) == conn[e] = NewConnection(e)

Next ==
    \E e \in Endpoints :
        /\ \A other \in Endpoints \ {e} : Unused(other)
        /\ CallerActs(e) \/ Writes(e) \/ \E f \in Frames[e] : PeerSends(e, f)

Spec == Init /\ [][Next]_vars

-----------------------------------------------------------------------------
(* Properties.                                                             *)

StreamType(s) ==
    /\ s.state \in States
    /\ s.recv \in 0..InitialWindow
    /\ s.send \in -MaximumWindow .. 2 * MaximumWindow
    /\ s.head \in 0..MaxMessage
    /\ s.body \in 0..MaxBody
    /\ s.headers \in {"none"} \cup Kinds
    /\ s.method \in {"none"} \cup Requests
    /\ s.trailers \in BOOLEAN /\ s.abandoned \in BOOLEAN

\* Every field keeps its type: the credit of the connection never goes below
\* zero nor past its maximum, what a stream holds never past the limits, and
\* a task is writing exactly when there is a message left to write.  However
\* streams are opened, reset and finished, a server never keeps more of them
\* than it advertised (begin_stream); and buffered_bound can read high but never
\* low (overbuffered), so that what all the streams hold together stays within
\* max_connection_buffer_size.
TypeOK ==
    \A e \in Endpoints :
        /\ \A id \in DOMAIN conn[e].streams : StreamType(conn[e].streams[id])
        /\ conn[e].recvWindow \in 0..InitialWindow
        /\ conn[e].sendWindow \in 0..MaximumWindow
        /\ conn[e].premature \in 0..MaxPrematureResets + 1
        /\ conn[e].idle \in 0..MaxIdleFrames + 1
        /\ conn[e].task \in {"idle", "receive", "send"}
        /\ conn[e].task = "send" => conn[e].rest \in 1..conn[e].sending.body
        /\ conn[e].error \in {"none", "stream", "refused", "protocol", "limit", "closed", "timeout"}
        /\ ~IsClient[e] => Count(conn[e].streams) <= MaxConcurrent[e]
        /\ Buffered(conn[e].streams) <= conn[e].bound
        /\ Buffered(conn[e].streams) <= MaxBuffered

\* A stream that was dropped or reset never comes back: not by a late frame
\* of the peer (begin_stream), nor by an answer of the caller to a request
\* whose stream is gone, which send_message would have to resurrect.
NeverReopened ==
    \A e \in Endpoints : DOMAIN conn[e].streams \cap gone[e] = {}

\* Once a stream is gone nothing more is said on it, by a body being written
\* when it was reset (write_data), by an answer to it, or by the credit for
\* data that still arrives on it.
SilentOnceGone ==
    [][\A e \in Endpoints : \A i \in DOMAIN out'[e] :
        out'[e][i].type \in {"HEADERS", "CONTINUATION", "DATA", "WINDOW"} =>
            out'[e][i].id \notin gone[e]]_vars

\* What is documented of the connection and does not hold.

\* retire drops a finished stream "so its state is not held forever".
FinishedStreamsDropped ==
    \A e \in Endpoints : \A id \in DOMAIN conn[e].streams :
        conn[e].streams[id].state = "Closed" => conn[e].streams[id].abandoned

\* finish_headers: "The first section on a stream becomes the message; a
\* second becomes its trailers", so no stream yields a message once the peer
\* has ended it.
OneMessagePerStream ==
    [][\A e \in Endpoints :
        LET m == conn'[e].returned
        IN  conn[e].task = "receive" /\ m # None /\ m.id \in DOMAIN conn[e].streams
                => Receivable(conn[e].streams[m.id])]_vars
=============================================================================
