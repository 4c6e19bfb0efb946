------------------------------- MODULE H2Pair -------------------------------
(***************************************************************************)
(* Two ends of the HTTP/2 of this repository, a client and a server, over  *)
(* a transport that keeps octets in order.                                 *)
(*                                                                         *)
(* The server runs the default Handler::on_connection of src/api/server.rs *)
(* (receive, answer on the stream of the request, stop at the first        *)
(* error).  The client sends its requests through send_message and takes   *)
(* the answers through receive_message, in an order of its own choosing.   *)
(***************************************************************************)
EXTENDS H2Connection

CONSTANTS
    Asked,      \* the requests of the client, in order, as messages of id 0
    Answer,     \* what the server answers with, a message whose id is ignored
    MaxResets   \* bound: how many streams the client resets

ASSUME PairAssumption ==
    /\ Endpoints = {"client", "server"}
    /\ \A e \in Endpoints : IsClient[e] <=> e = "client"
    /\ Asked \in Seq(AnyMessage)
    /\ Answer \in AnyMessage
    /\ MaxResets \in Nat

VARIABLES
    wire,       \* the frames on their way to each end
    asked,      \* how many requests the client has begun to send
    resets,     \* how many streams it has reset
    sent,       \* history: the message each end sent on each stream
    got         \* history: the messages each end was handed, in order

vars == << conn, out, wire, asked, resets, sent, got >>
Client == "client"
Server == "server"
Other(e) == IF e = Client THEN Server ELSE Client

Init ==
    /\ H2Init
    /\ wire = [e \in Endpoints |-> <<>>]
    /\ asked = 0 /\ resets = 0
    /\ sent = [e \in Endpoints |-> <<>>]
    /\ got = [e \in Endpoints |-> <<>>]

\* What the step put on the wire, `rest` being left of what was there.
Transported(rest) == wire' = [e \in Endpoints |-> rest[e] \o out'[Other(e)]]

\* A message newly returned by receive_message at `e` is handed to its caller.
HandedTo(e) ==
    got' = IF conn'[e].returned # None /\ conn[e].returned = None
           THEN [got EXCEPT ![e] = Append(@, conn'[e].returned)] ELSE got

-----------------------------------------------------------------------------
(* The transport, and the connections' own steps.                          *)

\* The first frame on the way to `e` reaches it.
Deliver(e) ==
    /\ wire[e] # <<>>
    /\ (e = Server /\ StartServer(e, Head(wire[e]))) \/ Handle(e, Head(wire[e]))
    /\ Transported([wire EXCEPT ![e] = Tail(@)])
    /\ HandedTo(e)
    /\ UNCHANGED << asked, resets, sent >>

Write(e) ==
    /\ SendData(e) \/ SendInterrupted(e)
    /\ Transported(wire)
    /\ UNCHANGED << asked, resets, sent, got >>

Expire(e) ==
    /\ TimeOut(e)
    /\ Transported(wire)
    /\ UNCHANGED << asked, resets, sent, got >>

-----------------------------------------------------------------------------
(* Handler::on_connection                                                  *)

Receive(e) ==
    /\ conn[e].returned = None
    /\ BeginReceive(e)
    /\ Transported(wire)
    /\ HandedTo(e)
    /\ UNCHANGED << asked, resets, sent >>

Serve ==
    LET m == [Answer EXCEPT !.id = conn[Server].returned.id]
    IN  /\ Free(Server) /\ conn[Server].returned # None
        /\ \/ SendOnGoneStream(Server, m) /\ UNCHANGED sent
           \/ SendHead(Server, m, FALSE) /\ sent' = [sent EXCEPT ![Server] = With(@, m.id, m)]
        /\ Transported(wire)
        /\ UNCHANGED << asked, resets, got >>

\* A receive or a send that fails, however it fails, ends the loop.
Leave ==
    /\ conn[Server].error # "none"
    /\ Close(Server)
    /\ Transported(wire)
    /\ UNCHANGED << asked, resets, sent, got >>

-----------------------------------------------------------------------------
(* The client.                                                             *)

Connect ==
    /\ StartClient(Client)
    /\ Transported(wire)
    /\ UNCHANGED << asked, resets, sent, got >>

Ask ==
    /\ conn[Client].returned = None
    /\ asked < Len(Asked)
    /\ LET m == Asked[asked + 1]
       IN  \E more \in BOOLEAN :
             /\ SendHead(Client, m, more)
             /\ sent' = [sent EXCEPT ![Client] = With(@, conn[Client].nextId,
                                                      [m EXCEPT !.id = conn[Client].nextId])]
    /\ asked' = asked + 1
    /\ Transported(wire)
    /\ UNCHANGED << resets, got >>

\* What was received is looked at, and the client goes on.
Look ==
    /\ Free(Client) /\ conn[Client].returned # None
    /\ Step(Client, [conn[Client] EXCEPT !.returned = None], <<>>)
    /\ Transported(wire)
    /\ UNCHANGED << asked, resets, sent, got >>

Reset ==
    /\ resets < MaxResets
    /\ \E id \in DOMAIN conn[Client].streams : ResetStream(Client, id)
    /\ resets' = resets + 1
    /\ Transported(wire)
    /\ UNCHANGED << asked, sent, got >>

\* The client waits only while it has an answer to wait for.
Wait ==
    /\ DOMAIN conn[Client].streams # {} \/ conn[Client].ready # <<>>
    /\ Receive(Client)

\* It leaves when it failed, or when nothing is left to ask and to wait for.
Finished ==
    /\ Failed(Client) \/ (/\ asked = Len(Asked) /\ conn[Client].returned = None
                          /\ DOMAIN conn[Client].streams = {} /\ conn[Client].ready = <<>>)
    /\ Close(Client)
    /\ Transported(wire)
    /\ UNCHANGED << asked, resets, sent, got >>

Done ==
    /\ \A e \in Endpoints : ~conn[e].open
    /\ UNCHANGED vars

ServerLoop == (conn[Server].started /\ Receive(Server)) \/ Serve \/ Leave
ClientLoop == Connect \/ Ask \/ Look \/ Wait \/ Finished
Next ==
    \/ \E e \in Endpoints : Deliver(e) \/ Write(e) \/ Expire(e)
    \/ ServerLoop \/ ClientLoop \/ Reset \/ Done

\* The runtime polls every task that can go on: octets in the transport are
\* read, a body with credit is written, and both loops keep turning.
Fairness ==
    /\ \A e \in Endpoints : WF_vars(Deliver(e)) /\ WF_vars(Write(e))
    /\ WF_vars(ServerLoop) /\ WF_vars(ClientLoop)

Spec == Init /\ [][Next]_vars /\ Fairness

-----------------------------------------------------------------------------
(* Properties.                                                             *)

\* The messages an end is handed are those the other sent on the same
\* streams, whole, each once: nothing that interleaves two bodies, a body and
\* its credit, or a request and an answer being written at the same time
\* cuts, mixes, repeats or invents one.
Intact ==
    \A e \in Endpoints :
        /\ \A i \in DOMAIN got[e] :
             /\ got[e][i].id \in DOMAIN sent[Other(e)]
             /\ got[e][i] = sent[Other(e)][got[e][i].id]
        /\ \A i, j \in DOMAIN got[e] : got[e][i].id = got[e][j].id => i = j

\* The octets that frames of a type carry or grant, on the streams `ids`: each
\* as its frame and its place there.
OctetsOf(frames, type, ids) ==
    UNION {{i} \X (1 .. frames[i].size) :
              i \in {j \in DOMAIN frames : frames[j].type = type /\ frames[j].id \in ids}}
Amount(frames, type, ids) == Cardinality(OctetsOf(frames, type, ids))

Well == \A e \in Endpoints : conn[e].open /\ ~Failed(e)

\* Flow control credit is neither lost nor made: what the sender may still
\* send, what is on its way, and what is on its way back make up the window,
\* on the connection and on every stream both ends know.
CreditConserved ==
    Well => \A e \in Endpoints :
        LET peer == Other(e)
        IN  /\ conn[e].sendWindow + Amount(wire[peer], "DATA", Nat) + Amount(wire[e], "WINDOW", {0})
                 = conn[peer].recvWindow
            /\ \A id \in DOMAIN conn[e].streams \cap DOMAIN conn[peer].streams :
                 conn[e].streams[id].send + Amount(wire[peer], "DATA", {id})
                   + Amount(wire[e], "WINDOW", {id}) = conn[peer].streams[id].recv

\* Two ends that both keep to this code never accuse each other: short of a
\* reset, neither fails the connection for what the other sent, and no
\* answer finds its stream gone.
NoFalseAlarm ==
    resets = 0 => \A e \in Endpoints : conn[e].error \notin {"protocol", "limit", "stream"}

\* Nothing on the way, and nothing being written.
Quiet == wire[Client] = <<>> /\ wire[Server] = <<>> /\ \A e \in Endpoints : conn[e].task # "send"

\* The two ends forget a stream together: when nothing is under way between
\* them, the streams one keeps are those the other keeps.
StreamsAgree ==
    Quiet /\ Well =>
        DOMAIN conn[Client].streams = DOMAIN conn[Server].streams

\* Every request is answered, though both ends may have bodies to write and
\* no credit to write them with at the same time, unless the client reset a
\* stream or a deadline passed.
AllAnswered ==
    <>(\/ Len(got[Client]) = Len(Asked)
       \/ resets > 0
       \/ \E e \in Endpoints : conn[e].error = "timeout")

\* reset "Abandons one stream and tells the peer why", and "A stream-level
\* flow control failure resets that stream instead" of the connection: the
\* client's resets do not end the connection.
ResetCostsOneStream == conn[Client].error # "protocol" /\ conn[Server].error # "protocol"

\* Error::Stream: "The connection itself stays usable."
StreamErrorKeepsConnection ==
    [][conn[Server].error = "stream" => conn'[Server].open]_vars
=============================================================================
