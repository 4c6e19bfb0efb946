--------------------------------- MODULE H1 ---------------------------------
(***************************************************************************)
(* An HTTP/1 connection with H1Connection at both ends                     *)
(* (src/protocol/h1.rs), a client that pipelines a plan of requests and a  *)
(* handler that serves them in a loop, as Handler::on_connection does.     *)
(*                                                                         *)
(* A receive reads a head, then a body, and may wait for the peer before   *)
(* each item; a send may be cut by its deadline at any item.  Either then  *)
(* fails, and the application lets the connection go.                      *)
(***************************************************************************)
EXTENDS H1Framing

CONSTANTS
    Plans,      \* the sequences of requests a client may send
    Answers,    \* the responses a handler may make, without their request
    Depth,      \* pipeline_depth
    Ahead       \* how many requests any handler takes before it answers one

ASSUME H1Assumption == {Depth, Ahead} \subseteq Nat \ {0}

VARIABLES
    plan,       \* the requests of the client
    ahead,      \* how many requests this handler takes before it answers one
    asked,      \* how many of them it has sent
    ends,       \* the H1Connection of each end
    wire,       \* what is on its way to each end
    over,       \* the ends whose peer will send no more
    heard       \* the messages each end has received

vars == << plan, ahead, asked, ends, wire, over, heard >>

Ends == {"client", "server"}
Peer(e) == IF e = "client" THEN "server" ELSE "client"

\* No message is being read.
Quiet == [message |-> Blank, method |-> "none", length |-> Absent, taken |-> <<>>]

Fresh == [pending |-> <<>>, closing |-> FALSE, reading |-> Quiet, open |-> TRUE]

\* The method a response of this end answers, or one it receives is an answer to.
Answering(conn) == IF conn.pending = <<>> THEN "none" ELSE Head(conn.pending)
Dequeued(conn) == IF conn.pending = <<>> THEN conn ELSE [conn EXCEPT !.pending = Tail(@)]

\* The end is let go of, and its peer reads to the end of what was sent.
Dropped(e, conn) ==
    /\ ends' = [ends EXCEPT ![e] = [conn EXCEPT !.open = FALSE, !.reading = Quiet]]
    /\ over' = over \cup {Peer(e)}

Put(e, items) == wire' = [wire EXCEPT ![Peer(e)] = @ \o items]

-----------------------------------------------------------------------------
\* Sending.

\* A client remembers a request once it is written; a server lets go of one
\* once it has written the final answer.
Sent(e, conn, m) ==
    IF IsRequest(m) THEN [conn EXCEPT !.pending = Append(@, m.method)]
    ELSE IF Informational(m) THEN conn ELSE Dequeued(conn)

\* send_message, to its end or until the deadline cuts it.
Send(e, m) ==
    LET conn == ends[e]
        items == Written(m, IF IsRequest(m) THEN "none" ELSE Answering(conn), conn.closing)
    IN  \/ /\ Put(e, items)
           /\ ends' = [ends EXCEPT ![e] = Sent(e, conn, m)]
           /\ UNCHANGED over
        \/ \E cut \in 0 .. Len(items) - 1 :
            /\ Put(e, SubSeq(items, 1, cut))
            /\ Dropped(e, conn)

\* The client sends its next request, while it has room for one in its pipeline.
Ask ==
    /\ ends["client"].open /\ ~ends["client"].closing /\ ends["client"].reading = Quiet
    /\ asked < Len(plan)
    /\ Len(ends["client"].pending) < Depth
    /\ asked' = asked + 1
    /\ Send("client", plan[asked + 1])
    /\ UNCHANGED << plan, ahead, heard >>

\* How many of the requests it has received the handler has answered.
Served == Len(heard["server"]) - Len(ends["server"].pending)

\* The handler answers the request at the front.
Answer(a) ==
    LET conn == ends["server"] IN
    /\ conn.open /\ conn.pending # <<>> /\ conn.reading = Quiet
    /\ Send("server", [a EXCEPT !.id = heard["server"][Served + 1].id])
    /\ UNCHANGED << plan, ahead, asked, heard >>

-----------------------------------------------------------------------------
\* Receiving.

\* What an end has received, but for interim responses.
Finals(e) == SelectSeq(heard[e], LAMBDA h : ~Informational(h))

\* The client reads while it awaits answers, the handler while it keeps up.
Receives(e) ==
    /\ ends[e].open
    /\ CASE e = "client" -> asked > Len(Finals(e))
         [] e = "server" -> Len(ends[e].pending) < ahead /\ (ends[e].closing => ends[e].pending # <<>>)

\* Faulty: the answer to a request is framed without its method.
OpenedUnasked(e, conn, m) ==
    LET kept == [conn EXCEPT !.closing = @ \/ ~KeepAlive(m)]
    IN  [IF IsRequest(m) THEN [kept EXCEPT !.pending = Append(@, m.method)] ELSE Dequeued(kept)
            EXCEPT !.reading =
                [message |-> m, method |-> "none", length |-> Length(m, "none"), taken |-> <<>>]]

\* The connection once a head was read: it may have to close, a server
\* remembers the request, and a client takes back what is answered.
Opened(e, conn, m) ==
    LET kept == [conn EXCEPT !.closing = @ \/ ~KeepAlive(m)]
        method == IF IsRequest(m) THEN "none" ELSE Answering(kept)
        exchanged ==
            IF IsRequest(m) THEN [kept EXCEPT !.pending = Append(@, m.method)] ELSE Dequeued(kept)
    IN  [exchanged EXCEPT !.reading =
            [message |-> m, method |-> method, length |-> Length(m, method), taken |-> <<>>]]

\* A body that is announced and asks for permission is given it before it is read.
Interim(e, conn) ==
    IF e = "server" /\ Expects(conn.reading.message) /\ conn.reading.length # Absent
    THEN Written(Response(conn.reading.message.id, 100, 0), Answering(conn), conn.closing)
    ELSE <<>>

\* The head of the next message, or octets that are none, which a server
\* answers before it fails.
ReadHead(e) ==
    /\ Receives(e) /\ ends[e].reading = Quiet /\ wire[e] # <<>>
    /\ LET item == Head(wire[e])
           conn == ends[e]
           opened == Opened(e, conn, item.of)
           rejecting == [conn EXCEPT !.closing = TRUE]
           fails == \/ opened.reading.length = Malformed
                    \/ IsRequest(item.of) /\ Len(conn.pending) >= Depth
           rest(items) == wire' = [wire EXCEPT ![e] = Tail(@), ![Peer(e)] = @ \o items]
       IN  IF item.is # "head"
           THEN IF e = "server"
                THEN /\ rest(Written(Response(0, 400, 0), Answering(conn), TRUE))
                     /\ Dropped(e, Dequeued(rejecting))
                ELSE rest(<<>>) /\ Dropped(e, conn)
           ELSE IF fails THEN rest(<<>>) /\ Dropped(e, opened)
           ELSE /\ rest(Interim(e, opened))
                /\ IF Oversized(opened.reading.length)
                   THEN Dropped(e, opened)
                   ELSE ends' = [ends EXCEPT ![e] = opened] /\ UNCHANGED over
    /\ UNCHANGED << plan, ahead, asked, heard >>

Reading(e) == ends[e].open /\ ends[e].reading # Quiet

\* One more item of the body.
ReadBody(e) ==
    LET r == ends[e].reading IN
    /\ Reading(e) /\ wire[e] # <<>> /\ ~Complete(r.length, r.taken, FALSE)
    /\ LET item == Head(wire[e]) IN
        IF Acceptable(r.length, item, r.taken)
        THEN /\ ends' = [ends EXCEPT ![e].reading.taken = Append(@, item)]
             /\ UNCHANGED over
        ELSE Dropped(e, ends[e])
    /\ wire' = [wire EXCEPT ![e] = Tail(@)]
    /\ UNCHANGED << plan, ahead, asked, heard >>

\* What an application is handed, with whether it is what its peer sent.
Heard(r) ==
    [id |-> r.message.id, status |-> r.message.status, method |-> r.method,
     closes |-> "close" \in r.message.connection, whole |-> Whole(r.message, r.method, r.taken)]

\* The message is handed over, and a client that may not go on closes.
Finish(e) ==
    LET r == ends[e].reading
        done == [ends[e] EXCEPT !.reading = Quiet]
    IN  /\ Reading(e)
        /\ Complete(r.length, r.taken, wire[e] = <<>> /\ e \in over)
        /\ heard' = [heard EXCEPT ![e] = Append(@, Heard(r))]
        /\ ends' = [ends EXCEPT ![e] = done]
        /\ UNCHANGED << plan, ahead, asked, wire, over >>

\* The transport ends where there should have been more.
End(e) ==
    /\ ends[e].open /\ e \in over /\ wire[e] = <<>>
    /\ Reading(e) => ~Complete(ends[e].reading.length, ends[e].reading.taken, TRUE)
    /\ Receives(e) \/ Reading(e)
    /\ Dropped(e, ends[e])
    /\ UNCHANGED << plan, ahead, asked, wire, heard >>

\* A receive runs out of time; what it had read of the message is lost.
Expire(e) ==
    /\ Reading(e) \/ Receives(e)
    /\ Dropped(e, ends[e])
    /\ UNCHANGED << plan, ahead, asked, wire, heard >>

\* The application is done: the client when it is answered, or has a final answer
\* of a connection that is no longer reusable (it reads past interim ones); the
\* handler's loop when the last answer is out.
Close(e) ==
    LET conn == ends[e]
        answered == Len(Finals(e))
    IN  /\ conn.open /\ conn.reading = Quiet
        /\ CASE e = "client" -> (conn.closing /\ ~Informational(Last(heard[e])))
                               \/ (answered = asked /\ asked = Len(plan))
             [] e = "server" -> conn.closing /\ conn.pending = <<>>
        /\ Dropped(e, conn)
        /\ UNCHANGED << plan, ahead, asked, wire, heard >>

-----------------------------------------------------------------------------
Init ==
    /\ plan \in Plans
    /\ ahead \in 1 .. Ahead
    /\ asked = 0
    /\ ends = [e \in Ends |-> Fresh]
    /\ wire = [e \in Ends |-> <<>>]
    /\ over = {}
    /\ heard = [e \in Ends |-> <<>>]

Next ==
    \/ Ask \/ \E a \in Answers : Answer(a)
    \/ \E e \in Ends :
        ReadHead(e) \/ ReadBody(e) \/ Finish(e) \/ End(e) \/ Expire(e) \/ Close(e)

\* Each end keeps reading and answering; its deadlines need not pass.
Fairness ==
    /\ WF_vars(\E a \in Answers : ~Informational(a) /\ Answer(a))
    /\ \A e \in Ends :
        WF_vars(ReadHead(e)) /\ WF_vars(ReadBody(e)) /\ WF_vars(Finish(e))
        /\ WF_vars(End(e)) /\ WF_vars(Close(e))

Spec == Init /\ [][Next]_vars /\ Fairness

-----------------------------------------------------------------------------
\* The types of the state, with the bound on both pipelines.
TypeOK ==
    /\ asked \in 0 .. Len(plan)
    /\ over \subseteq Ends
    /\ \A e \in Ends :
        /\ ends[e].closing \in BOOLEAN /\ ends[e].open \in BOOLEAN
        /\ Len(ends[e].pending) <= Depth
        /\ \A i \in DOMAIN wire[e] : wire[e][i].is \in {"head", "octet", "chunk", "end"}
        /\ Total(ends[e].reading.taken) <= MaxBody

\* No response follows a final one that announced the close of the connection
\* (send_message under `closing`, and the handler's loop, which answers before it
\* reads on).  The permission to continue may announce it as well.
CloseIsLast ==
    ahead = 1 =>
        \A k \in DOMAIN Finals("client") :
            Finals("client")[k].closes => k = Len(Finals("client"))

\* Both ends frame alike: whatever was pipelined, cut or closed, a message that
\* is received is one that was sent, with its whole body and no other octet, none
\* after a close was announced, and neither the pipelines nor a body being read
\* grow past their limits.
Synchronized ==
    /\ TypeOK
    /\ \A e \in Ends : \A i \in DOMAIN heard[e] : heard[e][i].whole
    /\ CloseIsLast

\* Each final response is framed by the method of the request it answers:
\* H1Connection "remembers each request's method so the matching response can
\* be framed".  Checked where the client's requests may ask for an interim
\* response, and the receiving of one takes the request back.
FramedByItsRequest ==
    \A k \in DOMAIN Finals("client") :
        LET f == Finals("client")[k] IN f.id # 0 => f.method = plan[f.id].method

\* h1.rs: "Content-Length is added when neither Transfer-Encoding nor an existing
\* Content-Length says otherwise": what answers a request can be framed by whoever
\* made the request.
AnswersFramed ==
    \A k \in DOMAIN wire["client"] :
        LET item == wire["client"][k] IN
        item.is = "head" /\ item.of.id # 0 => Length(item.of, plan[item.of.id].method) # Malformed

\* Every request that was asked is answered, or an end has let go: no end waits
\* for octets that are not coming.
AllAnswered ==
    \A k \in 1 .. 3 :
        asked >= k ~> \/ Len(Finals("client")) >= k
                      \/ \E e \in Ends : ~ends[e].open
=============================================================================
