------------------------------ MODULE MCH2Peer ------------------------------
(* One end, a server or a client, and what its peer and caller may send.   *)
EXTENDS H2Peer

ServerOnly == {"server"}
Either == {"server", "client"}
AsServer == [server |-> FALSE]
AsEither == [server |-> FALSE, client |-> TRUE]
Two == [e \in Endpoints |-> 2]

Field(id, kind, end, more) ==
    [type |-> "HEADERS", id |-> id, kind |-> kind, end |-> end, more |-> more]
Octets(id, size, end) == [type |-> "DATA", id |-> id, size |-> size, end |-> end]
Continuation(more) == [type |-> "CONTINUATION", id |-> 1, more |-> more]
Message(id, kind, body, trailers) ==
    [id |-> id, kind |-> kind, body |-> body, trailers |-> trailers]

\* The client of a server opens, feeds, ends and resets streams, and grants and
\* takes away credit.
StreamFrames ==
    {Plain("PREFACE"), Plain("PING"), Rst(1), Credit(1, 2), Credit(0, 2)}
        \cup {Field(1, "get", TRUE, FALSE), Field(1, "get", FALSE, TRUE)}
        \cup {Field(1, "trailers", TRUE, FALSE), Field(1, "connect", FALSE, FALSE)}
        \cup {Field(id, "get", FALSE, FALSE) : id \in {2, 3, 5}}
        \cup {Continuation(more) : more \in BOOLEAN}
        \cup {Octets(1, 0, FALSE), Octets(1, 1, TRUE), Octets(1, 1, FALSE), Octets(3, 2, FALSE)}
Answers == {Message(1, "ok", 3, TRUE), Message(1, "interim", 0, FALSE)}
Refusals == {Message(1, "refusal", 0, FALSE)}

\* The server of a client answers, early, late, twice, and goes away.
AnswerFrames ==
    {Plain("EOF"), Plain("PUSH_PROMISE"), Plain("PRIORITY"), GoAway(0), Settings(1, 1), Rst(1)}
        \cup {Field(1, kind, FALSE, FALSE) : kind \in {"ok", "interim", "bad"}}
        \cup {Field(1, "trailers", TRUE, FALSE), Field(1, "ok", TRUE, FALSE)}
        \cup {Field(id, "ok", TRUE, FALSE) : id \in {2, 3}}
        \cup {Octets(1, 1, TRUE)} \cup {Credit(0, 1)}
Questions ==
    {Message(0, "get", 0, FALSE), Message(0, "get", 2, TRUE), Message(0, "connect", 0, FALSE)}

\* What each end is up against.
ServerFrames == [server |-> StreamFrames]
ServerAnswers == [server |-> Answers]
ServerRefusals == [server |-> Refusals]
EitherFrames == [server |-> StreamFrames, client |-> AnswerFrames]
EitherMessages == [server |-> Answers, client |-> Questions]
=============================================================================
