------------------------------ MODULE MCH2Pair ------------------------------
(* A client and a server, and the messages they exchange.                  *)
EXTENDS H2Pair

Ends == {"client", "server"}
Roles == [e \in Ends |-> e = "client"]
Two == [e \in Ends |-> 2]

Message(kind, body, trailers) ==
    [id |-> 0, kind |-> kind, body |-> body, trailers |-> trailers]
Uploads == << Message("get", 5, TRUE), Message("get", 2, FALSE), Message("get", 3, FALSE) >>
Upload == << Message("get", 3, FALSE), Message("get", 0, TRUE) >>
LongAnswer == Message("ok", 3, TRUE)
=============================================================================
