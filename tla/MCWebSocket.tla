---------------------------- MODULE MCWebSocket ----------------------------
(* Fragments with a ping between them, and messages that are misused.      *)
EXTENDS WebSocket

Text(of, size) == Frame("text", TRUE, of, size)
First(of, size) == Frame("text", FALSE, of, size)
More(size, fin) == Frame("continuation", fin, 0, size)
Ping == Frame("ping", TRUE, 0, 0)
Invalid(frame) == [frame EXCEPT !.valid = FALSE]

MCSent ==
    { << Text(1, 1), First(2, 1), Ping, More(1, TRUE) >>,
      << First(1, 1), More(0, FALSE), More(1, TRUE) >>,
      << First(1, 2), More(1, FALSE) >>,
      << Ping, Invalid(Text(1, 1)) >>,
      << First(1, 1), Text(2, 1) >>,
      << More(1, TRUE) >> }

MCAnswers == { << First(1, 1), Ping, More(1, TRUE) >>, << Text(1, 1), Ping, Invalid(Text(2, 1)) >> }
MCPlans == { [e \in Ends |-> IF e = "client" THEN sent ELSE answer] : sent \in MCSent, answer \in MCAnswers }
=============================================================================
