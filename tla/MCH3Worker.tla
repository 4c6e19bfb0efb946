----------------------------- MODULE MCH3Worker -----------------------------
(* Requests of each kind: plain, blocked, and one that opens a tunnel.     *)
EXTENDS H3Worker

MCScript == << <<"block">>, <<"connect", "octet">> >>
MCBlocked == << <<"block", "data">>, <<"block", "head">>, <<"head">> >>
MCHeld == << <<"connect", "octet">>, <<"head">> >>
MCBad == << <<"block", "bad">>, <<"block", "data">> >>
MCTunnel == << <<"connect", "octet">> >>
MCAnswer == <<1, 2>>
=============================================================================
