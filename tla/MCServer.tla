------------------------------ MODULE MCServer ------------------------------
(* Two ports and four connections from two addresses and a Unix socket.    *)
EXTENDS Server

CONSTANTS c1, c2, c3, c4, a1, a2, tcp, unix

Four == {c1, c2, c3, c4}
Origins == (c1 :> a1) @@ (c2 :> a1) @@ (c3 :> a2) @@ (c4 :> NoAddress)
Arrivals == (c1 :> tcp) @@ (c2 :> tcp) @@ (c3 :> tcp) @@ (c4 :> unix)
=============================================================================
