----------------------------- MODULE Admission -----------------------------
(***************************************************************************)
(* What a gate promises its callers (src/api/gate.rs): permits, one to a   *)
(* connection, never more of them alive than the limits allow.  Gate       *)
(* implements this, and Server is built on it.                             *)
(***************************************************************************)
EXTENDS Integers, FiniteSets

CONSTANTS
    Conns,              \* connections
    Addresses,          \* the peer addresses
    NoAddress,          \* `None`
    MaxConnections,     \* max_connections; 0 is unbounded
    MaxPerIp            \* max_connections_per_ip; 0 is unbounded

VARIABLE
    permits             \* the address each permit alive was issued for

Init == permits = <<>>

Permitted(a) == {c \in DOMAIN permits : permits[c] = a}

Room(a) ==
    /\ MaxConnections # 0 => Cardinality(DOMAIN permits) < MaxConnections
    /\ a # NoAddress /\ MaxPerIp # 0 => Cardinality(Permitted(a)) < MaxPerIp

\* admit answers with a permit.  Where there is room it need not: a slot may
\* be on its way back, and the rate of an address may be used up.
Admit(c, a) ==
    /\ c \notin DOMAIN permits
    /\ Room(a)
    /\ permits' = [d \in DOMAIN permits \cup {c} |-> IF d = c THEN a ELSE permits[d]]

\* The permit is dropped.
Drop(c) ==
    /\ c \in DOMAIN permits
    /\ permits' = [d \in DOMAIN permits \ {c} |-> permits[d]]

Next == \E c \in Conns : Drop(c) \/ \E a \in Addresses \cup {NoAddress} : Admit(c, a)

Spec == Init /\ [][Next]_permits
=============================================================================
