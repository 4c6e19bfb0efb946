------------------------------ MODULE MCQPACK ------------------------------
(* Two names, a static field, a name kept out of tables, in units of 32.   *)
EXTENDS QPACK

F(n, v) == [name |-> n, value |-> v]
Symmetry == Permutations(Streams)
MCSizeOf == [f \in Fields |-> IF f.name = "b" /\ f.value = 2 THEN 2 ELSE 1]
MCStatic == {F("s", 1)}
MCShortLists == {<<F("a", 1)>>, <<F("b", 2)>>}
MCLists == {<<F("a", 1)>>, <<F("s", 1), F("a", 1), F("a", 1), F("a", 2), F("b", 2)>>}
=============================================================================
