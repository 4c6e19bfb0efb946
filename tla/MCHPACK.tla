------------------------------ MODULE MCHPACK ------------------------------
(* Three fields a small table holds two of, and one that is not to be kept. *)
EXTENDS HPACK

Field(name, value) == [name |-> name, value |-> value]
MCSizeOf == [f \in Fields |-> IF f = Field("a", 2) THEN 2 ELSE 1]
MCStatic == {Field("s", 1)}
MCLists == {<< Field("a", 1), Field("b", 1) >>, << Field("a", 2), Field("a", 1) >>, << Field("b", 1), Field("s", 1) >>,
            << Field("k", 1), Field("s", 2) >>}
=============================================================================
