----------------------------- MODULE FieldTable -----------------------------
(***************************************************************************)
(* The dynamic tables of HPACK and QPACK (src/helpers/hpack.rs,            *)
(* src/helpers/qpack.rs) and what both match a header field against.       *)
(*                                                                         *)
(* A table is its entries, oldest first, how many were evicted before      *)
(* them, and its capacity.  The absolute index of an entry is the number   *)
(* of insertions before its own.  Sizes are in units of                    *)
(* HeaderField::OVERHEAD, below which no entry is.                         *)
(***************************************************************************)
EXTENDS Integers, Sequences, SequencesExt, FiniteSetsExt

CONSTANTS
    Names,      \* of header fields
    Values,     \* of header fields
    SizeOf,     \* the size of each field
    Static,     \* the fields of the static table
    Sensitive   \* the names whose values are never inserted

ASSUME FieldAssumption ==
    /\ SizeOf \in [[name : Names, value : Values] -> Nat \ {0}]
    /\ Static \subseteq [name : Names, value : Values]
    /\ Sensitive \subseteq Names

Fields == [name : Names, value : Values]
StaticNames == {f.name : f \in Static}

Tables == [entries : Seq(Fields), oldest : Nat, capacity : Nat]

EmptyTable(capacity) == [entries |-> <<>>, oldest |-> 0, capacity |-> capacity]

Held(entries) == FoldSeq(LAMBDA f, sum : SizeOf[f] + sum, 0, entries)
Inserted(t) == t.oldest + Len(t.entries)
Indices(t) == t.oldest .. Inserted(t) - 1
At(t, absolute) == t.entries[absolute - t.oldest + 1]

\* The table with its `k` oldest entries evicted.
Evicted(t, k) ==
    [t EXCEPT !.entries = SubSeq(@, k + 1, Len(@)), !.oldest = @ + k]

\* How many entries make room for `size` more; all of them when nothing does.
Excess(t, size) ==
    Min({k \in 0 .. Len(t.entries) :
            \/ Held(Evicted(t, k).entries) + size <= t.capacity
            \/ k = Len(t.entries)})

SetCapacity(t, capacity) ==
    LET resized == [t EXCEPT !.capacity = capacity]
    IN  Evicted(resized, Excess(resized, 0))

Fits(t, f) == SizeOf[f] <= t.capacity

\* A field is made room for and put in front, where it fits at all.
Push(t, f) ==
    [Evicted(t, Excess(t, SizeOf[f])) EXCEPT !.entries = Append(@, f)]

\* The indices below `below` whose entries equal the field, or have its name.
Exact(t, f, below) == {i \in Indices(t) : i < below /\ At(t, i) = f}
Named(t, f, below) == {i \in Indices(t) : i < below /\ At(t, i).name = f.name}
=============================================================================
