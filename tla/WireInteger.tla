---------------------------- MODULE WireInteger ----------------------------
(***************************************************************************)
(* The prefixed integers of HPACK and QPACK (Integer,                      *)
(* src/helpers/fields.rs), with words of Width bits in groups of Group:    *)
(* 64 and 7 in the code.  Flags are left out.                              *)
(*                                                                         *)
(* An integer on the wire is what its prefix holds, and the groups that    *)
(* continue it, each of which says whether another follows.                *)
(***************************************************************************)
EXTENDS Integers, Sequences, SequencesExt

CONSTANTS
    Width,      \* the bits of a word, a positive number
    Group       \* the bits of a group, a positive number below Width

Words == 0 .. 2^Width - 1
Groups == [bits : 0 .. 2^Group - 1, more : BOOLEAN]
Limit(prefix) == 2^prefix - 1

\* The groups of what is left of a value: as few as hold it.
GroupsOf(rest) ==
    LET last == CHOOSE n \in 0 .. Width : rest < 2^(Group * (n + 1)) /\ (n = 0 \/ rest >= 2^(Group * n))
    IN  [n \in 1 .. last + 1 |-> [bits |-> (rest \div 2^(Group * (n - 1))) % 2^Group, more |-> n <= last]]

\* Faulty: a value as large as the prefix is taken to fit it.
EncodeInclusive(value, prefix) ==
    IF value <= Limit(prefix) THEN [first |-> value, groups |-> <<>>]
    ELSE [first |-> Limit(prefix), groups |-> GroupsOf(value - Limit(prefix))]

\* encode
Encode(value, prefix) ==
    IF value < Limit(prefix) THEN [first |-> value, groups |-> <<>>]
    ELSE [first |-> Limit(prefix), groups |-> GroupsOf(value - Limit(prefix))]

\* decode, of one more group: a shift drops the bits that leave the word, and
\* an addition that does is refused.
Continue(state, group) ==
    LET part == (group.bits * 2^state.shift) % 2^Width
        value == state.value + part
    IN  CASE state.is # "incomplete" -> state
          [] state.is = "incomplete" /\ value \notin Words -> [state EXCEPT !.is = "overflow"]
          [] state.is = "incomplete" /\ value \in Words /\ ~group.more ->
                [state EXCEPT !.is = "done", !.value = value, !.consumed = @ + 1]
          [] OTHER ->
                [state EXCEPT !.is = IF state.shift + Group >= Width THEN "overflow" ELSE @,
                              !.value = value, !.consumed = @ + 1, !.shift = @ + Group]

Decode(wire, prefix) ==
    LET begun == [is |-> "incomplete", value |-> wire.first, consumed |-> 1, shift |-> 0]
    IN  IF wire.first < Limit(prefix) THEN [begun EXCEPT !.is = "done"]
        ELSE FoldLeft(Continue, begun, wire.groups)

-----------------------------------------------------------------------------
\* Every value that fits a word decodes to itself from as much as it took,
\* whatever follows, and from no less.
Recovers(value, prefix) ==
    LET wire == Encode(value, prefix)
        size == Len(wire.groups)
        whole == [is |-> "done", value |-> value, consumed |-> size + 1]
        Read(w) == LET d == Decode(w, prefix) IN [is |-> d.is, value |-> d.value, consumed |-> d.consumed]
    IN  /\ Read(wire) = whole
        /\ \A g \in Groups : Read([wire EXCEPT !.groups = Append(@, g)]) = whole
        /\ \A n \in 0 .. size - 1 : Read([wire EXCEPT !.groups = SubSeq(@, 1, n)]).is = "incomplete"

\* What a wire says: the sum of its groups where they stand.
Said(wire, prefix) ==
    IF wire.first < Limit(prefix) THEN wire.first
    ELSE wire.first + FoldLeft(LAMBDA sum, n : sum + wire.groups[n].bits * 2^(Group * (n - 1)), 0,
                               [n \in DOMAIN wire.groups |-> n])

\* decode "returns Error::IntegerOverflow when the value will not fit in 64 bits":
\* what does not hold of every wire, as << 7, 7, 7 >> of a prefix of one bit shows.
FitsOrRefused(wire, prefix) ==
    Decode(wire, prefix).is = "done" => Decode(wire, prefix).value = Said(wire, prefix)
=============================================================================
