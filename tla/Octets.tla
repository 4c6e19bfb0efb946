------------------------------- MODULE Octets -------------------------------
(***************************************************************************)
(* Helpers over octets: scanning a word at a time (src/helpers/scan.rs),   *)
(* base64 (src/helpers/base64.rs), the blocks SHA-1 is computed over       *)
(* (src/helpers/sha1.rs), short text kept in place (src/helpers/text.rs),  *)
(* the names of fields and the marks they are searched by                  *)
(* (src/helpers/fields.rs), and the buffer that is read into (Buffer,      *)
(* src/protocol/common.rs).                                                *)
(*                                                                         *)
(* In scans an octet has Radix values and a word Lanes octets; a symbol    *)
(* of base64 has three quarters of the bits of an octet, as six are of     *)
(* eight; a block has Block octets of which Suffix hold the length.        *)
(***************************************************************************)
EXTENDS Integers, Sequences, SequencesExt, FiniteSetsExt, Bitwise

CONSTANTS
    Bits,       \* the bits of an octet, a multiple of four: 8
    Lanes,      \* LANES: 8
    Block,      \* BLOCK_SIZE: 64
    Suffix,     \* how many octets the length of a message takes: 8
    Inline      \* INLINE: 30

Radix == 2^Bits
Sum(Value(_), n) == FoldLeft(LAMBDA sum, i : sum + Value(i), 0, [i \in 1 .. n |-> i])

-----------------------------------------------------------------------------
\* scan: the octets of a word, the first the lowest.

All == Radix^Lanes
Low == Sum(LAMBDA i : Radix^(i - 1), Lanes)
High == Low * (Radix \div 2)
Complement(word) == All - 1 - word
Minus(a, b) == (a - b + All) % All
WordAt(text, at) == Sum(LAMBDA i : text[at + i] * Radix^(i - 1), Lanes)
Offsets(text) == {at \in 0 .. Len(text) - Lanes : at % Lanes = 0}
Tail0(text) == Len(text) - (Len(text) % Lanes)
Marked(word) == Min({i \in 0 .. Lanes - 1 : (word \div Radix^i) % Radix >= Radix \div 2})

\* holds_zero: of the marked octets the lowest is zero, and others may not be.
HoldsZero(word) == (Minus(word, Low) & Complement(word)) & High

\* find: the index of an octet, or -1.
Find(text, needle) ==
    LET marks == [at \in Offsets(text) |-> HoldsZero(WordAt(text, at) ^^ (Low * needle))]
        words == {at \in Offsets(text) : marks[at] # 0}
        rest == {i \in Tail0(text) .. Len(text) - 1 : text[i + 1] = needle}
    IN  IF words # {} THEN Min(words) + Marked(marks[Min(words)])
        ELSE IF rest # {} THEN Min(rest) ELSE -1

\* Faulty: what holds_zero marks is taken to be zero, beyond the lowest too.
MarksZeroLoosely(word) == HoldsZero(word)

\* holds_less and marks_zero, which are exact for each octet.
HoldsLess(word, bound) == (Complement(Minus(word | High, Low * bound)) & Complement(word)) & High
MarksZero(word) == Complement((((word & Complement(High)) + Complement(High)) % All) | word) & High

\* The octets of the code at the scale of these: a tab, a space and a DEL.
Tab == 1
Space == 2
DEL == Radix \div 2 - 1

\* Where the words of a text begin, the last of which may overlap the one before.
Words(text) ==
    Offsets(text) \cup (IF Len(text) >= Lanes THEN {Len(text) - Lanes} ELSE {})

\* classify_field_value: whether any octet is a control, and any beyond ASCII.
ControlIn(word) == (HoldsLess(word, Space) & Complement(MarksZero(word ^^ (Low * Tab)))) | MarksZero(word ^^ (Low * DEL))
Classify(text) ==
    IF Len(text) >= Lanes
    THEN [control |-> \E at \in Words(text) : ControlIn(WordAt(text, at)) # 0,
          obs |-> \E at \in Words(text) : WordAt(text, at) & High # 0]
    ELSE [control |-> \E i \in DOMAIN text : text[i] = DEL \/ (text[i] < Space /\ text[i] # Tab),
          obs |-> \E i \in DOMAIN text : text[i] >= Radix \div 2]

\* all_visible
AllVisible(text) ==
    IF Len(text) >= Lanes
    THEN \A at \in Words(text) :
            HoldsLess(WordAt(text, at), Space + 1) | MarksZero(WordAt(text, at) ^^ (Low * DEL)) = 0
    ELSE \A i \in DOMAIN text : text[i] > Space /\ text[i] # DEL

\* all_in_class: of a table of sets, whether one of the marks is on all.
AllInClass(text, table, mask) == FoldLeft(LAMBDA held, octet : held & table[octet], mask, text) & mask # 0

-----------------------------------------------------------------------------
\* Copies of up to 32 octets as two that overlap: copy, copy_inline and same.

Widths == << 16, 8, 4, 2, 1 >>
Width(length) == Widths[Min({i \in DOMAIN Widths : Widths[i] <= length})]

\* Which octets are copied, or compared, of so many.
Touched(length) ==
    IF length > 32 THEN 1 .. length
    ELSE IF length = 0 THEN {}
    ELSE 1 .. Width(length) \cup length - Width(length) + 1 .. length

\* Text: kept in place up to INLINE octets and zero beyond them, and equal when
\* the octets in place are, those past its length included.
TextOf(octets) ==
    IF Len(octets) > Inline THEN [is |-> "heap", octets |-> octets]
    ELSE [is |-> "inline", length |-> Len(octets),
          octets |-> [i \in 1 .. Inline |-> IF i \in Touched(Len(octets)) THEN octets[i] ELSE 0]]
SameText(a, b) ==
    IF a.is = "inline" /\ b.is = "inline" THEN a.length = b.length /\ a.octets = b.octets
    ELSE a.is = b.is /\ a.octets = b.octets
AsBytes(text) == IF text.is = "inline" THEN SubSeq(text.octets, 1, text.length) ELSE text.octets

\* An uppercase letter and the lowercase one it becomes.
UpperLetter == Space + 1
LowerLetter == Space + 3
Lower(octet) == IF octet = UpperLetter THEN LowerLetter ELSE octet
Lowered(octets) == [i \in DOMAIN octets |-> Lower(octets[i])]
IsAscii(octets) == \A i \in DOMAIN octets : octets[i] < Radix \div 2

\* String::from_utf8_lossy, where a character beyond ASCII is a lead and an octet that
\* continues it: whatever else is beyond ASCII is replaced, by more than it was.
Lead == Radix - 4
Continues(octet) == octet \in Radix \div 2 .. Lead - 1
Replacement == << Radix - 2, Lead - 1, Lead - 1 >>
Lossy(octets) ==
    FlattenSeq([i \in DOMAIN octets |->
        IF \/ octets[i] < Radix \div 2
           \/ octets[i] = Lead /\ i < Len(octets) /\ Continues(octets[i + 1])
           \/ Continues(octets[i]) /\ i > 1 /\ octets[i - 1] = Lead
        THEN << octets[i] >> ELSE Replacement])

\* The ways to make a text, of which those that are `verified` trust the caller.
FromUtf8Lossy(octets) == TextOf(Lossy(octets))
FromAscii(octets) == IF IsAscii(octets) /\ Len(octets) <= Inline THEN TextOf(octets) ELSE FromUtf8Lossy(octets)
MakeAsciiLowercase(text) ==
    [text EXCEPT !.octets = [i \in DOMAIN @ |-> IF text.is = "heap" \/ i <= text.length THEN Lower(@[i]) ELSE @[i]]]
FromVerifiedAscii(octets) == TextOf(octets)
FromVerifiedAsciiLowercase(octets) == MakeAsciiLowercase(FromVerifiedAscii(octets))
FromAsciiLowercase(octets) ==
    IF IsAscii(octets) THEN FromVerifiedAsciiLowercase(octets) ELSE TextOf(Lowered(Lossy(octets)))

-----------------------------------------------------------------------------
\* HeaderField: which octets a name is made of, and which a value may not be.

TOKEN == 1
LOWERCASE == 2
TokenOctets == {UpperLetter, UpperLetter + 1, LowerLetter}
TOKENS ==
    [octet \in 0 .. Radix - 1 |-> (IF octet \in TokenOctets THEN TOKEN ELSE 0)
                                  + (IF octet \in TokenOctets \ {UpperLetter} THEN LOWERCASE ELSE 0)]
IsName(name) == name # <<>> /\ AllInClass(name, TOKENS, TOKEN)
IsLowercaseName(name) == name # <<>> /\ AllInClass(name, TOKENS, LOWERCASE)
IsValue(value) ==
    /\ value # <<>> => {value[1], value[Len(value)]} \cap {Space, Tab} = {}
    /\ ~Classify(value).control

\* FieldHasher: the words a name is mixed in as, of eight octets each, and its length.
WordOctets == 8
HalfWord == WordOctets \div 2
Widened(octets) == octets \o [i \in 1 .. WordOctets - Len(octets) |-> 0]

\* word and short: the last word, and the halves of a short one, may overlap.
WordOf(bytes, offset) == SubSeq(bytes, offset + 1, offset + WordOctets)
Short(bytes) ==
    LET len == Len(bytes) IN
    CASE len = 0 -> Widened(<<>>)
      [] len \in 1 .. HalfWord - 1 -> Widened(<< bytes[1], bytes[(len \div 2) + 1], bytes[len] >>)
      [] OTHER -> SubSeq(bytes, 1, HalfWord) \o SubSeq(bytes, len - HalfWord + 1, len)
MixedIn(bytes) ==
    LET whole == Len(bytes) \div WordOctets
        words == [i \in 1 .. whole |-> WordOf(bytes, WordOctets * (i - 1))]
    IN  CASE whole = 0 -> << Short(bytes) >>
          [] whole > 0 /\ Len(bytes) % WordOctets = 0 -> words
          [] OTHER -> Append(words, WordOf(bytes, Len(bytes) - WordOctets))

\* Mark and Entry: a mark that matched is confirmed by the name.
Mark(name) == [words |-> MixedIn(name), length |-> Len(name)]
EntryOf(field) == [field |-> field, mark |-> Mark(field.name)]
Named(entry, mark, field) == entry.mark = mark /\ SameText(TextOf(entry.field.name), TextOf(field.name))
Valued(entry, field) == SameText(TextOf(entry.field.value), TextOf(field.value))

-----------------------------------------------------------------------------
\* Buffer: what has arrived and was not taken, and how much room a read is given.

ChunkRamp == 2
MaximumChunkSize == 8

\* with_chunk_size and set_chunk_size.
BufferOf(chunk_size) ==
    LET size == Max({1, Min({chunk_size, MaximumChunkSize})})
    IN  [data |-> <<>>, capacity |-> 0, chunk_size |-> size, chunk |-> Max({1, size \div ChunkRamp})]

\* fill, of a read that gave some octets: no more than there is room for.
Room(buffer) == Max({buffer.capacity, Len(buffer.data) + buffer.chunk}) - Len(buffer.data)
Filled(buffer, octets) ==
    [buffer EXCEPT !.data = @ \o octets, !.capacity = Len(buffer.data) + Room(buffer),
                   !.chunk = IF Len(octets) >= @ THEN Min({2 * @, buffer.chunk_size}) ELSE @]

\* take and consume: what is there, if that is less.
TakenFrom(buffer, count) == SubSeq(buffer.data, 1, Min({count, Len(buffer.data)}))
Consumed(buffer, count) ==
    LET n == Len(TakenFrom(buffer, count))
    IN  [buffer EXCEPT !.data = SubSeq(@, n + 1, Len(@)), !.capacity = @ - n]

\* reclaim: room that one large message left is given back.
Oversized(buffer, idle) == buffer.capacity > idle /\ Len(buffer.data) <= idle \div 2
Reclaimed(buffer, idle) == IF Oversized(buffer, idle) THEN [buffer EXCEPT !.capacity = Len(buffer.data)] ELSE buffer

-----------------------------------------------------------------------------
\* base64: a symbol is its value, or the padding, or one that is none.

SymbolBits == (Bits \div 4) * 3
Symbols == 2^SymbolBits
Pad == Symbols
Foreign == Symbols + 1

Symbol(packed, i) == (packed \div Symbols^(4 - i)) % Symbols
Packed(group) == Sum(LAMBDA i : group[i] * Radix^(3 - i), Len(group))

\* encode: whole groups of three, and one that is padded.
Encoded64(group) ==
    [i \in 1 .. 4 |-> IF i > Len(group) + 1 THEN Pad ELSE Symbol(Packed(group), i)]
Groups(items, n) == [i \in 1 .. (Len(items) + n - 1) \div n |-> SubSeq(items, n * (i - 1) + 1, Min({n * i, Len(items)}))]
Encode64(octets) == FlattenSeq([i \in DOMAIN Groups(octets, 3) |-> Encoded64(Groups(octets, 3)[i])])

\* What a group of symbols holds, padded or not.
Value64(group) == Sum(LAMBDA i : (IF group[i] = Pad THEN 0 ELSE group[i]) * Symbols^(4 - i), 4)
Octets64(group, n) == [i \in 1 .. n |-> (Value64(group) \div Radix^(3 - i)) % Radix]
PadsOf(group) == Cardinality({i \in DOMAIN group : group[i] = Pad})

\* Faulty: the bits that padding leaves over may be anything.
LastGroupAnyBits(group) ==
    LET pads == PadsOf(group) IN
    pads <= 2 /\ \A i \in 1 .. 4 - pads : group[i] < Symbols

\* The last group: padding at its end only, whose bits over are zero.
LastGroup(group) ==
    LET pads == PadsOf(group) IN
    /\ pads <= 2 /\ \A i \in 1 .. 4 - pads : group[i] < Symbols
    /\ Value64(group) % Radix^pads = 0

\* decode
Refused64 == [is |-> "refused"]
Decode64(text) ==
    LET groups == Groups(text, 4)
        last == Len(groups)
    IN  IF \/ Len(text) % 4 # 0
           \/ \E i \in 1 .. last - 1 : \E j \in 1 .. 4 : groups[i][j] >= Symbols
           \/ last > 0 /\ ~LastGroup(groups[last])
        THEN Refused64
        ELSE [is |-> "octets",
              octets |-> FlattenSeq([i \in 1 .. last |-> Octets64(groups[i], 3 - PadsOf(groups[i]))])]

-----------------------------------------------------------------------------
\* sha1: what compress is given, block by block.

Hash == [block |-> [i \in 1 .. Block |-> 0], filled |-> 0, blocks |-> <<>>, length |-> 0]

\* The block held, written over from some octet on: what was there beyond stays.
WrittenAt(block, from, octets) ==
    [i \in 1 .. Block |-> IF i \in from + 1 .. from + Len(octets) THEN octets[i - from] ELSE block[i]]

\* Faulty: a block that is full is compressed, and held still.
ToppedUnreset(hash, input) ==
    LET taken == Min({Block - hash.filled, Len(input)})
        block == WrittenAt(hash.block, hash.filled, SubSeq(input, 1, taken))
    IN  IF hash.filled = 0 THEN hash
        ELSE [hash EXCEPT !.block = block, !.filled = @ + taken,
                          !.blocks = IF hash.filled + taken = Block THEN Append(@, block) ELSE @]

\* update: what tops up the block held, ...
Topped(hash, input) ==
    IF hash.filled = 0 THEN hash
    ELSE LET taken == Min({Block - hash.filled, Len(input)})
             block == WrittenAt(hash.block, hash.filled, SubSeq(input, 1, taken))
             full == hash.filled + taken = Block
         IN  [hash EXCEPT !.block = block, !.filled = IF full THEN 0 ELSE @ + taken,
                          !.blocks = IF full THEN Append(@, block) ELSE @]

\* ... then whole blocks from where they lie, and the rest is held.
Compressed(hash, input) ==
    LET whole == Len(input) \div Block
        rest == SubSeq(input, Block * whole + 1, Len(input))
    IN  [hash EXCEPT !.blocks = @ \o SubSeq(Groups(input, Block), 1, whole),
                     !.block = WrittenAt(@, 0, rest), !.filled = Len(rest)]

Update(hash, input) ==
    LET counted == [hash EXCEPT !.length = @ + 8 * Len(input)]
        topped == Topped(counted, input)
        taken == IF hash.filled = 0 THEN 0 ELSE Min({Block - hash.filled, Len(input)})
    IN  IF topped.filled > 0 THEN topped
        ELSE Compressed(topped, SubSeq(input, taken + 1, Len(input)))

\* Faulty: a length that just fits is taken not to.
ZeroesOver(filled) == Block - Suffix - ((filled + 1) % Block)

\* How many zeroes bring what is filled, the mark and the length to whole blocks.
Zeroes(filled) == (Block + Block - Suffix - ((filled + 1) % Block)) % Block

\* finish: the mark, zeroes and the length.
Finish(hash) ==
    Update(hash, << "mark" >> \o [i \in 1 .. Zeroes(hash.filled) |-> "zero"]
                    \o [i \in 1 .. Suffix |-> << "length", hash.length, i >>])

\* extend: a word of the schedule, in a ring of Schedule words.
Schedule == 16
RotatedLeft(word, by) == ((word * 2^by) % Radix) + (word \div 2^(Bits - by))
Extend(words, round) ==
    LET Slot(n) == words[((round + n) % Schedule) + 1]
    IN  IF round < Schedule THEN words
        ELSE [words EXCEPT ![(round % Schedule) + 1] =
                RotatedLeft(((Slot(13) ^^ Slot(8)) ^^ Slot(2)) ^^ Slot(0), 1)]

=============================================================================
