------------------------------ MODULE Huffman ------------------------------
(***************************************************************************)
(* The Huffman code of HPACK and QPACK (src/helpers/huffman.rs) with its   *)
(* own table: encoding, the decoder that looks code words up by their      *)
(* value, and the automaton that takes four bits at a time, of which the   *)
(* code says that they "accept exactly the same encodings".                *)
(*                                                                         *)
(* Octets are numbers.  Bits are sequences, of which the code keeps the    *)
(* next sixty-four in a word.  Strings as HPACK and QPACK write them       *)
(* (StringLiteral, src/helpers/fields.rs) are at the end.                  *)
(***************************************************************************)
EXTENDS Integers, Sequences, SequencesExt, FiniteSetsExt

\* TABLE: a code word and its length for each octet, and for EOS.
Lower == <<
    <<8184, 13>>, <<8388568, 23>>, <<268435426, 28>>, <<268435427, 28>>, <<268435428, 28>>, <<268435429, 28>>,
    <<268435430, 28>>, <<268435431, 28>>, <<268435432, 28>>, <<16777194, 24>>, <<1073741820, 30>>,
    <<268435433, 28>>, <<268435434, 28>>, <<1073741821, 30>>, <<268435435, 28>>, <<268435436, 28>>,
    <<268435437, 28>>, <<268435438, 28>>, <<268435439, 28>>, <<268435440, 28>>, <<268435441, 28>>,
    <<268435442, 28>>, <<1073741822, 30>>, <<268435443, 28>>, <<268435444, 28>>, <<268435445, 28>>,
    <<268435446, 28>>, <<268435447, 28>>, <<268435448, 28>>, <<268435449, 28>>, <<268435450, 28>>,
    <<268435451, 28>>, <<20, 6>>, <<1016, 10>>, <<1017, 10>>, <<4090, 12>>, <<8185, 13>>, <<21, 6>>,
    <<248, 8>>, <<2042, 11>>, <<1018, 10>>, <<1019, 10>>, <<249, 8>>, <<2043, 11>>, <<250, 8>>, <<22, 6>>,
    <<23, 6>>, <<24, 6>>, <<0, 5>>, <<1, 5>>, <<2, 5>>, <<25, 6>>, <<26, 6>>, <<27, 6>>, <<28, 6>>, <<29, 6>>,
    <<30, 6>>, <<31, 6>>, <<92, 7>>, <<251, 8>>, <<32764, 15>>, <<32, 6>>, <<4091, 12>>, <<1020, 10>>,
    <<8186, 13>>, <<33, 6>>, <<93, 7>>, <<94, 7>>, <<95, 7>>, <<96, 7>>, <<97, 7>>, <<98, 7>>, <<99, 7>>,
    <<100, 7>>, <<101, 7>>, <<102, 7>>, <<103, 7>>, <<104, 7>>, <<105, 7>>, <<106, 7>>, <<107, 7>>,
    <<108, 7>>, <<109, 7>>, <<110, 7>>, <<111, 7>>, <<112, 7>>, <<113, 7>>, <<114, 7>>, <<252, 8>>,
    <<115, 7>>, <<253, 8>>, <<8187, 13>>, <<524272, 19>>, <<8188, 13>>, <<16380, 14>>, <<34, 6>>,
    <<32765, 15>>, <<3, 5>>, <<35, 6>>, <<4, 5>>, <<36, 6>>, <<5, 5>>, <<37, 6>>, <<38, 6>>, <<39, 6>>,
    <<6, 5>>, <<116, 7>>, <<117, 7>>, <<40, 6>>, <<41, 6>>, <<42, 6>>, <<7, 5>>, <<43, 6>>, <<118, 7>>,
    <<44, 6>>, <<8, 5>>, <<9, 5>>, <<45, 6>>, <<119, 7>>, <<120, 7>>, <<121, 7>>, <<122, 7>>, <<123, 7>>,
    <<32766, 15>>, <<2044, 11>>, <<16381, 14>>, <<8189, 13>>, <<268435452, 28>> >>

Upper == <<
    <<1048550, 20>>, <<4194258, 22>>, <<1048551, 20>>, <<1048552, 20>>, <<4194259, 22>>, <<4194260, 22>>,
    <<4194261, 22>>, <<8388569, 23>>, <<4194262, 22>>, <<8388570, 23>>, <<8388571, 23>>, <<8388572, 23>>,
    <<8388573, 23>>, <<8388574, 23>>, <<16777195, 24>>, <<8388575, 23>>, <<16777196, 24>>, <<16777197, 24>>,
    <<4194263, 22>>, <<8388576, 23>>, <<16777198, 24>>, <<8388577, 23>>, <<8388578, 23>>, <<8388579, 23>>,
    <<8388580, 23>>, <<2097116, 21>>, <<4194264, 22>>, <<8388581, 23>>, <<4194265, 22>>, <<8388582, 23>>,
    <<8388583, 23>>, <<16777199, 24>>, <<4194266, 22>>, <<2097117, 21>>, <<1048553, 20>>, <<4194267, 22>>,
    <<4194268, 22>>, <<8388584, 23>>, <<8388585, 23>>, <<2097118, 21>>, <<8388586, 23>>, <<4194269, 22>>,
    <<4194270, 22>>, <<16777200, 24>>, <<2097119, 21>>, <<4194271, 22>>, <<8388587, 23>>, <<8388588, 23>>,
    <<2097120, 21>>, <<2097121, 21>>, <<4194272, 22>>, <<2097122, 21>>, <<8388589, 23>>, <<4194273, 22>>,
    <<8388590, 23>>, <<8388591, 23>>, <<1048554, 20>>, <<4194274, 22>>, <<4194275, 22>>, <<4194276, 22>>,
    <<8388592, 23>>, <<4194277, 22>>, <<4194278, 22>>, <<8388593, 23>>, <<67108832, 26>>, <<67108833, 26>>,
    <<1048555, 20>>, <<524273, 19>>, <<4194279, 22>>, <<8388594, 23>>, <<4194280, 22>>, <<33554412, 25>>,
    <<67108834, 26>>, <<67108835, 26>>, <<67108836, 26>>, <<134217694, 27>>, <<134217695, 27>>,
    <<67108837, 26>>, <<16777201, 24>>, <<33554413, 25>>, <<524274, 19>>, <<2097123, 21>>, <<67108838, 26>>,
    <<134217696, 27>>, <<134217697, 27>>, <<67108839, 26>>, <<134217698, 27>>, <<16777202, 24>>,
    <<2097124, 21>>, <<2097125, 21>>, <<67108840, 26>>, <<67108841, 26>>, <<268435453, 28>>,
    <<134217699, 27>>, <<134217700, 27>>, <<134217701, 27>>, <<1048556, 20>>, <<16777203, 24>>,
    <<1048557, 20>>, <<2097126, 21>>, <<4194281, 22>>, <<2097127, 21>>, <<2097128, 21>>, <<8388595, 23>>,
    <<4194282, 22>>, <<4194283, 22>>, <<33554414, 25>>, <<33554415, 25>>, <<16777204, 24>>, <<16777205, 24>>,
    <<67108842, 26>>, <<8388596, 23>>, <<67108843, 26>>, <<134217702, 27>>, <<67108844, 26>>,
    <<67108845, 26>>, <<134217703, 27>>, <<134217704, 27>>, <<134217705, 27>>, <<134217706, 27>>,
    <<134217707, 27>>, <<268435454, 28>>, <<134217708, 27>>, <<134217709, 27>>, <<134217710, 27>>,
    <<134217711, 27>>, <<134217712, 27>>, <<67108846, 26>>, <<1073741823, 30>> >>

EOS == 256
Table == [symbol \in 0 .. EOS |-> IF symbol < 128 THEN Lower[symbol + 1] ELSE Upper[symbol - 127]]
Code(symbol) == Table[symbol][1]
Length(symbol) == Table[symbol][2]

BitsOf(value, n) == [i \in 1 .. n |-> (value \div 2^(n - i)) % 2]
Value(bits) == FoldLeft(LAMBDA value, bit : 2 * value + bit, 0, bits)
Ones(n) == [i \in 1 .. n |-> 1]
First(bits, n) == SubSeq(bits, 1, n)
Rest(bits, n) == SubSeq(bits, n + 1, Len(bits))

BitsIn(octets) == FlattenSeq([i \in DOMAIN octets |-> BitsOf(octets[i], 8)])

-----------------------------------------------------------------------------
\* Encoding.

\* encoded_len
EncodedLength(octets) ==
    (FoldLeft(LAMBDA sum, octet : sum + Length(octet), 0, octets) + 7) \div 8

\* Faulty: padded with zeros.
EncodeZeros(octets) ==
    LET bits == FlattenSeq([i \in DOMAIN octets |-> BitsOf(Code(octets[i]), Length(octets[i]))])
        padded == bits \o [i \in 1 .. (-Len(bits)) % 8 |-> 0]
    IN  [i \in 1 .. Len(padded) \div 8 |-> Value(SubSeq(padded, 8 * i - 7, 8 * i))]

\* encode: padded with ones to a whole octet (the 64-bit accumulator it goes through is not kept).
Encode(octets) ==
    LET bits == FlattenSeq([i \in DOMAIN octets |-> BitsOf(Code(octets[i]), Length(octets[i]))])
        padded == bits \o Ones((-Len(bits)) % 8)
    IN  [i \in 1 .. Len(padded) \div 8 |-> Value(SubSeq(padded, 8 * i - 7, 8 * i))]

-----------------------------------------------------------------------------
\* Canonical: the code by the lengths and values of its words.

MaxBits == 30
FastBits == 8
PairBits == 12
PairMost == PairBits \div 5

\* How many code words of each length there are, and the first and the last of
\* them, of which only the counts are taken from the table.
OfLength(n) == {symbol \in 0 .. EOS : Length(symbol) = n}
Count == [n \in 1 .. MaxBits |-> Cardinality(OfLength(n))]
Base[n \in 1 .. MaxBits] == IF n = 1 THEN 0 ELSE 2 * (Base[n - 1] + Count[n - 1])
LastCode(n) == Base[n] + Count[n] - 1

\* `symbols` and `offset`: the symbols of a length in order.
Ordered == [n \in 1 .. MaxBits |-> [i \in 1 .. Count[n] |->
                CHOOSE symbol \in OfLength(n) : Cardinality({s \in OfLength(n) : s < symbol}) = i - 1]]

\* Whether a window is past the words of a length, or of the next below it that
\* has any (limit).
Past(window, n) ==
    LET least == Max({m \in 1 .. n : Count[m] # 0}) IN
    Value(First(window, least)) > LastCode(least)

\* From a length on, the first that a window is not past.
LengthFrom(window, n) == Min({m \in n .. MaxBits : m = MaxBits \/ ~Past(window, m)})
Spelled(window, n) == [symbol |-> Ordered[n][Value(First(window, n)) - Base[n] + 1], length |-> n]

\* long, and `fast` by the first eight bits.
Long(window) == Spelled(window, LengthFrom(window, FastBits + 1))
NoWord == [symbol |-> 0, length |-> 0]
Fast == [index \in 0 .. 2^FastBits - 1 |->
            LET bits == BitsOf(index, FastBits)
                words == {symbol \in 0 .. EOS : Length(symbol) <= FastBits
                                                /\ Value(First(bits, Length(symbol))) = Code(symbol)}
            IN  IF words = {} THEN NoWord
                ELSE LET symbol == CHOOSE s \in words : TRUE IN [symbol |-> symbol, length |-> Length(symbol)]]

\* symbol
Entry(entry, window) == IF entry.length = 0 THEN Long(window) ELSE entry
Word(window) == Entry(Fast[Value(First(window, FastBits))], window)

\* `pairs`: the whole words, PairMost at most, that the first bits spell.
Taken(pair, word) ==
    IF Len(pair.symbols) = PairMost \/ pair.used + word.length > PairBits THEN pair
    ELSE [pair EXCEPT !.symbols = Append(@, word.symbol), !.used = @ + word.length]
Extended(pair) == Taken(pair, Word(Rest(pair.bits, pair.used) \o [i \in 1 .. MaxBits |-> 0]))
Pair(index) == Extended(Extended([bits |-> BitsOf(index, PairBits), used |-> 0, symbols |-> <<>>]))

InvalidPadding == [is |-> "padding"]

\* Bits: the next of them, the first `held` of which count.  What is beyond may
\* be bits of octets that are not taken yet, until fill clears it.
Width == 64
Zeros(n) == [i \in 1 .. n |-> 0]
Bits(octets) == [input |-> octets, window |-> Zeros(Width), held |-> 0]
Counted(bits) == First(bits.window, bits.held)

\* fill: from eight octets at once, or one by one.
Fill(bits) ==
    LET taken == Min({Len(bits.input), (Width - bits.held) \div 8})
        seen == IF Len(bits.input) >= 8 THEN First(bits.input, 8) ELSE First(bits.input, taken)
    IN  [input |-> Rest(bits.input, taken), held |-> bits.held + 8 * taken,
         window |-> First(Counted(bits) \o BitsIn(seen) \o Zeros(Width), Width)]

TakeBits(bits, n) == [bits EXCEPT !.window = Rest(@, n) \o Zeros(n), !.held = @ - n]
Padded(bits) == Counted(bits) \o Ones(Width - bits.held)
IsPadding(bits) == bits.held < 8 /\ Counted(bits) = Ones(bits.held)

\* decode_into_ascii: pairs of words while a whole word is sure to be there, and
\* then words that have to end where the bits do.
RECURSIVE Decoded(_, _)
Decoded(bits, out) ==
    LET pair == Pair(Value(First(bits.window, PairBits)))
        sure == bits.held >= MaxBits
        word == IF sure THEN Long(bits.window) ELSE Word(Padded(bits))
    IN  CASE ~sure /\ bits.input # <<>> -> Decoded(Fill(bits), out)
          [] ~sure /\ bits.input = <<>> /\ IsPadding(bits) -> [is |-> "text", octets |-> out]
          [] sure /\ pair.used # 0 -> Decoded(TakeBits(bits, pair.used), out \o pair.symbols)
          [] OTHER ->
                IF word.length > bits.held \/ word.symbol = EOS THEN InvalidPadding
                ELSE Decoded(TakeBits(bits, word.length), Append(out, word.symbol))

Decode(octets) == Decoded(Bits(octets), <<>>)

-----------------------------------------------------------------------------
\* DecodeTable: a node is the bits that lead to it from the root.

Words == [symbol \in 0 .. EOS |-> BitsOf(Code(symbol), Length(symbol))]
SymbolOf == [word \in Range(Words) |-> CHOOSE symbol \in 0 .. EOS : Words[symbol] = word]
Nodes == UNION {{First(word, n) : n \in 0 .. Len(word) - 1} : word \in Range(Words)}

\* One bit out of a node, unless what came before was the end (step).
Branch(state, bit) ==
    LET next == Append(state.node, bit) IN
    IF state.is # "on" THEN state
    ELSE IF next \in Nodes THEN [state EXCEPT !.node = next]
    ELSE IF next \notin DOMAIN SymbolOf THEN [state EXCEPT !.is = "fail"]
    ELSE IF SymbolOf[next] = EOS THEN [state EXCEPT !.is = "ended"]
    ELSE [state EXCEPT !.node = <<>>, !.out = Append(@, SymbolOf[next])]

\* Two rows of transitions, which are those of an octet.
Start == [is |-> "on", node |-> <<>>, out |-> <<>>]
Transition(state, octet) == FoldLeft(Branch, state, BitsOf(octet, 8))

\* Faulty: an octet of padding may follow.
AcceptingMore(node) == node = Ones(Len(node)) /\ Len(node) <= 8

\* accepting: the all-ones path, as far as padding goes.
Accepting(node) == node = Ones(Len(node)) /\ Len(node) <= 7
Result(state) ==
    IF state.is = "on" /\ Accepting(state.node) THEN [is |-> "text", octets |-> state.out] ELSE InvalidPadding

-----------------------------------------------------------------------------
\* StringLiteral: a length, under the mark that says whether Huffman code follows.
\* Flags lie above the mark.

Lengths == INSTANCE WireInteger WITH Width <- 14, Group <- 7

MaxPrefixBits == 7
PrefixOf(prefix_bits) == Min({prefix_bits, MaxPrefixBits})
HuffmanMark(prefix_bits) == 2^PrefixOf(prefix_bits)

\* Integer::encode, as octets.
LengthOctets(length, prefix, flags) ==
    LET wire == Lengths!Encode(length, prefix) IN
    << flags + wire.first >>
    \o [i \in DOMAIN wire.groups |-> wire.groups[i].bits + (IF wire.groups[i].more THEN 128 ELSE 0)]

EncodeString(value, prefix_bits, flags, huffman) ==
    IF huffman
    THEN LengthOctets(EncodedLength(value), PrefixOf(prefix_bits), flags + HuffmanMark(prefix_bits)) \o Encode(value)
    ELSE LengthOctets(Len(value), PrefixOf(prefix_bits), flags) \o value

PrefersHuffman(value) == EncodedLength(value) < Len(value)
EncodeShorter(value, prefix_bits, flags) == EncodeString(value, prefix_bits, flags, PrefersHuffman(value))

\* Integer::decode, from octets of which the first has the mark and flags in it.
LengthAt(input, prefix) ==
    Lengths!Decode([first |-> input[1] % 2^prefix,
                    groups |-> [i \in 1 .. Len(input) - 1 |-> [bits |-> input[i + 1] % 128, more |-> input[i + 1] >= 128]]],
                   prefix)

\* decode_into_ascii: what is read, of how many octets, and whether it is ASCII.
Incomplete == [is |-> "incomplete"]
StringAt(input, huffman, from, end) ==
    LET octets == SubSeq(input, from, end)
        text == IF huffman THEN Decode(octets) ELSE [is |-> "text", octets |-> octets]
    IN  CASE end > Len(input) -> Incomplete
          [] end <= Len(input) /\ text.is # "text" -> text
          [] OTHER -> [is |-> "text", octets |-> text.octets, size |-> end,
                       ascii |-> \A i \in DOMAIN text.octets : text.octets[i] < 128]
DecodeString(input, prefix_bits) ==
    LET length == LengthAt(input, PrefixOf(prefix_bits))
        huffman == (input[1] \div HuffmanMark(prefix_bits)) % 2 = 1
    IN  CASE input = <<>> -> Incomplete
          [] input # <<>> /\ length.is # "done" -> [is |-> length.is]
          [] OTHER -> StringAt(input, huffman, length.consumed + 1, length.consumed + length.value)
=============================================================================
