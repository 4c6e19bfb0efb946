------------------------------- MODULE HPACK -------------------------------
(***************************************************************************)
(* One direction of HPACK (src/helpers/hpack.rs): an Encoder, the Decoder  *)
(* its blocks reach in order, and the SETTINGS with which the decoder's    *)
(* end bounds the table, acknowledged among the blocks.                    *)
(*                                                                         *)
(* The end of the decoder takes a higher bound at once and a lower one     *)
(* when it is acknowledged, as RFC 9113 has it; an H2Connection of this    *)
(* crate advertises one bound, and hears any number of them.               *)
(***************************************************************************)
EXTENDS FieldTable

CONSTANTS
    Default,        \* DEFAULT_CAPACITY
    Limits,         \* the capacity limits an encoder may be built with
    Capacities,     \* what the decoder's end may advertise
    Lists,          \* the field lists that are sent
    MaxBlocks,      \* bound: so many blocks
    MaxSettings     \* bound: so many SETTINGS

ASSUME HPACKAssumption ==
    /\ Default \in Nat /\ Limits \cup Capacities \subseteq Nat
    /\ Lists \subseteq Seq(Fields) /\ {MaxBlocks, MaxSettings} \subseteq Nat

VARIABLES
    encoder,    \* the table, the peer's bound and the own, and the update that is due
    decoder,    \* the table and its bound
    pipe,       \* blocks and acknowledgements on their way to the decoder
    settings,   \* bounds on their way to the encoder
    blocks, advertised,
    outcome     \* what came of the last block, with what had been sent

vars == << encoder, decoder, pipe, settings, blocks, advertised, outcome >>

None == -1

\* A field that does not fit at all empties the table.
Insert(t, f) == IF Fits(t, f) THEN Push(t, f) ELSE Evicted(t, Len(t.entries))

-----------------------------------------------------------------------------
\* References: to the static table, to so many insertions back, or a literal.
InStatic(f) == [table |-> "static", of |-> f]
Back(t, i) == [table |-> "dynamic", back |-> Inserted(t) - 1 - i]
Literal(name) == [table |-> "none", of |-> name]

Indexed(ref) == [kind |-> "indexed", ref |-> ref]
WithValue(kind, ref, value) == [kind |-> kind, ref |-> ref, value |-> value]
Update(capacity) == [kind |-> "update", capacity |-> capacity]

\* The most recent of the entries that match.
Latest(t, matches) == Back(t, CHOOSE i \in matches : \A j \in matches : j <= i)

\* The reference to a name alone; a static one comes first.
NameOf(t, f) ==
    LET named == Named(t, f, Inserted(t)) IN
    IF f.name \in StaticNames THEN [table |-> "static", of |-> f.name]
    ELSE IF named # {} THEN Latest(t, named) ELSE Literal(f.name)

\* encode_field: how a field goes out, and the table it leaves.
EncodeField(t, f) ==
    LET exact == Exact(t, f, Inserted(t)) IN
    CASE f \in Static -> [out |-> Indexed(InStatic(f)), table |-> t]
      [] f \notin Static /\ exact # {} -> [out |-> Indexed(Latest(t, exact)), table |-> t]
      [] f \notin Static /\ exact = {} /\ f.name \in Sensitive ->
            [out |-> WithValue("never", NameOf(t, f), f.value), table |-> t]
      [] OTHER -> [out |-> WithValue("insert", NameOf(t, f), f.value), table |-> Insert(t, f)]

\* encode_into, after the update that leads the block.
EncodeAll(t, fields) ==
    FoldLeft(LAMBDA done, f :
                LET one == EncodeField(done.table, f) IN
                [out |-> Append(done.out, one.out), table |-> one.table],
             [out |-> <<>>, table |-> t], fields)

-----------------------------------------------------------------------------
\* resolve: the entries a reference is to, as a set of one or none.
Resolve(t, ref) ==
    CASE ref.table = "static" -> {ref.of}
      [] ref.table = "dynamic" -> IF ref.back < Len(t.entries) THEN {At(t, Inserted(t) - 1 - ref.back)} ELSE {}
      [] OTHER -> {}

\* decode_literal: the field a name reference and a value make.
FieldOf(t, rep) ==
    IF rep.ref.table = "none" THEN {[name |-> rep.ref.of, value |-> rep.value]}
    ELSE IF rep.ref.table = "static" THEN {[name |-> rep.ref.of, value |-> rep.value]}
    ELSE {[name |-> f.name, value |-> rep.value] : f \in Resolve(t, rep.ref)}

FailedAt(done) == [done EXCEPT !.failed = TRUE]
Joined(done, fields, t) ==
    IF fields = {} THEN FailedAt(done)
    ELSE [done EXCEPT !.fields = @ \o SetToSeq(fields), !.table = t]

\* decode_into, of one representation.
DecodeOne(max, done, rep) ==
    LET t == done.table IN
    CASE done.failed -> done
      [] ~done.failed /\ rep.kind = "update" ->
            IF rep.capacity > max THEN FailedAt(done) ELSE [done EXCEPT !.table = SetCapacity(@, rep.capacity)]
      [] ~done.failed /\ rep.kind = "indexed" -> Joined(done, Resolve(t, rep.ref), t)
      [] ~done.failed /\ rep.kind = "never" -> Joined(done, FieldOf(t, rep), t)
      [] OTHER -> IF FieldOf(t, rep) = {} THEN FailedAt(done)
                  ELSE Joined(done, FieldOf(t, rep), Insert(t, CHOOSE f \in FieldOf(t, rep) : TRUE))

DecodeAll(t, max, reps) ==
    FoldLeft(LAMBDA done, rep : DecodeOne(max, done, rep),
             [fields |-> <<>>, table |-> t, failed |-> FALSE], reps)

-----------------------------------------------------------------------------
Quiet == [sent |-> <<>>, fields |-> <<>>, failed |-> FALSE]

Encode(fields) ==
    LET all == EncodeAll(encoder.table, fields)
        lead == IF encoder.pending = None THEN <<>> ELSE << Update(encoder.pending) >>
    IN  /\ blocks < MaxBlocks /\ blocks' = blocks + 1
        /\ encoder' = [encoder EXCEPT !.table = all.table, !.pending = None]
        /\ pipe' = Append(pipe, [kind |-> "block", reps |-> lead \o all.out, fields |-> fields])
        /\ UNCHANGED << decoder, settings, advertised, outcome >>

\* Faulty: only a table that shrank is announced.
BoundedAnnouncing(e, capacity) ==
    [e EXCEPT !.table = SetCapacity(@, capacity), !.pending = IF capacity < e.table.capacity THEN capacity ELSE @]

\* set_max_capacity of the encoder: the table under the lower of two bounds.
Bounded(e, capacity) == [e EXCEPT !.table = SetCapacity(@, capacity), !.pending = capacity]

\* The SETTINGS of the decoder's end arrive, and are acknowledged.
Hear ==
    /\ settings # <<>>
    /\ encoder' = Bounded([encoder EXCEPT !.max = Head(settings)],
                          IF Head(settings) < encoder.limit THEN Head(settings) ELSE encoder.limit)
    /\ pipe' = Append(pipe, [kind |-> "ack", max |-> Head(settings)])
    /\ settings' = Tail(settings)
    /\ UNCHANGED << decoder, blocks, advertised, outcome >>

\* Faulty: the bound is kept, and the table is as large as it was.
DecoderBoundedLater(d, max) == [d EXCEPT !.max = max]

\* set_max_capacity of the decoder.
DecoderBounded(d, max) ==
    [d EXCEPT !.max = max, !.table = IF @.capacity > max THEN SetCapacity(@, max) ELSE @]

Advertise(capacity) ==
    /\ advertised < MaxSettings /\ advertised' = advertised + 1
    /\ settings' = Append(settings, capacity)
    /\ decoder' = IF capacity > decoder.max THEN DecoderBounded(decoder, capacity) ELSE decoder
    /\ UNCHANGED << encoder, pipe, blocks, outcome >>

Deliver ==
    /\ pipe # <<>> /\ ~outcome.failed
    /\ pipe' = Tail(pipe)
    /\ IF Head(pipe).kind = "ack"
       THEN decoder' = DecoderBounded(decoder, Head(pipe).max) /\ UNCHANGED outcome
       ELSE LET done == DecodeAll(decoder.table, decoder.max, Head(pipe).reps) IN
            /\ decoder' = [decoder EXCEPT !.table = done.table]
            /\ outcome' = [sent |-> Head(pipe).fields, fields |-> done.fields, failed |-> done.failed]
    /\ UNCHANGED << encoder, settings, blocks, advertised >>

\* set_capacity_limit, of an encoder that is new.
New(limit) ==
    LET new == [table |-> EmptyTable(Default), max |-> Default, limit |-> limit, pending |-> None]
    IN  IF Default > limit THEN Bounded(new, limit) ELSE new

Init ==
    /\ \E limit \in Limits : encoder = New(limit)
    /\ decoder = [table |-> EmptyTable(Default), max |-> Default]
    /\ pipe = <<>> /\ settings = <<>> /\ blocks = 0 /\ advertised = 0 /\ outcome = Quiet

Next ==
    \/ \E fields \in Lists : Encode(fields)
    \/ \E capacity \in Capacities : Advertise(capacity)
    \/ Hear \/ Deliver

Spec == Init /\ [][Next]_vars

-----------------------------------------------------------------------------
\* The encoder holds the table "as the encoder believes the peer's decoder holds
\* it": once nothing is on its way or due the two are the same, and before an
\* update is sent its entries are the most recent of the decoder's; neither is
\* over its bound.
Aligned ==
    /\ Held(encoder.table.entries) <= encoder.table.capacity
    /\ encoder.table.capacity <= encoder.limit
    /\ Held(decoder.table.entries) <= decoder.table.capacity
    /\ decoder.table.capacity <= decoder.max
    /\ pipe = <<>> => IF encoder.pending = None THEN encoder.table.entries = decoder.table.entries
                      ELSE IsSuffix(encoder.table.entries, decoder.table.entries)

\* Every block decodes to the fields it was made of, whatever was evicted,
\* resized and announced since the entries it refers to were inserted, by tables
\* that stay aligned.
Sound == ~outcome.failed /\ outcome.fields = outcome.sent /\ Aligned
=============================================================================
