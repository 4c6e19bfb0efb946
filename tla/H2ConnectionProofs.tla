------------------------- MODULE H2ConnectionProofs -------------------------
(***************************************************************************)
(* What every action of one end of an HTTP/2 connection keeps, whoever the *)
(* peer is: the type of its state, which streams it may add, and which     *)
(* frames it may queue.  Each action is shown to be Lawful, and a lawful   *)
(* step to keep H2Inv; the modules that drive an end build on both.        *)
(***************************************************************************)
EXTENDS H2Connection, FiniteSetTheorems, SequenceTheorems, TLAPS

\* What a stream may be, and the streams of an end: finitely many, by number.
AnyStream ==
    [state : States, recv : Int, send : Int, head : Nat, body : Nat, headers : {"none"} \cup Kinds,
     trailers : BOOLEAN, method : {"none"} \cup Requests, abandoned : BOOLEAN]

Streams == UNION {[ids -> AnyStream] : ids \in {x \in SUBSET Nat : IsFiniteSet(x)}}

\* The errors that end an operation and leave nothing but to close (Failed).
Fatal == {"protocol", "limit", "closed", "timeout"}

\* What an end may be.
Connection ==
    [streams : Streams, recvWindow : Nat, sendWindow : Int, peerWindow : Nat, ceiling : Nat,
     nextId : Nat, highest : Nat, started : BOOLEAN, goaway : BOOLEAN, ready : Seq(AnyMessage),
     bound : Nat, premature : Nat, idle : Nat,
     gathering : {None} \cup [id : Nat, kind : Kinds, end : BOOLEAN, frames : Nat],
     task : {"idle", "receive", "send"}, sending : {None} \cup AnyMessage, rest : Nat,
     returned : {None} \cup AnyMessage, error : {"none", "stream", "refused"} \cup Fatal,
     open : BOOLEAN]

\* How the fields of an end agree: a failed operation is over, a body being
\* written has its message, and a field block that was begun is on a stream that
\* is there, and ends before the task does anything else; while it does, a body
\* that waits for credit stays without.
Steady(c) ==
    /\ c.error \in Fatal => c.task = "idle"
    /\ c.task = "send" => c.sending \in AnyMessage
    /\ c.gathering # None =>
        /\ c.gathering.id \in DOMAIN c.streams
        /\ c.task = "idle" => c.error \in Fatal
        /\ c.task = "send" => c.sending.id \in DOMAIN c.streams /\ Window(c) <= 0

\* A stream new in `c` has a number not used before: past the highest of the
\* peer's, or past the last of this end's.
Newly(e, c, id) ==
    IF PeerOpens(e, id) THEN conn[e].highest < id /\ id <= c.highest
    ELSE conn[e].nextId <= id /\ id < c.nextId

\* What an end may become in one step.
Growing(e, c) ==
    /\ c \in Connection
    /\ conn[e].highest <= c.highest
    /\ conn[e].nextId <= c.nextId /\ ~PeerOpens(e, c.nextId)
    /\ \A id \in DOMAIN c.streams \ DOMAIN conn[e].streams : Newly(e, c, id)

Onward(e, c) == Growing(e, c) /\ Steady(c)

\* Frames that say something on a stream, a reset apart.
Speaks(f) == f.type \in {"HEADERS", "CONTINUATION", "DATA", "WINDOW"}

\* What a frame queued in the step to `c` tells: a reset, that the stream was
\* there and is not; any other frame of a stream, that the stream was there or
\* that this end opens it now.
Truthful(e, c, f) ==
    /\ f.type = "RST" => f.id \in DOMAIN conn[e].streams /\ f.id \notin DOMAIN c.streams
    /\ Speaks(f) => \/ f.id \in DOMAIN conn[e].streams
                    \/ f.id = 0
                    \/ conn[e].nextId <= f.id /\ f.id < c.nextId /\ ~PeerOpens(e, f.id)

AllTruthful(e, c, frames) ==
    frames \in Seq(AnyFrame) /\ \A i \in DOMAIN frames : Truthful(e, c, frames[i])

\* A step of `e` alone, to what it may become, queueing what it may say.
Lawful(e) ==
    /\ conn' = [conn EXCEPT ![e] = conn'[e]]
    /\ out' = [x \in Endpoints |-> IF x = e THEN out'[e] ELSE <<>>]
    /\ Onward(e, conn'[e])
    /\ AllTruthful(e, conn'[e], out'[e])

\* Every stream was begun with a number of its side's, already counted.
Ids(e) ==
    /\ conn[e].nextId > 0 /\ ~PeerOpens(e, conn[e].nextId)
    /\ \A id \in DOMAIN conn[e].streams :
        /\ id > 0
        /\ IF PeerOpens(e, id) THEN id <= conn[e].highest ELSE id < conn[e].nextId

\* The inductive invariant of an end.
H2Inv ==
    /\ conn \in [Endpoints -> Connection]
    /\ out \in [Endpoints -> Seq(AnyFrame)]
    /\ \A e \in Endpoints : Steady(conn[e]) /\ Ids(e)

\* A map of streams, told apart from the set of such maps.
LEMMA StreamsMeaning ==
    ASSUME NEW streams
    PROVE  streams \in Streams <=>
            /\ DOMAIN streams \subseteq Nat /\ IsFiniteSet(DOMAIN streams)
            /\ streams = [id \in DOMAIN streams |-> streams[id]]
            /\ \A id \in DOMAIN streams : streams[id] \in AnyStream
<1> HIDE DEF AnyStream
<1> DEFINE finite == {x \in SUBSET Nat : IsFiniteSet(x)}
<1>1. ASSUME NEW ids \in finite, streams \in [ids -> AnyStream]
      PROVE  /\ DOMAIN streams \in finite
             /\ streams = [id \in DOMAIN streams |-> streams[id]]
             /\ \A id \in DOMAIN streams : streams[id] \in AnyStream
  BY <1>1
<1>2. ASSUME streams = [id \in DOMAIN streams |-> streams[id]],
             \A id \in DOMAIN streams : streams[id] \in AnyStream
      PROVE  streams \in [DOMAIN streams -> AnyStream]
  BY <1>2
<1>3. streams \in Streams <=> \E ids \in finite : streams \in [ids -> AnyStream]
  BY Zenon DEF Streams
<1>4. DOMAIN streams \in finite <=> DOMAIN streams \subseteq Nat /\ IsFiniteSet(DOMAIN streams)
  OBVIOUS
<1> QED BY <1>1, <1>2, <1>3, <1>4

\* A stream put in (With).
LEMMA WithStream ==
    ASSUME NEW streams \in Streams, NEW id \in Nat, NEW s \in AnyStream
    PROVE  /\ With(streams, id, s) \in Streams
           /\ DOMAIN With(streams, id, s) = DOMAIN streams \cup {id}
           /\ With(streams, id, s)[id] = s
           /\ \A x \in DOMAIN streams \ {id} : With(streams, id, s)[x] = streams[x]
<1> HIDE DEF AnyStream
<1>1. IsFiniteSet(DOMAIN streams) /\ DOMAIN streams \subseteq Nat
      /\ \A x \in DOMAIN streams : streams[x] \in AnyStream
  BY StreamsMeaning
<1>2. IsFiniteSet(DOMAIN streams \cup {id})
  BY <1>1, FS_AddElement
<1> DEFINE w == With(streams, id, s)
<1>3. /\ DOMAIN w = DOMAIN streams \cup {id} /\ w = [x \in DOMAIN w |-> w[x]]
      /\ w[id] = s /\ \A x \in DOMAIN streams \ {id} : w[x] = streams[x]
  BY DEF With
<1>4. w \in Streams
  <2> HIDE DEF w
  <2>1. DOMAIN w \subseteq Nat /\ \A x \in DOMAIN w : w[x] \in AnyStream
    BY <1>1, <1>3
  <2> QED BY <1>2, <1>3, <2>1, StreamsMeaning
<1> QED BY <1>3, <1>4

\* Streams taken out (Without, flush_resets).
LEMMA WithoutStream ==
    ASSUME NEW streams \in Streams, NEW ids
    PROVE  /\ [x \in DOMAIN streams \ ids |-> streams[x]] \in Streams
           /\ \A id : Without(streams, id) \in Streams
           /\ \A id : DOMAIN Without(streams, id) = DOMAIN streams \ {id}
           /\ \A id : \A x \in DOMAIN streams \ {id} : Without(streams, id)[x] = streams[x]
<1> HIDE DEF AnyStream
<1>1. IsFiniteSet(DOMAIN streams) /\ DOMAIN streams \subseteq Nat
      /\ \A x \in DOMAIN streams : streams[x] \in AnyStream
  BY StreamsMeaning
<1>2. ASSUME NEW less
      PROVE  [x \in DOMAIN streams \ less |-> streams[x]] \in Streams
  <2>1. IsFiniteSet(DOMAIN streams \ less)
    BY <1>1, FS_Subset
  <2> DEFINE w == [x \in DOMAIN streams \ less |-> streams[x]]
  <2>2. /\ DOMAIN w = DOMAIN streams \ less /\ w = [x \in DOMAIN w |-> w[x]]
        /\ DOMAIN w \subseteq Nat /\ \A x \in DOMAIN w : w[x] \in AnyStream
    BY <1>1
  <2> QED BY <2>1, <2>2, StreamsMeaning
<1> QED BY <1>2 DEF Without

\* A stream changed.
LEMMA ExceptStream ==
    ASSUME NEW streams \in Streams, NEW id \in DOMAIN streams, NEW s \in AnyStream
    PROVE  /\ [streams EXCEPT ![id] = s] \in Streams
           /\ DOMAIN [streams EXCEPT ![id] = s] = DOMAIN streams
           /\ [streams EXCEPT ![id] = s][id] = s
           /\ \A x \in DOMAIN streams \ {id} : [streams EXCEPT ![id] = s][x] = streams[x]
<1> HIDE DEF AnyStream
<1>1. IsFiniteSet(DOMAIN streams) /\ DOMAIN streams \subseteq Nat
      /\ \A x \in DOMAIN streams : streams[x] \in AnyStream
  BY StreamsMeaning
<1> DEFINE w == [streams EXCEPT ![id] = s]
<1>2. /\ DOMAIN w = DOMAIN streams /\ w = [x \in DOMAIN w |-> w[x]]
      /\ w[id] = s /\ \A x \in DOMAIN streams \ {id} : w[x] = streams[x]
  BY <1>1
<1>3. w \in Streams
  <2> HIDE DEF w
  <2> QED BY <1>1, <1>2, StreamsMeaning
<1> QED BY <1>2, <1>3

\* What the streams hold together is a number.
LEMMA BufferedType ==
    ASSUME NEW streams \in Streams
    PROVE  IsFiniteSet(HeldOctets(streams)) /\ Buffered(streams) \in Nat
<1> DEFINE of(id) == {id} \X (1 .. streams[id].body)
           sets == {of(id) : id \in DOMAIN streams}
           f == [id \in DOMAIN streams |-> of(id)]
<1>1. IsFiniteSet(DOMAIN streams) /\ \A id \in DOMAIN streams : streams[id] \in AnyStream
  BY StreamsMeaning
<1>2. IsFiniteSet(sets)
  <2>1. f \in Surjection(DOMAIN streams, sets)
    BY DEF Surjection
  <2> QED BY <1>1, <2>1, FS_Surjection
<1>3. ASSUME NEW id \in DOMAIN streams PROVE IsFiniteSet(of(id))
  <2>1. streams[id].body \in Nat
    BY <1>1 DEF AnyStream
  <2>2. IsFiniteSet({id})
    BY FS_Singleton
  <2>3. \A n \in Nat : IsFiniteSet(1 .. n)
    BY FS_Interval
  <2> QED BY <2>1, <2>2, <2>3, FS_Product
<1>4. \A T \in sets : IsFiniteSet(T)
  BY <1>3
<1>5. IsFiniteSet(HeldOctets(streams))
  <2> HIDE DEF of
  <2>1. IsFiniteSet(UNION sets)
    BY <1>2, <1>4, FS_UNION
  <2> QED BY <2>1 DEF HeldOctets, of
<1> QED BY <1>5, FS_CardinalityType DEF Buffered

\* The fields of a frame, by its type.
LEMMA FrameFields ==
    ASSUME NEW f \in AnyFrame
    PROVE  /\ f.type = "HEADERS" => f.id \in Nat /\ f.kind \in Kinds /\ f.end \in BOOLEAN /\ f.more \in BOOLEAN
           /\ f.type = "CONTINUATION" => f.id \in Nat /\ f.more \in BOOLEAN
           /\ f.type = "DATA" => f.id \in Nat /\ f.size \in Nat /\ f.end \in BOOLEAN
           /\ f.type = "WINDOW" => f.id \in Nat /\ f.size \in Nat
           /\ f.type = "SETTINGS" => f.window \in Nat /\ f.streams \in Nat
           /\ f.type = "RST" => f.id \in Nat
<1> HIDE DEF Kinds
<1> QED BY DEF AnyFrame

\* A frame that completed no message leaves streams and numbers alone.
LEMMA ContinuedFields ==
    ASSUME NEW c \in Connection, c.gathering = None
    PROVE  /\ Continued(c) \in Connection
           /\ Continued(c).streams = c.streams
           /\ Continued(c).highest = c.highest
           /\ Continued(c).nextId = c.nextId
           /\ Continued(c).gathering = None
           /\ \/ Continued(c).error \in Fatal /\ Continued(c).task = "idle"
              \/ Continued(c) = c
           /\ Steady(c) => Steady(Continued(c))
<1>1. Steady(c) <=> /\ c.error \in Fatal => c.task = "idle"
                    /\ c.task = "send" => c.sending \in AnyMessage
  BY DEF Steady
<1>2. CASE Continued(c) = c
  BY <1>2
<1> DEFINE d == [c EXCEPT !.task = "idle", !.error = "closed"]
<1>3. CASE Continued(c) = d
  <2>1. d \in Connection
    BY DEF Connection, Fatal
  <2>2. /\ d.streams = c.streams /\ d.highest = c.highest /\ d.nextId = c.nextId
        /\ d.gathering = None /\ d.task = "idle" /\ d.error = "closed"
    BY DEF Connection
  <2> QED BY <1>3, <2>1, <2>2 DEF Steady, Fatal
<1> QED BY <1>2, <1>3 DEF Continued

\* So does one that completed one.
LEMMA CompletedFields ==
    ASSUME NEW c \in Connection, c.gathering = None, NEW m \in AnyMessage
    PROVE  /\ Completed(c, m) \in Connection
           /\ Completed(c, m).streams = c.streams
           /\ Completed(c, m).highest = c.highest
           /\ Completed(c, m).nextId = c.nextId
           /\ Completed(c, m).gathering = None
           /\ Steady(c) => Steady(Completed(c, m))
<1>1. Steady(c) <=> /\ c.error \in Fatal => c.task = "idle"
                    /\ c.task = "send" => c.sending \in AnyMessage
  BY DEF Steady
<1> HIDE DEF AnyMessage, AnyStream
<1> DEFINE d == [c EXCEPT !.task = "idle", !.returned = m]
           q == [c EXCEPT !.ready = Append(@, m)]
<1>2. d \in Connection /\ q \in Connection
  <2>1. Append(c.ready, m) \in Seq(AnyMessage)
    BY DEF Connection
  <2>2. q = [c EXCEPT !.ready = Append(c.ready, m)]
    OBVIOUS
  <2>3. q \in Connection
    BY <2>1, <2>2 DEF Connection, Fatal
  <2>4. d \in Connection
    BY ZenonT(60) DEF Connection, Fatal
  <2> QED BY <2>3, <2>4
<1>3. /\ d.streams = c.streams /\ d.highest = c.highest /\ d.nextId = c.nextId
      /\ d.gathering = None /\ d.task = "idle" /\ d.error = c.error
  BY DEF Connection
<1>4. /\ q.streams = c.streams /\ q.highest = c.highest /\ q.nextId = c.nextId
      /\ q.gathering = None /\ q.task = c.task /\ q.error = c.error /\ q.sending = c.sending
  BY DEF Connection
<1>5. Completed(c, m) = IF c.task = "receive" THEN d ELSE q
  BY DEF Completed
<1> QED BY <1>1, <1>2, <1>3, <1>4, <1>5 DEF Steady

\* Frames queued one after the other are each queued truthfully.
LEMMA TruthfulSequences ==
    ASSUME NEW e, NEW c
    PROVE  /\ AllTruthful(e, c, <<>>)
           /\ \A f \in AnyFrame : Truthful(e, c, f) => AllTruthful(e, c, << f >>)
           /\ \A s, t : AllTruthful(e, c, s) /\ AllTruthful(e, c, t) => AllTruthful(e, c, s \o t)
<1> HIDE DEF AnyFrame, Truthful
<1>1. AllTruthful(e, c, <<>>)
  BY DEF AllTruthful
<1>2. ASSUME NEW f \in AnyFrame, Truthful(e, c, f) PROVE AllTruthful(e, c, << f >>)
  BY <1>2 DEF AllTruthful
<1>3. ASSUME NEW s, NEW t, AllTruthful(e, c, s), AllTruthful(e, c, t)
      PROVE  AllTruthful(e, c, s \o t)
  <2>1. s \in Seq(AnyFrame) /\ t \in Seq(AnyFrame) /\ s \o t \in Seq(AnyFrame)
    BY <1>3 DEF AllTruthful
  <2>2. ASSUME NEW i \in DOMAIN (s \o t) PROVE Truthful(e, c, (s \o t)[i])
    <3>1. CASE i <= Len(s)
      BY <2>1, <3>1, <1>3 DEF AllTruthful
    <3>2. CASE i > Len(s)
      <4>1. i - Len(s) \in DOMAIN t /\ (s \o t)[i] = t[i - Len(s)]
        BY <2>1, <3>2
      <4> QED BY <4>1, <1>3 DEF AllTruthful
    <3> QED BY <2>1, <3>1, <3>2
  <2> QED BY <2>1, <2>2 DEF AllTruthful
<1> QED BY <1>1, <1>2, <1>3

\* A step to what the end may become, with frames it may queue, is lawful.
LEMMA StepLawful ==
    ASSUME H2Inv, NEW e \in Endpoints, NEW c, NEW frames, Step(e, c, frames),
           Onward(e, c), AllTruthful(e, c, frames)
    PROVE  Lawful(e)
<1> HIDE DEF Connection, Onward, AllTruthful
<1>1. conn'[e] = c /\ out'[e] = frames
  BY DEF H2Inv, Step
<1> QED BY <1>1 DEF Step, Lawful

\* A lawful step keeps the invariant, of the end that takes it and of the others.
LEMMA LawfulKeeps ==
    ASSUME H2Inv, NEW e \in Endpoints, Lawful(e)
    PROVE  H2Inv'
<1> HIDE DEF Connection, AnyFrame
<1>1. conn' \in [Endpoints -> Connection] /\ out' \in [Endpoints -> Seq(AnyFrame)]
  <2>1. conn'[e] \in Connection /\ out'[e] \in Seq(AnyFrame)
    BY DEF Lawful, Onward, Growing, AllTruthful
  <2>2. <<>> \in Seq(AnyFrame)
    BY EmptySeq
  <2> DEFINE c == conn'[e]
             o == out'[e]
  <2>3. conn' = [conn EXCEPT ![e] = c] /\ out' = [x \in Endpoints |-> IF x = e THEN o ELSE <<>>]
    BY DEF Lawful
  <2> HIDE DEF c, o
  <2>4. c \in Connection /\ o \in Seq(AnyFrame)
    BY <2>1 DEF c, o
  <2> QED BY <2>2, <2>3, <2>4 DEF H2Inv
<1>2. Steady(conn[e])' /\ Ids(e)'
  <2>1. Steady(conn[e])'
    BY DEF Lawful, Onward, Growing, Steady, Window
  <2>2. /\ conn[e].nextId \in Nat /\ conn'[e].nextId \in Nat
        /\ conn[e].highest \in Nat /\ conn'[e].highest \in Nat
        /\ DOMAIN conn[e].streams \subseteq Nat /\ DOMAIN conn'[e].streams \subseteq Nat
    BY <1>1, StreamsMeaning DEF H2Inv, Connection
  <2>3. Onward(e, conn'[e]) /\ Ids(e)
    BY DEF Lawful, H2Inv
  <2>4. ASSUME NEW id \in DOMAIN conn'[e].streams
        PROVE  id > 0 /\ (IF PeerOpens(e, id) THEN id <= conn'[e].highest ELSE id < conn'[e].nextId)
    <3>1. CASE id \in DOMAIN conn[e].streams
      BY <2>2, <2>3, <3>1 DEF Onward, Growing, Ids
    <3>2. CASE id \notin DOMAIN conn[e].streams
      <4>1. Newly(e, conn'[e], id)
        BY <2>3, <2>4, <3>2 DEF Onward, Growing
      <4> QED BY <2>2, <2>3, <2>4, <4>1 DEF Newly, Ids
    <3> QED BY <3>1, <3>2
  <2>5. conn'[e].nextId > 0 /\ ~PeerOpens(e, conn'[e].nextId)
    BY <2>2, <2>3 DEF Onward, Growing, Ids
  <2> QED BY <2>1, <2>4, <2>5 DEF Ids, PeerOpens
<1>3. ASSUME NEW x \in Endpoints \ {e} PROVE Steady(conn[x])' /\ Ids(x)'
  <2>1. conn'[x] = conn[x]
    BY DEF Lawful, H2Inv
  <2> QED BY <2>1 DEF H2Inv, Steady, Ids, PeerOpens, Window
<1> QED BY <1>1, <1>2, <1>3 DEF H2Inv

\* A frame handled (pump) is a lawful step if what the handler made of the end is
\* what the end may become.
LEMMA HandledLawful ==
    ASSUME H2Inv, NEW e \in Endpoints, NEW c, NEW m, NEW frames,
           Handled(e, c, m, frames), m = None \/ m \in AnyMessage,
           Onward(e, c), c.gathering = None, AllTruthful(e, c, frames)
    PROVE  Lawful(e)
<1> HIDE DEF Connection, AnyMessage, AnyFrame
<1> DEFINE d == IF m = None THEN Continued(c) ELSE Completed(c, m)
<1>1. /\ d \in Connection /\ d.streams = c.streams /\ d.highest = c.highest
      /\ d.nextId = c.nextId /\ Steady(d)
  BY ContinuedFields, CompletedFields DEF Onward, Growing
<1>2. Step(e, d, frames)
  BY DEF Handled
<1> HIDE DEF d
<1>3. Onward(e, d)
  BY <1>1 DEF Onward, Growing, Newly
<1>4. AllTruthful(e, d, frames)
  BY <1>1 DEF AllTruthful, Truthful
<1> QED BY <1>2, <1>3, <1>4, StepLawful

\* A step after which the end is as before but for what it counts.
LEMMA SameOnward ==
    ASSUME H2Inv, NEW e \in Endpoints, NEW c \in Connection,
           DOMAIN c.streams \subseteq DOMAIN conn[e].streams,
           c.highest = conn[e].highest, c.nextId = conn[e].nextId,
           c.gathering = None,
           c.error \in Fatal => c.task = "idle",
           c.task = "send" => c.sending \in AnyMessage
    PROVE  Onward(e, c)
<1> HIDE DEF AnyMessage
<1>1. conn[e].highest \in Nat /\ conn[e].nextId \in Nat
  BY DEF H2Inv, Connection
<1> HIDE DEF Connection
<1> QED BY <1>1 DEF H2Inv, Onward, Growing, Steady, Ids

\* An operation that fails is a lawful step.
LEMMA FailLawful ==
    ASSUME H2Inv, NEW e \in Endpoints, NEW error \in Fatal, NEW frames,
           Fail(e, error, frames), AllTruthful(e, conn[e], frames)
    PROVE  Lawful(e)
<1> DEFINE c == [conn[e] EXCEPT !.task = "idle", !.error = error]
<1>1. conn[e] \in Connection
  BY DEF H2Inv
<1>2. /\ c \in Connection /\ c.streams = conn[e].streams /\ c.highest = conn[e].highest
      /\ c.nextId = conn[e].nextId /\ c.gathering = conn[e].gathering /\ c.task = "idle"
      /\ c.error = error
  BY <1>1 DEF Connection, Fatal
<1>3. conn[e].highest \in Nat /\ conn[e].nextId \in Nat
  BY <1>1 DEF Connection
<1>4. Step(e, c, frames)
  BY DEF Fail
<1> HIDE DEF c, Connection
<1>5. Steady(c)
  BY <1>2 DEF H2Inv, Steady
<1>6. Onward(e, c)
  BY <1>2, <1>3, <1>5 DEF Onward, Growing, H2Inv, Ids
<1>7. AllTruthful(e, c, frames)
  BY <1>2 DEF AllTruthful, Truthful
<1> QED BY <1>4, <1>6, <1>7, StepLawful

\* GOAWAY for too many idle frames is a lawful step (overloaded).
LEMMA OverloadLawful ==
    ASSUME H2Inv, NEW e \in Endpoints, NEW c, Overload(e, c, <<>>), Onward(e, c), c.gathering = None
    PROVE  Lawful(e)
<1> DEFINE d == [c EXCEPT !.idle = @ + 1, !.task = "idle", !.error = "limit"]
<1>1. c \in Connection
  BY DEF Onward, Growing
<1>7. c.idle + 1 \in Nat
  BY <1>1 DEF Connection
<1>8. d = [c EXCEPT !.idle = c.idle + 1, !.task = "idle", !.error = "limit"]
  OBVIOUS
<1>2. /\ d \in Connection /\ d.streams = c.streams /\ d.highest = c.highest
      /\ d.nextId = c.nextId /\ d.gathering = None /\ d.task = "idle"
  BY <1>1, <1>7, <1>8 DEF Connection, Fatal
<1>3. c.highest \in Nat
  BY <1>1 DEF Connection
<1>4. Step(e, d, << GoAway(c.highest) >>)
  BY DEF Overload
<1> HIDE DEF d, Connection
<1>5. Onward(e, d)
  BY <1>2 DEF Onward, Growing, Steady, Newly
<1>6. AllTruthful(e, d, << GoAway(c.highest) >>)
  <2>1. GoAway(c.highest) \in AnyFrame /\ GoAway(c.highest).type = "GOAWAY"
    BY <1>3 DEF GoAway, AnyFrame
  <2> HIDE DEF AnyFrame, GoAway
  <2>2. Truthful(e, d, GoAway(c.highest))
    BY <2>1 DEF Truthful, Speaks
  <2> QED BY <2>1, <2>2, TruthfulSequences
<1> QED BY <1>4, <1>5, <1>6, StepLawful

\* What the invariant says of one end, field by field.
LEMMA EndFields ==
    ASSUME H2Inv, NEW e \in Endpoints
    PROVE  /\ conn[e] \in Connection
           /\ conn[e].streams \in Streams /\ DOMAIN conn[e].streams \subseteq Nat
           /\ conn[e].highest \in Nat /\ conn[e].nextId \in Nat
           /\ Steady(conn[e]) /\ Ids(e)
           /\ Growing(e, conn[e])
           /\ Free(e) => /\ conn[e].task = "idle" /\ conn[e].gathering = None
                       /\ conn[e].error \notin Fatal
           /\ Listening(e) => conn[e].task # "idle" /\ conn[e].error \notin Fatal
           /\ conn[e].task = "send" => conn[e].sending \in AnyMessage
<1>1. conn[e] \in Connection /\ Steady(conn[e]) /\ Ids(e)
  BY DEF H2Inv
<1>2. /\ conn[e].streams \in Streams
      /\ conn[e].highest \in Nat /\ conn[e].nextId \in Nat
  BY <1>1 DEF Connection
<1>3. DOMAIN conn[e].streams \subseteq Nat
  BY <1>2, StreamsMeaning
<1> HIDE DEF Connection, AnyMessage
<1>4. Growing(e, conn[e])
  BY <1>1, <1>2 DEF Growing, Ids
<1>5. Free(e) => /\ conn[e].task = "idle" /\ conn[e].gathering = None
                 /\ conn[e].error \notin Fatal
  BY <1>1 DEF Free, Failed, Steady, Fatal
<1>6. Listening(e) => conn[e].task # "idle" /\ conn[e].error \notin Fatal
  BY <1>1 DEF Listening, Blocked, Writing, Steady
<1> QED BY <1>1, <1>2, <1>3, <1>4, <1>5, <1>6 DEF Steady

\* An end that may have come this far may lose streams and still have.
LEMMA Narrowed ==
    ASSUME NEW e, NEW c, Growing(e, c), NEW d \in Connection,
           DOMAIN d.streams \subseteq DOMAIN c.streams,
           d.highest = c.highest, d.nextId = c.nextId
    PROVE  /\ Growing(e, d)
           /\ \A frames : AllTruthful(e, c, frames) => AllTruthful(e, d, frames)
           /\ d.gathering = None =>
                (Steady(d) <=> /\ d.error \in Fatal => d.task = "idle"
                               /\ d.task = "send" => d.sending \in AnyMessage)
<1> HIDE DEF Connection, AnyMessage, AnyFrame
<1>1. Growing(e, d)
  BY DEF Growing, Newly
<1>2. ASSUME NEW frames, AllTruthful(e, c, frames) PROVE AllTruthful(e, d, frames)
  BY <1>2 DEF AllTruthful, Truthful
<1>3. d.gathering = None =>
        (Steady(d) <=> /\ d.error \in Fatal => d.task = "idle"
                       /\ d.task = "send" => d.sending \in AnyMessage)
  BY DEF Steady
<1> QED BY <1>1, <1>2, <1>3

\* Frames of the connection as a whole say nothing of a stream.
LEMMA SilentFrames ==
    ASSUME NEW e, NEW c
    PROVE  /\ \A type \in {"PREFACE", "EOF", "PING", "PONG", "ACK"} :
                Plain(type) \in AnyFrame /\ Truthful(e, c, Plain(type))
           /\ \A n \in Nat : GoAway(n) \in AnyFrame /\ Truthful(e, c, GoAway(n))
           /\ \A n, m \in Nat : Settings(n, m) \in AnyFrame /\ Truthful(e, c, Settings(n, m))
<1>1. ASSUME NEW type \in {"PREFACE", "EOF", "PING", "PONG", "ACK"}
      PROVE  Plain(type) \in AnyFrame /\ Truthful(e, c, Plain(type))
  BY DEF Plain, AnyFrame, Truthful, Speaks
<1>2. ASSUME NEW n \in Nat PROVE GoAway(n) \in AnyFrame /\ Truthful(e, c, GoAway(n))
  BY DEF GoAway, AnyFrame, Truthful, Speaks
<1>3. ASSUME NEW n \in Nat, NEW m \in Nat
      PROVE  Settings(n, m) \in AnyFrame /\ Truthful(e, c, Settings(n, m))
  BY DEF Settings, AnyFrame, Truthful, Speaks
<1> QED BY <1>1, <1>2, <1>3

LEMMA SilentPair ==
    ASSUME NEW e, NEW c, NEW f \in AnyFrame, NEW g \in AnyFrame, Truthful(e, c, f), Truthful(e, c, g)
    PROVE  AllTruthful(e, c, << f, g >>)
<1> HIDE DEF AnyFrame, Truthful
<1> DEFINE pair == << f, g >>
<1>1. pair \in Seq(AnyFrame) /\ DOMAIN pair = 1 .. 2 /\ pair[1] = f /\ pair[2] = g
  OBVIOUS
<1> HIDE DEF pair
<1>2. \A i \in DOMAIN pair : pair[i] = f \/ pair[i] = g
  BY <1>1
<1>3. AllTruthful(e, c, pair)
  BY <1>1, <1>2 DEF AllTruthful
<1> QED BY <1>3 DEF pair

\* start, of a client.
LEMMA StartClientLawful ==
    ASSUME H2Inv, NEW e \in Endpoints, StartClient(e)
    PROVE  Lawful(e)
<1> DEFINE c == [conn[e] EXCEPT !.started = TRUE]
           frames == << Plain("PREFACE"), Settings(InitialWindow, MaxConcurrent[e]) >>
<1>0. conn[e] \in Connection /\ conn[e].task = "idle" /\ conn[e].gathering = None
      /\ conn[e].error \notin Fatal
  BY EndFields DEF StartClient
<1>1. /\ c \in Connection /\ c.streams = conn[e].streams /\ c.highest = conn[e].highest
      /\ c.nextId = conn[e].nextId /\ c.gathering = None /\ c.task = "idle"
  BY <1>0 DEF Connection
<1>2. InitialWindow \in Nat /\ MaxConcurrent[e] \in Nat
  BY H2Assumption
<1>3. Step(e, c, frames)
  BY DEF StartClient
<1> HIDE DEF c
<1>4. Onward(e, c)
  BY <1>1, EndFields, Narrowed DEF Onward
<1>5. AllTruthful(e, c, frames)
  BY <1>2, SilentFrames, SilentPair
<1> QED BY <1>3, <1>4, <1>5, StepLawful

\* start, of a server.
LEMMA StartServerLawful ==
    ASSUME H2Inv, NEW e \in Endpoints, NEW f, StartServer(e, f)
    PROVE  Lawful(e)
<1>1. CASE f.type = "PREFACE"
  <2> DEFINE c == [conn[e] EXCEPT !.started = TRUE]
             frames == << Settings(InitialWindow, MaxConcurrent[e]) >>
  <2>0. conn[e] \in Connection /\ conn[e].task = "idle" /\ conn[e].gathering = None
        /\ conn[e].error \notin Fatal
    BY EndFields DEF StartServer
  <2>1. /\ c \in Connection /\ c.streams = conn[e].streams /\ c.highest = conn[e].highest
        /\ c.nextId = conn[e].nextId /\ c.gathering = None /\ c.task = "idle"
    BY <2>0 DEF Connection
  <2>2. InitialWindow \in Nat /\ MaxConcurrent[e] \in Nat
    BY H2Assumption
  <2>3. Step(e, c, frames)
    BY <1>1 DEF StartServer
  <2> HIDE DEF c
  <2>4. Onward(e, c)
    BY <2>1, EndFields, Narrowed DEF Onward
  <2>5. AllTruthful(e, c, frames)
    BY <2>2, SilentFrames, TruthfulSequences
  <2> QED BY <2>3, <2>4, <2>5, StepLawful
<1>2. CASE f.type # "PREFACE"
  <2>1. PICK error \in Fatal : Fail(e, error, <<>>)
    BY <1>2 DEF StartServer, Fatal
  <2> QED BY <2>1, FailLawful, TruthfulSequences
<1> QED BY <1>1, <1>2

\* SetToSeq lists each member of a finite set, and nothing else.
LEMMA SequenceOfSet ==
    ASSUME NEW S, IsFiniteSet(S)
    PROVE  /\ Cardinality(S) \in Nat
           /\ SetToSeq(S) \in [1 .. Cardinality(S) -> S]
           /\ \A i, j \in 1 .. Cardinality(S) : SetToSeq(S)[i] = SetToSeq(S)[j] => i = j
<1> DEFINE n == Cardinality(S)
<1>1. n \in Nat /\ ExistsBijection(1 .. n, S)
  BY FS_CardinalityType
<1>2. \E f \in [1 .. n -> S] : IsInjective(f)
  BY <1>1 DEF ExistsBijection, Bijection, Injection
<1>3. SetToSeq(S) \in [1 .. n -> S] /\ IsInjective(SetToSeq(S))
  BY <1>2 DEF SetToSeq
<1> HIDE DEF n
<1>4. \A i, j \in 1 .. n : SetToSeq(S)[i] = SetToSeq(S)[j] => i = j
  BY <1>3 DEF IsInjective
<1> QED BY <1>1, <1>3, <1>4 DEF n

\* flush_resets forgets the abandoned streams and tells of each.
LEMMA FlushedFields ==
    ASSUME H2Inv, NEW e \in Endpoints
    PROVE  LET c == Flushed(conn[e]) IN
           /\ c \in Connection
           /\ DOMAIN c.streams = DOMAIN conn[e].streams \ Abandoned(conn[e])
           /\ \A id \in DOMAIN c.streams : c.streams[id] = conn[e].streams[id]
           /\ c.highest = conn[e].highest /\ c.nextId = conn[e].nextId
           /\ c.gathering = conn[e].gathering /\ c.task = conn[e].task
           /\ c.peerWindow = conn[e].peerWindow
           /\ Growing(e, c)
           /\ \A d : DOMAIN d.streams \cap Abandoned(conn[e]) = {} =>
                AllTruthful(e, d, FlushedFrames(conn[e]))
<1> DEFINE c == Flushed(conn[e])
           kept == [id \in DOMAIN conn[e].streams \ Abandoned(conn[e]) |-> conn[e].streams[id]]
<1>1. kept \in Streams
  BY EndFields, WithoutStream
<1>2. /\ c \in Connection /\ c.streams = kept
      /\ c.highest = conn[e].highest /\ c.nextId = conn[e].nextId
      /\ c.gathering = conn[e].gathering /\ c.task = conn[e].task
      /\ c.peerWindow = conn[e].peerWindow
  BY <1>1, EndFields, ZenonT(60) DEF Flushed, Connection
<1>3. DOMAIN kept \subseteq DOMAIN conn[e].streams
  OBVIOUS
<1> HIDE DEF c
<1>4. Growing(e, c)
  BY <1>2, <1>3, EndFields, Narrowed
<1>5. ASSUME NEW d, DOMAIN d.streams \cap Abandoned(conn[e]) = {}
      PROVE  AllTruthful(e, d, FlushedFrames(conn[e]))
  <2> DEFINE S == Abandoned(conn[e])
             ids == SetToSeq(S)
  <2>1. S \subseteq DOMAIN conn[e].streams /\ IsFiniteSet(S) /\ S \subseteq Nat
    <3>1. IsFiniteSet(DOMAIN conn[e].streams) /\ DOMAIN conn[e].streams \subseteq Nat
      BY EndFields, StreamsMeaning
    <3> QED BY <3>1, FS_Subset DEF Abandoned
  <2>2. Cardinality(S) \in Nat /\ ids \in [1 .. Cardinality(S) -> S]
    BY <2>1, SequenceOfSet
  <2>3. FlushedFrames(conn[e]) = [i \in 1 .. Cardinality(S) |-> Rst(ids[i])]
    BY <2>2 DEF FlushedFrames
  <2> HIDE DEF S, ids
  <2>4. ASSUME NEW i \in 1 .. Cardinality(S)
        PROVE  Rst(ids[i]) \in AnyFrame /\ Truthful(e, d, Rst(ids[i]))
    <3>1. ids[i] \in DOMAIN conn[e].streams /\ ids[i] \in Nat /\ ids[i] \notin DOMAIN d.streams
      BY <2>1, <2>2, <1>5 DEF S
    <3> QED BY <3>1 DEF Rst, AnyFrame, Truthful, Speaks
  <2> HIDE DEF AnyFrame, Truthful
  <2>5. FlushedFrames(conn[e]) \in Seq(AnyFrame)
    BY <2>2, <2>3, <2>4
  <2> QED BY <2>2, <2>3, <2>4, <2>5 DEF AllTruthful
<1> QED BY <1>2, <1>4, <1>5 DEF c
\* retire puts a stream back or drops it.
LEMMA StreamUpdates ==
    ASSUME NEW streams \in Streams, NEW id \in Nat, NEW s \in AnyStream
    PROVE  /\ Retired(streams, id, s) \in Streams
           /\ DOMAIN Retired(streams, id, s) \subseteq DOMAIN streams \cup {id}
<1> HIDE DEF AnyStream
<1>1. CASE s.state = "Closed"
  BY <1>1, WithoutStream DEF Retired
<1>2. CASE s.state # "Closed"
  <2>1. Retired(streams, id, s) = With(streams, id, s)
    BY <1>2 DEF Retired
  <2>2. With(streams, id, s) \in Streams
    BY WithStream
  <2>3. DOMAIN With(streams, id, s) = DOMAIN streams \cup {id}
    BY WithStream
  <2> QED BY <2>1, <2>2, <2>3
<1> QED BY <1>1, <1>2

\* Closing a side of a stream leaves it in a state (close_local, close_remote).
LEMMA ClosedStates ==
    ASSUME NEW state \in States
    PROVE  CloseLocal(state) \in States /\ CloseRemote(state) \in States
BY DEF CloseLocal, CloseRemote, States

\* receive_message, up to where it waits for the peer.
LEMMA BeginReceiveLawful ==
    ASSUME H2Inv, NEW e \in Endpoints, BeginReceive(e)
    PROVE  Lawful(e)
<1>1. conn[e] \in Connection /\ conn[e].task = "idle" /\ conn[e].gathering = None
  BY EndFields DEF BeginReceive
<1>2. CASE conn[e].ready # <<>>
  <2> DEFINE c == [conn[e] EXCEPT !.returned = Head(conn[e].ready),
                                  !.ready = Tail(conn[e].ready), !.error = "none"]
  <2>1. conn[e].ready \in Seq(AnyMessage)
    BY <1>1 DEF Connection
  <2>2. Head(conn[e].ready) \in AnyMessage /\ Tail(conn[e].ready) \in Seq(AnyMessage)
    BY <1>2, <2>1
  <2>3. /\ c \in Connection /\ c.streams = conn[e].streams /\ c.highest = conn[e].highest
        /\ c.nextId = conn[e].nextId /\ c.gathering = None /\ c.task = "idle"
    BY <1>1, <2>2, ZenonT(60) DEF Connection
  <2>4. Step(e, c, <<>>)
    BY <1>2 DEF BeginReceive
  <2> HIDE DEF c
  <2>5. Onward(e, c)
    BY <2>3, EndFields, Narrowed DEF Onward
  <2> QED BY <2>4, <2>5, StepLawful, TruthfulSequences
<1>3. CASE conn[e].ready = <<>>
  <2> DEFINE F == Flushed(conn[e])
             c == [F EXCEPT !.task = "receive", !.returned = None, !.error = "none"]
  <2>1. Step(e, c, FlushedFrames(conn[e]))
    BY <1>3 DEF BeginReceive
  <2>2. /\ F \in Connection /\ Growing(e, F) /\ F.gathering = None
        /\ DOMAIN F.streams = DOMAIN conn[e].streams \ Abandoned(conn[e])
    BY <1>1, FlushedFields
  <2> HIDE DEF F
  <2>3. /\ c \in Connection /\ c.streams = F.streams /\ c.highest = F.highest
        /\ c.nextId = F.nextId /\ c.gathering = None /\ c.task = "receive" /\ c.error = "none"
    BY <2>2, ZenonT(60) DEF Connection
  <2> HIDE DEF c
  <2>4. Onward(e, c)
    BY <2>2, <2>3, Narrowed DEF Onward, Fatal
  <2>5. AllTruthful(e, c, FlushedFrames(conn[e]))
    <3>1. DOMAIN c.streams \cap Abandoned(conn[e]) = {}
      BY <2>2, <2>3
    <3> QED BY <3>1, FlushedFields
  <2> QED BY <2>1, <2>4, <2>5, StepLawful
<1> QED BY <1>2, <1>3

\* send_message, on a stream that is gone or past the peer's ceiling.
LEMMA SendRefusedLawful ==
    ASSUME H2Inv, NEW e \in Endpoints, NEW m, SendOnGoneStream(e, m) \/ SendPastCeiling(e, m)
    PROVE  Lawful(e)
<1> DEFINE F == Flushed(conn[e])
<1>1. conn[e].task = "idle" /\ conn[e].gathering = None
  BY EndFields DEF SendOnGoneStream, SendPastCeiling, CanSend
<1>2. /\ F \in Connection /\ Growing(e, F) /\ F.gathering = None /\ F.task = "idle"
      /\ DOMAIN F.streams = DOMAIN conn[e].streams \ Abandoned(conn[e])
  BY <1>1, FlushedFields
<1>3. \/ Step(e, [F EXCEPT !.error = "stream", !.returned = None], FlushedFrames(conn[e]))
      \/ Step(e, [F EXCEPT !.error = "refused", !.returned = None], FlushedFrames(conn[e]))
  BY DEF SendOnGoneStream, SendPastCeiling
<1> HIDE DEF F
<1>7. PICK error \in {"stream", "refused"} :
        Step(e, [F EXCEPT !.error = error, !.returned = None], FlushedFrames(conn[e]))
  BY <1>3
<1> DEFINE c == [F EXCEPT !.error = error, !.returned = None]
<1>4. /\ c \in Connection /\ c.streams = F.streams /\ c.highest = F.highest
      /\ c.nextId = F.nextId /\ c.gathering = None /\ c.task = "idle"
  <2>1. CASE error = "stream"
    BY <1>2, <2>1, ZenonT(60) DEF Connection
  <2>2. CASE error = "refused"
    BY <1>2, <2>2, ZenonT(60) DEF Connection
  <2> QED BY <2>1, <2>2
<1> HIDE DEF c
<1>5. Onward(e, c)
  BY <1>2, <1>4, Narrowed DEF Onward
<1>6. AllTruthful(e, c, FlushedFrames(conn[e]))
  <2>1. DOMAIN c.streams \cap Abandoned(conn[e]) = {}
    BY <1>2, <1>4
  <2> QED BY <2>1, FlushedFields
<1> QED BY <1>5, <1>6, <1>7, StepLawful DEF c

\* The end of send_message.
LEMMA ConcludedFields ==
    ASSUME NEW e, NEW c, Growing(e, c), c.gathering = None,
           NEW m \in AnyMessage, m.id \in DOMAIN c.streams
    PROVE  /\ Onward(e, Concluded(c, m))
           /\ DOMAIN Concluded(c, m).streams \subseteq DOMAIN c.streams
           /\ Concluded(c, m).nextId = c.nextId
<1> DEFINE s == c.streams[m.id]
           t == [s EXCEPT !.state = IF LeavesOpen(m, s.method) THEN s.state ELSE CloseLocal(s.state),
                          !.method = IF m.kind \in Requests THEN m.kind ELSE s.method]
           d == [c EXCEPT !.streams = Retired(c.streams, m.id, t), !.task = "idle",
                          !.sending = None, !.rest = 0]
<1>1. c \in Connection /\ c.streams \in Streams /\ m.id \in Nat
  BY DEF Growing, Connection, AnyMessage
<1>2. s \in AnyStream
  BY <1>1, StreamsMeaning
<1>3. t \in AnyStream
  <2> DEFINE state == IF LeavesOpen(m, s.method) THEN s.state ELSE CloseLocal(s.state)
             method == IF m.kind \in Requests THEN m.kind ELSE s.method
  <2>1. state \in States /\ method \in {"none"} \cup Requests
    BY <1>2, ClosedStates DEF AnyStream
  <2> HIDE DEF s, state, method
  <2>2. [s EXCEPT !.state = state, !.method = method] \in AnyStream
    BY <1>2, <2>1 DEF AnyStream
  <2> QED BY <2>2 DEF state, method
<1>4. Concluded(c, m) = d
  BY DEF Concluded
<1> HIDE DEF t, AnyStream, AnyMessage
<1>5. Retired(c.streams, m.id, t) \in Streams
      /\ DOMAIN Retired(c.streams, m.id, t) \subseteq DOMAIN c.streams
  BY <1>1, <1>3, StreamUpdates
<1>6. /\ d \in Connection /\ d.streams = Retired(c.streams, m.id, t) /\ d.highest = c.highest
      /\ d.nextId = c.nextId /\ d.gathering = None /\ d.task = "idle"
  BY <1>1, <1>5, ZenonT(60) DEF Connection
<1> HIDE DEF d
<1>7. Onward(e, d)
  BY <1>5, <1>6, Narrowed DEF Onward
<1> QED BY <1>4, <1>5, <1>6, <1>7

\* What may be said on a stream that is there, or that this end opens.
LEMMA Spoken ==
    ASSUME NEW e, NEW c, NEW id \in Nat,
           \/ id \in DOMAIN conn[e].streams
           \/ id = 0
           \/ conn[e].nextId <= id /\ id < c.nextId /\ ~PeerOpens(e, id)
    PROVE  /\ \A kind \in Kinds, end, more \in BOOLEAN : AllTruthful(e, c, Block(id, kind, end, more))
           /\ \A m \in AnyMessage : m.id = id => AllTruthful(e, c, Trailers(m))
           /\ \A size \in Nat, end \in BOOLEAN :
                AllTruthful(e, c, << [type |-> "DATA", id |-> id, size |-> size, end |-> end] >>)
           /\ \A size \in Nat : AllTruthful(e, c, Returned(id, size))
<1>1. ASSUME NEW kind \in Kinds, NEW end \in BOOLEAN, NEW more \in BOOLEAN
      PROVE  AllTruthful(e, c, Block(id, kind, end, more))
  <2> DEFINE h == [type |-> "HEADERS", id |-> id, kind |-> kind, end |-> end, more |-> more]
             g == [type |-> "CONTINUATION", id |-> id, more |-> FALSE]
  <2>1. h \in AnyFrame /\ g \in AnyFrame
    <3> HIDE DEF Kinds
    <3> QED BY DEF AnyFrame
  <2>2. Truthful(e, c, h) /\ Truthful(e, c, g)
    BY DEF Truthful, Speaks
  <2>3. Block(id, kind, end, more) = IF more THEN << h, g >> ELSE << h >>
    BY DEF Block
  <2> HIDE DEF h, g
  <2> QED BY <2>1, <2>2, <2>3, TruthfulSequences, SilentPair
<1>2. ASSUME NEW m \in AnyMessage, m.id = id PROVE AllTruthful(e, c, Trailers(m))
  <2>1. "trailers" \in Kinds
    BY DEF Kinds
  <2> HIDE DEF AnyMessage
  <2> QED BY <1>1, <1>2, <2>1, TruthfulSequences DEF Trailers
<1>3. ASSUME NEW size \in Nat, NEW end \in BOOLEAN
      PROVE  AllTruthful(e, c, << [type |-> "DATA", id |-> id, size |-> size, end |-> end] >>)
  <2> DEFINE d == [type |-> "DATA", id |-> id, size |-> size, end |-> end]
  <2>1. d \in AnyFrame
    BY DEF AnyFrame
  <2>2. Truthful(e, c, d)
    BY DEF Truthful, Speaks
  <2> HIDE DEF d
  <2>3. AllTruthful(e, c, << d >>)
    BY <2>1, <2>2, TruthfulSequences
  <2> QED BY <2>3 DEF d
<1>4. ASSUME NEW size \in Nat PROVE AllTruthful(e, c, Returned(id, size))
  <2> DEFINE d == Credit(id, size)
  <2>1. d \in AnyFrame
    BY DEF AnyFrame, Credit
  <2>2. Truthful(e, c, d)
    BY DEF Truthful, Speaks, Credit
  <2> HIDE DEF d
  <2> QED BY <2>1, <2>2, TruthfulSequences DEF Returned, d
<1> QED BY <1>1, <1>2, <1>3, <1>4
\* send_message, with the field section written.
LEMMA SendHeadLawful ==
    ASSUME H2Inv, NEW e \in Endpoints, NEW msg \in AnyMessage, NEW more \in BOOLEAN,
           SendHead(e, msg, more)
    PROVE  Lawful(e)
<1> DEFINE F == Flushed(conn[e])
           m == [msg EXCEPT !.id = IF msg.id = 0 THEN F.nextId ELSE msg.id]
           opened == IF msg.id = 0
                     THEN [F EXCEPT !.streams = With(F.streams, m.id, NewStream(InitialWindow, F.peerWindow)),
                                    !.nextId = F.nextId + 2]
                     ELSE F
           d == [opened EXCEPT !.error = "none", !.returned = None]
           open == LeavesOpen(m, d.streams[m.id].method)
           end == ~open /\ m.body = 0 /\ ~m.trailers
           head == FlushedFrames(conn[e]) \o Block(m.id, m.kind, end, more)
           b == [d EXCEPT !.task = "send", !.sending = m, !.rest = m.body]
<1>1. /\ IF msg.id = 0 THEN TRUE ELSE msg.id \in DOMAIN F.streams
      /\ IF m.body = 0 THEN Step(e, Concluded(d, m), head \o Trailers(m)) ELSE Step(e, b, head)
  BY DEF SendHead
<1>2. /\ F \in Connection /\ Growing(e, F) /\ F.gathering = None /\ F.task = "idle"
      /\ DOMAIN F.streams = DOMAIN conn[e].streams \ Abandoned(conn[e])
      /\ F.nextId = conn[e].nextId /\ F.highest = conn[e].highest
  <2>1. conn[e].task = "idle" /\ conn[e].gathering = None
    BY EndFields DEF SendHead, CanSend
  <2> QED BY <2>1, FlushedFields
<1>3. /\ conn[e].nextId \in Nat /\ conn[e].nextId > 0 /\ ~PeerOpens(e, conn[e].nextId)
      /\ conn[e].nextId \notin DOMAIN conn[e].streams
      /\ DOMAIN conn[e].streams \subseteq Nat
      /\ F.streams \in Streams /\ F.peerWindow \in Nat
  <2>1. Ids(e) /\ conn[e].nextId \in Nat /\ DOMAIN conn[e].streams \subseteq Nat
    BY EndFields
  <2>2. F.streams \in Streams /\ F.peerWindow \in Nat
    BY <1>2 DEF Connection
  <2> QED BY <2>1, <2>2 DEF Ids
<1> HIDE DEF F
<1>4. /\ m \in AnyMessage
      /\ m.id = IF msg.id = 0 THEN conn[e].nextId ELSE msg.id
  BY <1>2, <1>3 DEF AnyMessage
<1>5. m.id \notin Abandoned(conn[e])
      /\ \/ m.id \in DOMAIN conn[e].streams
         \/ msg.id = 0 /\ conn[e].nextId <= m.id /\ ~PeerOpens(e, m.id)
  <2>1. CASE msg.id = 0
    BY <2>1, <1>3, <1>4 DEF Abandoned
  <2>2. CASE msg.id # 0
    <3>1. m.id \in DOMAIN conn[e].streams \ Abandoned(conn[e])
      BY <2>2, <1>1, <1>2, <1>4
    <3> QED BY <3>1
  <2> QED BY <2>1, <2>2
<1> HIDE DEF m
<1>6. /\ opened \in Connection /\ Growing(e, opened) /\ opened.gathering = None
      /\ opened.task = "idle"
      /\ DOMAIN opened.streams = DOMAIN F.streams \cup {m.id}
      /\ msg.id = 0 => m.id < opened.nextId
  <2>1. CASE msg.id # 0
    <3>1. opened = F /\ m.id \in DOMAIN F.streams
      BY <2>1, <1>1, <1>4
    <3> QED BY <2>1, <3>1, <1>2
  <2>2. CASE msg.id = 0
    <3> DEFINE new == NewStream(InitialWindow, F.peerWindow)
               w == With(F.streams, m.id, new)
    <3>1. new \in AnyStream
      BY <1>3, H2Assumption DEF NewStream, AnyStream, States
    <3>2. m.id = conn[e].nextId /\ m.id \in Nat
      BY <2>2, <1>3, <1>4
    <3> HIDE DEF new
    <3>3. w \in Streams /\ DOMAIN w = DOMAIN F.streams \cup {m.id}
      <4> DEFINE old == F.streams
      <4>1. old \in Streams
        BY <1>3
      <4> HIDE DEF old
      <4>2. With(old, m.id, new) \in Streams
        BY ONLY <4>1, <3>1, <3>2, WithStream
      <4>3. DOMAIN With(old, m.id, new) = DOMAIN old \cup {m.id}
        BY DEF With
      <4> QED BY <4>2, <4>3 DEF old
    <3>4. opened = [F EXCEPT !.streams = w, !.nextId = F.nextId + 2]
      BY <2>2 DEF new
    <3> HIDE DEF w, opened
    <3>5. F.nextId + 2 \in Nat
      BY <1>2, <1>3
    <3> DEFINE n == F.nextId + 2
               o == [F EXCEPT !.streams = w, !.nextId = n]
    <3> HIDE DEF n
    <3>6. /\ o \in Connection /\ o.streams = w /\ o.nextId = n
          /\ o.highest = F.highest /\ o.gathering = None /\ o.task = "idle"
      BY <1>2, <3>3, <3>5 DEF Connection, n
    <3>10. /\ opened \in Connection /\ opened.streams = w /\ opened.nextId = conn[e].nextId + 2
           /\ opened.highest = conn[e].highest /\ opened.gathering = None /\ opened.task = "idle"
      BY <1>2, <3>4, <3>6 DEF n
    <3>7. conn[e].highest <= conn[e].highest /\ conn[e].nextId <= conn[e].nextId + 2
          /\ ~PeerOpens(e, conn[e].nextId + 2)
      BY <1>3, EndFields DEF PeerOpens
    <3>8. DOMAIN opened.streams \ DOMAIN conn[e].streams \subseteq {m.id}
      BY <1>2, <3>3, <3>10
    <3>9. Newly(e, opened, m.id)
      BY <1>3, <3>2, <3>10 DEF Newly
    <3>11. m.id < opened.nextId
      BY <1>3, <3>2, <3>10
    <3> QED BY <3>3, <3>10, <3>7, <3>8, <3>9, <3>11 DEF Growing
  <2> QED BY <2>1, <2>2
<1> HIDE DEF opened
<1>7. /\ d \in Connection /\ d.streams = opened.streams /\ d.nextId = opened.nextId
      /\ d.highest = opened.highest /\ d.gathering = None /\ d.task = "idle" /\ d.error = "none"
  BY <1>6, ZenonT(60) DEF Connection
<1> HIDE DEF d
<1>8. Growing(e, d) /\ DOMAIN d.streams \cap Abandoned(conn[e]) = {} /\ m.id \in DOMAIN d.streams
  BY <1>2, <1>5, <1>6, <1>7, Narrowed
<1>9. \A c : DOMAIN c.streams \subseteq DOMAIN d.streams /\ c.nextId = d.nextId =>
        AllTruthful(e, c, head) /\ AllTruthful(e, c, head \o Trailers(m))
  <2> TAKE c
  <2> HAVE DOMAIN c.streams \subseteq DOMAIN d.streams /\ c.nextId = d.nextId
  <2>1. AllTruthful(e, c, FlushedFrames(conn[e]))
    <3>1. DOMAIN c.streams \cap Abandoned(conn[e]) = {}
      BY <1>8
    <3> QED BY <3>1, FlushedFields
  <2>2. m.kind \in Kinds /\ m.id \in Nat /\ end \in BOOLEAN
    BY <1>4 DEF AnyMessage
  <2>3. AllTruthful(e, c, Block(m.id, m.kind, end, more)) /\ AllTruthful(e, c, Trailers(m))
    <3> HIDE DEF end
    <3>1. msg.id = 0 => m.id < c.nextId
      BY <1>6, <1>7
    <3> QED BY <1>4, <1>5, <2>2, <3>1, Spoken
  <2> QED BY <2>1, <2>3, TruthfulSequences
<1> HIDE DEF head, end, open
<1>10. CASE m.body = 0
  <2>1. /\ Onward(e, Concluded(d, m)) /\ DOMAIN Concluded(d, m).streams \subseteq DOMAIN d.streams
        /\ Concluded(d, m).nextId = d.nextId
    BY <1>4, <1>7, <1>8, ConcludedFields
  <2> QED BY <1>1, <1>9, <1>10, <2>1, StepLawful
<1>11. CASE m.body # 0
  <2>1. m.body \in Nat
    BY <1>4 DEF AnyMessage
  <2>2. /\ b \in Connection /\ b.streams = d.streams /\ b.nextId = d.nextId
        /\ b.highest = d.highest /\ b.gathering = None /\ b.sending = m /\ b.error = "none"
    BY <1>4, <1>7, <2>1 DEF Connection
  <2>3. Step(e, b, head)
    BY <1>1, <1>11
  <2> HIDE DEF b
  <2>4. Onward(e, b)
    BY <1>4, <1>8, <2>2, Narrowed DEF Onward, Fatal
  <2> QED BY <1>9, <2>2, <2>3, <2>4, StepLawful
<1> QED BY <1>10, <1>11

\* Min of three numbers is one of them, and none is less.
LEMMA LeastOfThree ==
    ASSUME NEW a \in Int, NEW b \in Int, NEW c \in Int
    PROVE  /\ Min({a, b, c}) \in {a, b, c}
           /\ Min({a, b, c}) <= a /\ Min({a, b, c}) <= b /\ Min({a, b, c}) <= c
<1> DEFINE S == {a, b, c}
<1>1. PICK x \in S : \A y \in S : x <= y
  <2>1. CASE a <= b /\ a <= c
    BY <2>1
  <2>2. CASE b <= a /\ b <= c
    BY <2>2
  <2>3. CASE c <= a /\ c <= b
    BY <2>3
  <2> QED BY <2>1, <2>2, <2>3
<1>2. Min(S) \in S /\ \A y \in S : Min(S) <= y
  BY <1>1 DEF Min
<1> QED BY <1>2

\* One turn of write_data.
LEMMA SendDataLawful ==
    ASSUME H2Inv, NEW e \in Endpoints, SendData(e)
    PROVE  Lawful(e)
<1> DEFINE c == conn[e]
           m == c.sending
           size == Min({c.rest, Window(c), MaxFrame})
           last == size = c.rest
           s == [c.streams[m.id] EXCEPT !.send = c.streams[m.id].send - size]
           spent == [c EXCEPT !.sendWindow = c.sendWindow - size,
                              !.streams = [c.streams EXCEPT ![m.id] = s], !.rest = c.rest - size]
           data == << [type |-> "DATA", id |-> m.id, size |-> size,
                       end |-> last /\ ~m.trailers] >>
<1>1. /\ c \in Connection /\ c.task = "send" /\ m \in AnyMessage /\ m.id \in DOMAIN c.streams
      /\ c.gathering = None /\ c.streams \in Streams /\ c.error \notin Fatal
  <2>1. c \in Connection /\ Steady(c) /\ c.streams \in Streams
    BY EndFields
  <2>2. c.task = "send" /\ m.id \in DOMAIN c.streams /\ Window(c) > 0
    BY DEF SendData, Writing
  <2>3. c.gathering = None
    <3>1. Window(c) \in Int
      <4>1. c.streams[m.id] \in AnyStream
        BY <2>1, <2>2, StreamsMeaning
      <4> QED BY <2>1, <4>1 DEF Window, Connection, AnyStream
    <3> QED BY <2>1, <2>2, <3>1 DEF Steady
  <2> QED BY <2>1, <2>2, <2>3 DEF Steady
<1>2. c.streams[m.id] \in AnyStream /\ Window(c) \in Int /\ Window(c) > 0 /\ c.rest \in Nat
      /\ c.sendWindow \in Int /\ MaxFrame \in Nat
  <2>1. c.streams[m.id] \in AnyStream
    BY <1>1, StreamsMeaning
  <2>2. c.rest \in Nat /\ c.sendWindow \in Int
    BY <1>1 DEF Connection
  <2>3. c.streams[m.id].send \in Int
    BY <2>1 DEF AnyStream
  <2>4. Window(c) \in Int
    BY <2>2, <2>3 DEF Window
  <2> QED BY <2>1, <2>2, <2>4, H2Assumption DEF SendData
<1>3. size \in Nat /\ size <= c.rest
  <2> DEFINE x == c.rest
             y == Window(c)
  <2>1. x \in Int /\ x >= 0 /\ y \in Int /\ y > 0 /\ MaxFrame \in Int /\ MaxFrame >= 0
    BY <1>2
  <2> HIDE DEF x, y
  <2>2. Min({x, y, MaxFrame}) \in {x, y, MaxFrame} /\ Min({x, y, MaxFrame}) <= x
    BY ONLY <2>1, LeastOfThree
  <2>3. Min({x, y, MaxFrame}) \in Nat /\ Min({x, y, MaxFrame}) <= x
    BY <2>1, <2>2
  <2> QED BY <2>3 DEF x, y
<1>4. IF last THEN Step(e, Concluded(spent, m), data \o Trailers(m)) ELSE Step(e, spent, data)
  <2>1. [c EXCEPT !.sendWindow = @ - size, !.streams[m.id].send = @ - size, !.rest = @ - size]
            = spent
    OBVIOUS
  <2> QED BY <2>1 DEF SendData
<1> HIDE DEF size
<1>5. s \in AnyStream
  <2>1. c.streams[m.id].send - size \in Int
    BY <1>2, <1>3 DEF AnyStream
  <2> QED BY <1>2, <2>1 DEF AnyStream
<1> HIDE DEF s
<1>6. [c.streams EXCEPT ![m.id] = s] \in Streams
      /\ DOMAIN [c.streams EXCEPT ![m.id] = s] = DOMAIN c.streams
  BY <1>1, <1>5, ExceptStream
<1> DEFINE w == [c.streams EXCEPT ![m.id] = s]
           window == c.sendWindow - size
           rest == c.rest - size
<1>7. window \in Int /\ rest \in Nat
  BY <1>2, <1>3
<1> HIDE DEF w, window, rest
<1>8. /\ spent \in Connection /\ DOMAIN spent.streams = DOMAIN c.streams
      /\ spent.highest = c.highest /\ spent.nextId = c.nextId /\ spent.gathering = None
      /\ spent.error = c.error /\ spent.task = "send" /\ spent.sending = m
  <2> DEFINE d == [c EXCEPT !.sendWindow = window, !.streams = w, !.rest = rest]
  <2>1. d \in Connection
    BY <1>1, <1>6, <1>7, ZenonT(60) DEF Connection, w
  <2>2. /\ d.streams = w /\ d.highest = c.highest /\ d.nextId = c.nextId /\ d.gathering = None
        /\ d.error = c.error /\ d.task = "send" /\ d.sending = m
    BY <1>1 DEF Connection
  <2>3. spent = d
    BY DEF w, window, rest
  <2> QED BY <1>6, <2>1, <2>2, <2>3 DEF w
<1> HIDE DEF spent
<1>9. Growing(e, spent) /\ Onward(e, spent)
  BY <1>1, <1>8, EndFields, Narrowed DEF Onward
<1>10. \A d : AllTruthful(e, d, data) /\ AllTruthful(e, d, data \o Trailers(m))
  <2> TAKE d
  <2>1. m.id \in Nat /\ (last /\ ~m.trailers) \in BOOLEAN
    BY <1>1 DEF AnyMessage
  <2> HIDE DEF last, m
  <2>2. AllTruthful(e, d, data) /\ AllTruthful(e, d, Trailers(m))
    BY <1>1, <1>3, <2>1, Spoken
  <2> HIDE DEF data
  <2> QED BY <2>2, TruthfulSequences
<1> HIDE DEF data, last
<1>11. Onward(e, Concluded(spent, m))
  BY <1>1, <1>8, <1>9, ConcludedFields
<1> QED BY <1>4, <1>9, <1>10, <1>11, StepLawful

\* write_data, on a stream reset meanwhile.
LEMMA SendInterruptedLawful ==
    ASSUME H2Inv, NEW e \in Endpoints, SendInterrupted(e)
    PROVE  Lawful(e)
<1> DEFINE c == [conn[e] EXCEPT !.task = "idle", !.sending = None, !.rest = 0, !.error = "stream"]
<1>1. conn[e] \in Connection /\ Steady(conn[e]) /\ conn[e].task = "send"
  BY EndFields DEF SendInterrupted, Writing
<1>2. conn[e].gathering = None
  BY <1>1 DEF Steady, SendInterrupted
<1>3. /\ c \in Connection /\ c.streams = conn[e].streams /\ c.highest = conn[e].highest
      /\ c.nextId = conn[e].nextId /\ c.gathering = None /\ c.task = "idle"
  <2>1. c \in Connection
    BY <1>1 DEF Connection
  <2>2. /\ c.streams = conn[e].streams /\ c.highest = conn[e].highest
        /\ c.nextId = conn[e].nextId /\ c.gathering = conn[e].gathering /\ c.task = "idle"
    BY <1>1 DEF Connection
  <2> QED BY <1>2, <2>1, <2>2
<1>4. Step(e, c, <<>>)
  BY DEF SendInterrupted
<1> HIDE DEF c
<1>5. Onward(e, c)
  BY <1>3, EndFields, Narrowed DEF Onward
<1> QED BY <1>4, <1>5, StepLawful, TruthfulSequences
\* A frame whose handler added no stream, and left task and message as they were.
LEMMA HandledSame ==
    ASSUME H2Inv, NEW e \in Endpoints, Listening(e), Uninterrupted(e), NEW c \in Connection,
           DOMAIN c.streams \subseteq DOMAIN conn[e].streams,
           c.highest = conn[e].highest, c.nextId = conn[e].nextId, c.gathering = None,
           c.error = conn[e].error, c.task = conn[e].task, c.sending = conn[e].sending
    PROVE  /\ Growing(e, c) /\ Onward(e, c)
           /\ \A frames : Handled(e, c, None, frames) /\ AllTruthful(e, c, frames) => Lawful(e)
           /\ Overload(e, c, <<>>) => Lawful(e)
<1>1. Onward(e, c) /\ Growing(e, c)
  BY EndFields, SameOnward DEF Onward
<1>2. ASSUME NEW frames, Handled(e, c, None, frames), AllTruthful(e, c, frames) PROVE Lawful(e)
  BY <1>1, <1>2, HandledLawful
<1> QED BY <1>1, <1>2, OverloadLawful

\* Counting a frame changes nothing else (idle).
LEMMA IdledFields ==
    ASSUME H2Inv, NEW e \in Endpoints, Listening(e), Uninterrupted(e)
    PROVE  LET c == Idled(e) IN
           /\ c \in Connection /\ c.streams = conn[e].streams
           /\ c.highest = conn[e].highest /\ c.nextId = conn[e].nextId /\ c.gathering = None
           /\ c.error = conn[e].error /\ c.task = conn[e].task /\ c.sending = conn[e].sending
           /\ c.peerWindow = conn[e].peerWindow /\ c.premature = conn[e].premature
<1>1. conn[e] \in Connection /\ conn[e].gathering = None
  BY EndFields DEF Uninterrupted
<1> DEFINE n == conn[e].idle + 1
           c == [conn[e] EXCEPT !.idle = n]
<1>2. n \in Nat
  BY <1>1 DEF Connection
<1>3. Idled(e) = c
  BY DEF Idled
<1> HIDE DEF n
<1>4. c \in Connection
  BY <1>1, <1>2 DEF Connection
<1>5. /\ c.streams = conn[e].streams
      /\ c.highest = conn[e].highest /\ c.nextId = conn[e].nextId /\ c.gathering = None
      /\ c.error = conn[e].error /\ c.task = conn[e].task /\ c.sending = conn[e].sending
      /\ c.peerWindow = conn[e].peerWindow /\ c.premature = conn[e].premature
  BY <1>1 DEF Connection
<1> QED BY <1>3, <1>4, <1>5

\* handle: a frame too many of those that are counted.
LEMMA HandleWhenExhaustedLawful ==
    ASSUME H2Inv, NEW e \in Endpoints, NEW f, HandleWhenExhausted(e, f)
    PROVE  Lawful(e)
<1>1. conn[e] \in Connection /\ conn[e].gathering = None /\ Listening(e) /\ Uninterrupted(e)
      /\ Overload(e, conn[e], <<>>)
  BY EndFields DEF HandleWhenExhausted, Uninterrupted
<1> QED BY <1>1, HandledSame

\* handle: SETTINGS, which moves the credit of every stream.
LEMMA HandleSettingsLawful ==
    ASSUME H2Inv, NEW e \in Endpoints, NEW f \in AnyFrame, HandleSettings(e, f)
    PROVE  Lawful(e)
<1> DEFINE I == Idled(e)
           change == f.window - conn[e].peerWindow
           streams == conn[e].streams
           moved == [id \in DOMAIN streams |-> [streams[id] EXCEPT !.send = streams[id].send + change]]
           ceiling == IF f.streams = 0 THEN 1 ELSE f.streams
           c == [I EXCEPT !.peerWindow = f.window, !.ceiling = ceiling, !.streams = moved]
<1>1. Listening(e) /\ Uninterrupted(e) /\ f.type = "SETTINGS" /\ Handled(e, c, None, << Plain("ACK") >>)
  BY DEF HandleSettings, Idling
<1>2. /\ I \in Connection /\ I.streams = conn[e].streams
      /\ I.highest = conn[e].highest /\ I.nextId = conn[e].nextId /\ I.gathering = None
      /\ I.error = conn[e].error /\ I.task = conn[e].task /\ I.sending = conn[e].sending
  BY <1>1, IdledFields
<1>3. f.window \in Nat /\ ceiling \in Nat /\ change \in Int
  BY <1>1, FrameFields, EndFields, SMTT(30) DEF Connection
<1>4. moved \in Streams
  <2>1. streams \in Streams
    BY EndFields
  <2>2. IsFiniteSet(DOMAIN streams) /\ DOMAIN streams \subseteq Nat
        /\ \A id \in DOMAIN streams : streams[id] \in AnyStream
    BY <2>1, StreamsMeaning
  <2>3. ASSUME NEW id \in DOMAIN streams PROVE moved[id] \in AnyStream
    <3> DEFINE s == streams[id]
               n == s.send + change
    <3>1. s \in AnyStream /\ moved[id] = [s EXCEPT !.send = n]
      BY <2>2
    <3> HIDE DEF s, change, n
    <3>2. n \in Int
      BY <3>1, <1>3 DEF AnyStream, n
    <3> QED BY <3>1, <3>2 DEF AnyStream
  <2>4. DOMAIN moved = DOMAIN streams /\ moved = [id \in DOMAIN moved |-> moved[id]]
    OBVIOUS
  <2> HIDE DEF moved, streams, AnyStream
  <2> QED BY <2>2, <2>3, <2>4, StreamsMeaning
<1>5. DOMAIN moved = DOMAIN conn[e].streams
  OBVIOUS
<1> HIDE DEF moved, I, ceiling
<1>6. c \in Connection
  BY <1>2, <1>3, <1>4, ZenonT(60) DEF Connection
<1>7. /\ c.streams = moved
      /\ c.highest = I.highest /\ c.nextId = I.nextId /\ c.gathering = None
      /\ c.error = I.error /\ c.task = I.task /\ c.sending = I.sending
  BY <1>2 DEF Connection
<1> HIDE DEF c
<1>8. AllTruthful(e, c, << Plain("ACK") >>)
  BY SilentFrames, TruthfulSequences
<1> QED BY <1>1, <1>2, <1>5, <1>6, <1>7, <1>8, HandledSame

\* handle: PING, its answer, acknowledgements, PRIORITY and GOAWAY.
LEMMA HandleCountedLawful ==
    ASSUME H2Inv, NEW e \in Endpoints, NEW f,
           HandlePing(e, f) \/ HandleIgnored(e, f) \/ HandleGoAway(e, f)
    PROVE  Lawful(e)
<1>1. Listening(e) /\ Uninterrupted(e)
  BY DEF HandlePing, HandleIgnored, HandleGoAway, Idling
<1> DEFINE I == Idled(e)
           g == [I EXCEPT !.goaway = TRUE]
<1>2. /\ I \in Connection /\ I.streams = conn[e].streams
      /\ I.highest = conn[e].highest /\ I.nextId = conn[e].nextId /\ I.gathering = None
      /\ I.error = conn[e].error /\ I.task = conn[e].task /\ I.sending = conn[e].sending
  BY <1>1, IdledFields
<1>3. AllTruthful(e, I, <<>>) /\ AllTruthful(e, I, << Plain("PONG") >>) /\ AllTruthful(e, g, <<>>)
  BY SilentFrames, TruthfulSequences
<1>4. \/ Handled(e, I, None, << Plain("PONG") >>) \/ Handled(e, I, None, <<>>)
      \/ Handled(e, g, None, <<>>)
  BY DEF HandlePing, HandleIgnored, HandleGoAway
<1> HIDE DEF I
<1>5. g \in Connection
  BY <1>2 DEF Connection
<1>6. /\ g.streams = I.streams /\ g.highest = I.highest /\ g.nextId = I.nextId /\ g.gathering = None
      /\ g.error = I.error /\ g.task = I.task /\ g.sending = I.sending
  BY <1>2 DEF Connection
<1> HIDE DEF g
<1> QED BY <1>1, <1>2, <1>3, <1>4, <1>5, <1>6, HandledSame

\* handle: RST_STREAM.
LEMMA HandleRstStreamLawful ==
    ASSUME H2Inv, NEW e \in Endpoints, NEW f, HandleRstStream(e, f)
    PROVE  Lawful(e)
<1> DEFINE I == Idled(e)
           premature == f.id \in DOMAIN I.streams /\ Sendable(I.streams[f.id])
           less == Without(I.streams, f.id)
           count == IF premature THEN I.premature + 1 ELSE I.premature
           d == [I EXCEPT !.streams = less, !.premature = count]
           over == [d EXCEPT !.task = "idle", !.error = "limit"]
<1>1. Listening(e) /\ Uninterrupted(e)
  BY DEF HandleRstStream, Idling
<1>2. \/ Step(e, over, << GoAway(d.highest) >>)
      \/ Handled(e, d, None, <<>>)
  BY DEF HandleRstStream
<1>3. /\ I \in Connection /\ I.streams = conn[e].streams
      /\ I.highest = conn[e].highest /\ I.nextId = conn[e].nextId /\ I.gathering = None
      /\ I.error = conn[e].error /\ I.task = conn[e].task /\ I.sending = conn[e].sending
  BY <1>1, IdledFields
<1> HIDE DEF I
<1>4. less \in Streams /\ DOMAIN less \subseteq DOMAIN conn[e].streams
  BY <1>3, EndFields, WithoutStream, ZenonT(60)
<1>5. count \in Nat
  BY <1>3 DEF Connection
<1> HIDE DEF less, count
<1>6. d \in Connection
  BY <1>3, <1>4, <1>5 DEF Connection
<1>7. /\ d.streams = less /\ d.highest = I.highest /\ d.nextId = I.nextId /\ d.gathering = None
      /\ d.error = I.error /\ d.task = I.task /\ d.sending = I.sending
  BY <1>3 DEF Connection
<1> HIDE DEF d
<1>8. Growing(e, d)
  BY <1>1, <1>3, <1>4, <1>6, <1>7, HandledSame
<1>9. CASE Handled(e, d, None, <<>>)
  BY <1>1, <1>3, <1>4, <1>6, <1>7, <1>9, HandledSame, TruthfulSequences
<1>10. CASE Step(e, over, << GoAway(d.highest) >>)
  <2>1. over \in Connection
    BY <1>6 DEF Connection, Fatal
  <2>2. /\ over.streams = d.streams /\ over.highest = d.highest /\ over.nextId = d.nextId
        /\ over.gathering = None /\ over.task = "idle"
    BY <1>6, <1>7 DEF Connection
  <2>3. d.highest \in Nat
    BY <1>6 DEF Connection
  <2> HIDE DEF over
  <2>4. Onward(e, over)
    BY <1>8, <2>1, <2>2, Narrowed DEF Onward
  <2>5. AllTruthful(e, over, << GoAway(d.highest) >>)
    BY <2>3, SilentFrames, TruthfulSequences
  <2> QED BY <1>10, <2>4, <2>5, StepLawful
<1> QED BY <1>2, <1>9, <1>10

\* handle: every frame that ends the connection.
LEMMA HandleFatalLawful ==
    ASSUME H2Inv, NEW e \in Endpoints, NEW f,
           \/ HandleRefused(e, f) \/ HandleEof(e, f) \/ HandleInterruption(e, f)
           \/ HandleStrayHeaders(e, f) \/ HandleStrayData(e, f)
    PROVE  Lawful(e)
<1>1. PICK error \in Fatal : Fail(e, error, <<>>)
  BY DEF HandleRefused, HandleEof, HandleInterruption, HandleStrayHeaders, HandleStrayData, Fatal
<1> QED BY <1>1, FailLawful, TruthfulSequences

\* handle: credit that was taken, counted if it unblocked nothing.
LEMMA GrantedLawful ==
    ASSUME H2Inv, NEW e \in Endpoints, Listening(e), Uninterrupted(e), NEW c \in Connection,
           DOMAIN c.streams \subseteq DOMAIN conn[e].streams,
           c.highest = conn[e].highest, c.nextId = conn[e].nextId, c.gathering = None,
           c.error = conn[e].error, c.task = conn[e].task, c.sending = conn[e].sending,
           NEW unblocked, Granted(e, c, unblocked)
    PROVE  Lawful(e)
<1> DEFINE i == c.idle + 1
<1>1. i \in Nat
  BY DEF Connection
<1>2. PICK n \in Nat : \/ Handled(e, [c EXCEPT !.idle = n], None, <<>>)
                       \/ Overload(e, c, <<>>)
  BY <1>1 DEF Granted
<1> DEFINE d == [c EXCEPT !.idle = n]
<1>3. d \in Connection
  BY DEF Connection
<1>4. /\ d.streams = c.streams
      /\ d.highest = c.highest /\ d.nextId = c.nextId /\ d.gathering = None
      /\ d.error = c.error /\ d.task = c.task /\ d.sending = c.sending
  BY DEF Connection
<1> HIDE DEF d
<1>5. Handled(e, d, None, <<>>) => Lawful(e)
  BY <1>3, <1>4, HandledSame, TruthfulSequences
<1>6. Overload(e, c, <<>>) => Lawful(e)
  BY HandledSame
<1> QED BY <1>2, <1>5, <1>6 DEF d

\* handle: WINDOW_UPDATE of the connection.
LEMMA HandleConnectionCreditLawful ==
    ASSUME H2Inv, NEW e \in Endpoints, NEW f \in AnyFrame, HandleConnectionCredit(e, f)
    PROVE  Lawful(e)
<1> DEFINE window == conn[e].sendWindow + f.size
           c == [conn[e] EXCEPT !.sendWindow = window]
<1>1. Listening(e) /\ Uninterrupted(e) /\ f.type = "WINDOW"
      /\ (Fail(e, "protocol", <<>>) \/ Granted(e, c, Unblocks(conn[e].sendWindow, f.size)))
  BY DEF HandleConnectionCredit
<1>2. conn[e] \in Connection /\ conn[e].gathering = None
  BY <1>1, EndFields DEF Uninterrupted
<1>3. window \in Int
  BY <1>1, <1>2, FrameFields DEF Connection
<1> HIDE DEF window
<1>4. c \in Connection
  BY <1>2, <1>3 DEF Connection
<1>5. /\ c.streams = conn[e].streams
      /\ c.highest = conn[e].highest /\ c.nextId = conn[e].nextId /\ c.gathering = None
      /\ c.error = conn[e].error /\ c.task = conn[e].task /\ c.sending = conn[e].sending
  BY <1>2 DEF Connection
<1> HIDE DEF c
<1>6. Granted(e, c, Unblocks(conn[e].sendWindow, f.size)) => Lawful(e)
  BY <1>1, <1>4, <1>5, GrantedLawful
<1>7. Fail(e, "protocol", <<>>) => Lawful(e)
  BY FailLawful, TruthfulSequences DEF Fatal
<1> QED BY <1>1, <1>6, <1>7
\* An end of which only the streams change, and by none added.
LEMMA StreamsChanged ==
    ASSUME NEW e, NEW c, Growing(e, c), NEW w \in Streams, DOMAIN w \subseteq DOMAIN c.streams
    PROVE  LET d == [c EXCEPT !.streams = w] IN
           /\ d \in Connection /\ Growing(e, d) /\ d.streams = w
           /\ d.highest = c.highest /\ d.nextId = c.nextId /\ d.gathering = c.gathering
           /\ d.error = c.error /\ d.task = c.task /\ d.sending = c.sending
           /\ c.gathering = None /\ Steady(c) => Steady(d)
<1> DEFINE d == [c EXCEPT !.streams = w]
<1>1. c \in Connection
  BY DEF Growing
<1>2. d \in Connection
  BY <1>1 DEF Connection
<1>3. /\ d.streams = w
      /\ d.highest = c.highest /\ d.nextId = c.nextId /\ d.gathering = c.gathering
      /\ d.error = c.error /\ d.task = c.task /\ d.sending = c.sending
  BY <1>1 DEF Connection
<1> HIDE DEF d
<1>4. Growing(e, d)
  BY <1>2, <1>3, Narrowed
<1>5. c.gathering = None /\ Steady(c) => Steady(d)
  BY <1>3 DEF Steady
<1> QED BY <1>2, <1>3, <1>4, <1>5 DEF d

\* handle: WINDOW_UPDATE of a stream.
LEMMA HandleStreamCreditLawful ==
    ASSUME H2Inv, NEW e \in Endpoints, NEW f \in AnyFrame, HandleStreamCredit(e, f)
    PROVE  Lawful(e)
<1> DEFINE c == conn[e]
           before == c.streams[f.id].send
<1>1. /\ Listening(e) /\ Uninterrupted(e) /\ f.type = "WINDOW" /\ f.id \in Nat /\ f.size \in Nat
      /\ Growing(e, c) /\ c \in Connection /\ c.streams \in Streams /\ c.gathering = None
      /\ Steady(c)
  BY EndFields, FrameFields DEF HandleStreamCredit, Uninterrupted
<1>2. CASE f.id \notin DOMAIN c.streams
  <2>1. Granted(e, c, FALSE)
    BY <1>2 DEF HandleStreamCredit
  <2> QED BY <1>1, <2>1, GrantedLawful
<1>3. CASE f.id \in DOMAIN c.streams /\ before + f.size > MaximumWindow
  <2> DEFINE w == Without(c.streams, f.id)
             d == [c EXCEPT !.streams = w]
  <2>1. Handled(e, d, None, << Rst(f.id) >>)
    BY <1>3 DEF HandleStreamCredit
  <2>2. w \in Streams /\ DOMAIN w = DOMAIN c.streams \ {f.id}
    BY <1>1, WithoutStream
  <2> HIDE DEF w
  <2>3. /\ d \in Connection /\ d.streams = w
        /\ d.highest = c.highest /\ d.nextId = c.nextId /\ d.gathering = c.gathering
        /\ d.error = c.error /\ d.task = c.task /\ d.sending = c.sending
    BY <1>1, <2>2, StreamsChanged
  <2> HIDE DEF d
  <2>4. Rst(f.id) \in AnyFrame /\ Truthful(e, d, Rst(f.id))
    BY <1>1, <1>3, <2>2, <2>3 DEF Rst, AnyFrame, Truthful, Speaks
  <2>5. AllTruthful(e, d, << Rst(f.id) >>)
    BY <2>4, TruthfulSequences
  <2> QED BY <1>1, <2>1, <2>2, <2>3, <2>5, HandledSame
<1>4. CASE f.id \in DOMAIN c.streams /\ ~(before + f.size > MaximumWindow)
  <2> DEFINE s == [c.streams[f.id] EXCEPT !.send = before + f.size]
             w == [c.streams EXCEPT ![f.id] = s]
             d == [c EXCEPT !.streams = w]
  <2>1. Granted(e, d, Unblocks(before, f.size))
    <3>1. [c EXCEPT !.streams[f.id].send = @ + f.size] = d
      OBVIOUS
    <3> QED BY <1>4, <3>1 DEF HandleStreamCredit
  <2>2. s \in AnyStream
    <3>1. c.streams[f.id] \in AnyStream
      BY <1>1, <1>4, StreamsMeaning
    <3>2. before + f.size \in Int
      BY <1>1, <3>1 DEF AnyStream
    <3> QED BY <3>1, <3>2 DEF AnyStream
  <2> HIDE DEF s, before
  <2>3. w \in Streams /\ DOMAIN w = DOMAIN c.streams
    BY <1>1, <1>4, <2>2, ExceptStream
  <2> HIDE DEF w
  <2>4. /\ d \in Connection /\ d.streams = w
        /\ d.highest = c.highest /\ d.nextId = c.nextId /\ d.gathering = c.gathering
        /\ d.error = c.error /\ d.task = c.task /\ d.sending = c.sending
    BY <1>1, <2>3, StreamsChanged
  <2> HIDE DEF d
  <2> QED BY <1>1, <2>1, <2>3, <2>4, GrantedLawful
<1> QED BY <1>2, <1>3, <1>4

\* complete: a message is taken off its stream.
LEMMA TakenLawful ==
    ASSUME H2Inv, NEW e \in Endpoints, NEW c, Onward(e, c), c.gathering = None,
           NEW id \in DOMAIN c.streams, NEW end \in BOOLEAN, NEW frames,
           AllTruthful(e, c, frames), Taken(e, c, id, end, frames)
    PROVE  Lawful(e)
<1> DEFINE s == c.streams[id]
           t == [s EXCEPT !.state = IF end THEN CloseRemote(s.state) ELSE s.state]
           rest == [t EXCEPT !.headers = "none", !.trailers = FALSE, !.body = 0]
           m == [id |-> id, kind |-> t.headers, body |-> t.body, trailers |-> t.trailers]
           w == [c.streams EXCEPT ![id] = t]
           v == Retired(c.streams, id, rest)
<1>1. /\ c \in Connection /\ Growing(e, c) /\ Steady(c) /\ c.streams \in Streams /\ id \in Nat
      /\ s \in AnyStream
  <2>1. c \in Connection /\ Growing(e, c) /\ Steady(c) /\ c.streams \in Streams
    BY DEF Onward, Growing, Connection
  <2> QED BY <2>1, StreamsMeaning
<1>2. t \in AnyStream
  <2> DEFINE state == IF end THEN CloseRemote(s.state) ELSE s.state
  <2>1. state \in States
    BY <1>1, ClosedStates DEF AnyStream
  <2> HIDE DEF state, s
  <2>2. [s EXCEPT !.state = state] \in AnyStream
    BY <1>1, <2>1 DEF AnyStream
  <2> QED BY <2>2 DEF state
<1>3. IF t.headers = "none"
      THEN Handled(e, [c EXCEPT !.streams = w], None, frames)
      ELSE Handled(e, [c EXCEPT !.streams = v], m, frames)
  BY DEF Taken
<1> HIDE DEF t
<1>4. rest \in AnyStream
  BY <1>2 DEF AnyStream
<1>5. t.headers # "none" => m \in AnyMessage
  BY <1>1, <1>2 DEF AnyStream, AnyMessage
<1> HIDE DEF rest, m, s
<1>6. w \in Streams /\ DOMAIN w \subseteq DOMAIN c.streams
  BY <1>1, <1>2, ExceptStream
<1>7. v \in Streams /\ DOMAIN v \subseteq DOMAIN c.streams
  BY <1>1, <1>4, StreamUpdates
<1> HIDE DEF w, v
<1>8. ASSUME NEW x \in {w, v}
      PROVE  LET d == [c EXCEPT !.streams = x] IN
             Onward(e, d) /\ d.gathering = None /\ AllTruthful(e, d, frames)
  <2> DEFINE d == [c EXCEPT !.streams = x]
  <2>1. x \in Streams /\ DOMAIN x \subseteq DOMAIN c.streams
    BY <1>6, <1>7
  <2>2. /\ d \in Connection /\ Growing(e, d) /\ d.streams = x /\ d.gathering = None /\ Steady(d)
        /\ d.highest = c.highest /\ d.nextId = c.nextId
    BY <1>1, <2>1, StreamsChanged
  <2> HIDE DEF d
  <2>3. AllTruthful(e, d, frames)
    BY <1>1, <2>1, <2>2, Narrowed
  <2> QED BY <2>2, <2>3 DEF Onward, d
<1>9. CASE t.headers = "none"
  BY <1>3, <1>8, <1>9, HandledLawful
<1>10. CASE t.headers # "none"
  BY <1>3, <1>5, <1>8, <1>10, HandledLawful
<1> QED BY <1>9, <1>10

\* finish_headers: a field section is whole.
LEMMA FinishHeadersLawful ==
    ASSUME H2Inv, NEW e \in Endpoints, NEW begun, Growing(e, begun), begun.error \notin Fatal,
           begun.task = "send" => begun.sending \in AnyMessage,
           NEW x, x.id \in DOMAIN begun.streams, x.kind \in Kinds, x.end \in BOOLEAN,
           FinishHeaders(e, begun, x)
    PROVE  Lawful(e)
<1> DEFINE old == begun.streams[x.id]
           s == [old EXCEPT !.head = old.head + 1]
           c == [begun EXCEPT !.idle = 0, !.gathering = None,
                              !.streams = [begun.streams EXCEPT ![x.id] = s]]
           trailing == s.headers # "none"
           opened == [s EXCEPT !.state = IF s.state = "Idle" THEN "Open" ELSE s.state]
           t == IF trailing THEN [opened EXCEPT !.trailers = TRUE]
                ELSE [opened EXCEPT !.headers = x.kind,
                                    !.method = IF x.kind \in Requests THEN x.kind ELSE opened.method]
           d == [c EXCEPT !.streams = [c.streams EXCEPT ![x.id] = t]]
           i == [c EXCEPT !.streams = [c.streams EXCEPT ![x.id] = opened]]
           m == [id |-> x.id, kind |-> "interim", body |-> 0, trailers |-> FALSE]
<1>1. /\ begun \in Connection /\ begun.streams \in Streams /\ x.id \in Nat /\ old \in AnyStream
  <2>1. begun \in Connection /\ begun.streams \in Streams
    BY DEF Growing, Connection
  <2> QED BY <2>1, StreamsMeaning
<1>2. s \in AnyStream
  <2>1. old.head + 1 \in Nat
    BY <1>1 DEF AnyStream
  <2> QED BY <1>1, <2>1 DEF AnyStream
<1>3. \/ \E error \in Fatal : Fail(e, error, <<>>)
      \/ Handled(e, i, m, <<>>)
      \/ Taken(e, d, x.id, x.end, <<>>)
      \/ Handled(e, d, None, <<>>)
  BY DEF FinishHeaders, Fatal
<1> HIDE DEF s
<1>4. opened \in AnyStream
  <2> DEFINE state == IF s.state = "Idle" THEN "Open" ELSE s.state
  <2>1. state \in States
    BY <1>2 DEF AnyStream, States
  <2> HIDE DEF state
  <2>2. [s EXCEPT !.state = state] \in AnyStream
    BY <1>2, <2>1 DEF AnyStream
  <2> QED BY <2>2 DEF state
<1> HIDE DEF opened
<1>5. t \in AnyStream
  <2> DEFINE method == IF x.kind \in Requests THEN x.kind ELSE opened.method
  <2>1. method \in {"none"} \cup Requests
    BY <1>4 DEF AnyStream
  <2> HIDE DEF method
  <2>2. [opened EXCEPT !.trailers = TRUE] \in AnyStream
    BY <1>4 DEF AnyStream
  <2>3. [opened EXCEPT !.headers = x.kind, !.method = method] \in AnyStream
    BY <1>4, <2>1 DEF AnyStream
  <2> QED BY <2>2, <2>3 DEF method
<1> HIDE DEF t
<1>6. c \in Connection /\ Growing(e, c) /\ c.gathering = None /\ Steady(c)
      /\ c.streams \in Streams /\ x.id \in DOMAIN c.streams
  <2> DEFINE w == [begun.streams EXCEPT ![x.id] = s]
  <2>1. w \in Streams /\ DOMAIN w = DOMAIN begun.streams
    BY <1>1, <1>2, ExceptStream
  <2> HIDE DEF w
  <2>2. c = [begun EXCEPT !.idle = 0, !.gathering = None, !.streams = w]
    BY DEF w
  <2> HIDE DEF c
  <2>3. c \in Connection
    BY <1>1, <2>1, <2>2 DEF Connection
  <2>4. /\ c.streams = w /\ c.highest = begun.highest /\ c.nextId = begun.nextId
        /\ c.gathering = None /\ c.task = begun.task /\ c.error = begun.error
        /\ c.sending = begun.sending
    BY <1>1, <2>2 DEF Connection
  <2> QED BY <2>1, <2>3, <2>4, Narrowed
<1> HIDE DEF c
<1>7. ASSUME NEW u \in {t, opened}
      PROVE  LET b == [c EXCEPT !.streams = [c.streams EXCEPT ![x.id] = u]] IN
             Onward(e, b) /\ b.gathering = None /\ x.id \in DOMAIN b.streams
  <2> DEFINE w == [c.streams EXCEPT ![x.id] = u]
  <2>1. u \in AnyStream
    BY <1>4, <1>5
  <2>2. w \in Streams /\ DOMAIN w = DOMAIN c.streams
    BY <1>6, <2>1, ExceptStream
  <2> HIDE DEF w
  <2> DEFINE b == [c EXCEPT !.streams = w]
  <2>3. Growing(e, b) /\ Steady(b) /\ b.streams = w /\ b.gathering = None
    BY <1>6, <2>2, StreamsChanged
  <2> HIDE DEF b
  <2>4. Onward(e, b) /\ b.gathering = None /\ x.id \in DOMAIN b.streams
    BY <1>6, <2>2, <2>3 DEF Onward
  <2> QED BY <2>4 DEF b, w
<1>8. Onward(e, d) /\ d.gathering = None /\ x.id \in DOMAIN d.streams
  BY <1>7
<1>9. Onward(e, i) /\ i.gathering = None
  BY <1>7
<1>10. m \in AnyMessage
  BY <1>1 DEF AnyMessage, Kinds
<1> HIDE DEF d, i, m
<1>11. AllTruthful(e, d, <<>>) /\ AllTruthful(e, i, <<>>) /\ AllTruthful(e, conn[e], <<>>)
  BY TruthfulSequences
<1>12. CASE \E error \in Fatal : Fail(e, error, <<>>)
  BY <1>11, <1>12, FailLawful
<1>13. CASE Handled(e, i, m, <<>>)
  BY <1>9, <1>10, <1>11, <1>13, HandledLawful
<1>14. CASE Taken(e, d, x.id, x.end, <<>>)
  BY <1>8, <1>11, <1>14, TakenLawful
<1>15. CASE Handled(e, d, None, <<>>)
  BY <1>8, <1>11, <1>15, HandledLawful
<1> QED BY <1>3, <1>12, <1>13, <1>14, <1>15
\* An end that listens has not failed, and has no credit if it is writing.
LEMMA Waiting ==
    ASSUME H2Inv, NEW e \in Endpoints, Listening(e)
    PROVE  /\ conn[e].task \in {"receive", "send"} /\ conn[e].error \notin Fatal
           /\ conn[e].task = "send" =>
                /\ conn[e].sending \in AnyMessage
                /\ conn[e].sending.id \in DOMAIN conn[e].streams /\ Window(conn[e]) <= 0
<1>1. conn[e].task \in {"receive", "send"} /\ conn[e].error \notin Fatal
      /\ (conn[e].task = "send" => conn[e].sending \in AnyMessage)
  <2>1. conn[e].task \in {"idle", "receive", "send"}
    BY EndFields DEF Connection
  <2> QED BY <2>1, EndFields
<1>2. conn[e].task = "receive" \/ Blocked(e)
  BY DEF Listening
<1> QED BY <1>1, <1>2 DEF Blocked

\* begin_stream adds the stream, with a number of the peer's not used before.
LEMMA BegunFields ==
    ASSUME H2Inv, NEW e \in Endpoints, Listening(e), NEW id \in Nat, MayBegin(e, id)
    PROVE  LET c == Begun(e, id) IN
           /\ Growing(e, c) /\ id \in DOMAIN c.streams
           /\ DOMAIN conn[e].streams \subseteq DOMAIN c.streams
           /\ \A x \in DOMAIN conn[e].streams : c.streams[x] = conn[e].streams[x]
           /\ c.error = conn[e].error /\ c.task = conn[e].task /\ c.sending = conn[e].sending
           /\ c.sendWindow = conn[e].sendWindow
<1>1. conn[e] \in Connection /\ Growing(e, conn[e])
  BY EndFields
<1>2. CASE id \in DOMAIN conn[e].streams
  BY <1>1, <1>2 DEF Begun
<1>3. CASE id \notin DOMAIN conn[e].streams
  <2> DEFINE new == NewStream(InitialWindow, conn[e].peerWindow)
             old == conn[e].streams
             w == With(old, id, new)
             c == [conn[e] EXCEPT !.highest = id, !.streams = w]
  <2>1. Begun(e, id) = c /\ PeerOpens(e, id) /\ id > conn[e].highest
    BY <1>3 DEF Begun, MayBegin
  <2>2. new \in AnyStream
    <3>1. conn[e].peerWindow \in Nat
      BY <1>1 DEF Connection
    <3> QED BY <3>1, H2Assumption DEF NewStream, AnyStream, States
  <2>3. old \in Streams
    BY EndFields
  <2> HIDE DEF new
  <2>4. w \in Streams /\ DOMAIN w = DOMAIN old \cup {id}
        /\ \A x \in DOMAIN old \ {id} : w[x] = old[x]
    <3> HIDE DEF old
    <3>1. w \in Streams
      BY <2>2, <2>3, WithStream
    <3>2. DOMAIN w = DOMAIN old \cup {id}
      BY DEF With
    <3>3. \A x \in DOMAIN old \ {id} : w[x] = old[x]
      BY DEF With
    <3> QED BY <3>1, <3>2, <3>3
  <2> HIDE DEF w
  <2>5. c \in Connection
    BY <1>1, <2>4 DEF Connection
  <2>6. /\ c.streams = w /\ c.highest = id /\ c.nextId = conn[e].nextId
        /\ c.error = conn[e].error /\ c.task = conn[e].task /\ c.sending = conn[e].sending
        /\ c.sendWindow = conn[e].sendWindow
    BY <1>1 DEF Connection
  <2> HIDE DEF c
  <2>7. conn[e].highest \in Nat /\ conn[e].nextId \in Nat /\ ~PeerOpens(e, conn[e].nextId)
    BY EndFields DEF Ids
  <2>8. Growing(e, c)
    BY <2>1, <2>4, <2>5, <2>6, <2>7 DEF Growing, Newly
  <2> QED BY <1>3, <2>1, <2>4, <2>6, <2>8
<1> QED BY <1>2, <1>3

\* A block that goes on leaves the credit of what is being sent as it was.
LEMMA GatheringLawful ==
    ASSUME H2Inv, NEW e \in Endpoints, Listening(e), NEW begun, Growing(e, begun),
           DOMAIN conn[e].streams \subseteq DOMAIN begun.streams,
           \A x \in DOMAIN conn[e].streams : begun.streams[x] = conn[e].streams[x],
           begun.error = conn[e].error, begun.task = conn[e].task,
           begun.sending = conn[e].sending, begun.sendWindow = conn[e].sendWindow,
           NEW x \in [id : Nat, kind : Kinds, end : BOOLEAN, frames : Nat],
           x.id \in DOMAIN begun.streams,
           Step(e, [begun EXCEPT !.gathering = x], <<>>)
    PROVE  Lawful(e)
<1> DEFINE c == [begun EXCEPT !.gathering = x]
<1>1. begun \in Connection
  BY DEF Growing
<1>2. c \in Connection
  BY <1>1 DEF Connection
<1>3. /\ c.streams = begun.streams /\ c.highest = begun.highest /\ c.nextId = begun.nextId
      /\ c.error = begun.error /\ c.task = begun.task /\ c.sending = begun.sending
      /\ c.sendWindow = begun.sendWindow /\ c.gathering = x
  BY <1>1 DEF Connection
<1> HIDE DEF c
<1>4. Growing(e, c)
  BY <1>2, <1>3, Narrowed
<1>5. Steady(c)
  <2>1. /\ c.task \in {"receive", "send"} /\ c.error \notin Fatal
        /\ c.task = "send" =>
             /\ c.sending \in AnyMessage /\ c.sending.id \in DOMAIN c.streams /\ Window(c) <= 0
    BY <1>3, Waiting DEF Window
  <2> QED BY <1>3, <2>1 DEF Steady
<1> QED BY <1>4, <1>5, StepLawful, TruthfulSequences DEF Onward, c

\* handle: HEADERS that may begin, or be on, a stream.
LEMMA HandleHeadersLawful ==
    ASSUME H2Inv, NEW e \in Endpoints, NEW f \in AnyFrame, HandleHeaders(e, f)
    PROVE  Lawful(e)
<1> DEFINE x == [id |-> f.id, kind |-> f.kind, end |-> f.end, frames |-> 1]
           begun == Begun(e, f.id)
<1>1. /\ Listening(e) /\ f.id \in Nat /\ f.kind \in Kinds /\ f.end \in BOOLEAN
      /\ MayBegin(e, f.id)
      /\ IF f.more THEN Step(e, [begun EXCEPT !.gathering = x], <<>>)
                   ELSE FinishHeaders(e, begun, x)
  BY FrameFields DEF HandleHeaders
<1>2. /\ Growing(e, begun) /\ f.id \in DOMAIN begun.streams
      /\ DOMAIN conn[e].streams \subseteq DOMAIN begun.streams
      /\ \A i \in DOMAIN conn[e].streams : begun.streams[i] = conn[e].streams[i]
      /\ begun.error = conn[e].error /\ begun.task = conn[e].task
      /\ begun.sending = conn[e].sending /\ begun.sendWindow = conn[e].sendWindow
  BY <1>1, BegunFields
<1>3. x \in [id : Nat, kind : Kinds, end : BOOLEAN, frames : Nat] /\ x.id = f.id
      /\ x.kind \in Kinds /\ x.end \in BOOLEAN
  BY <1>1
<1> HIDE DEF begun, x
<1>4. CASE f.more
  BY <1>1, <1>2, <1>3, <1>4, GatheringLawful
<1>5. CASE ~f.more
  <2>1. /\ begun.error \notin Fatal
        /\ begun.task = "send" => begun.sending \in AnyMessage
    BY <1>1, <1>2, Waiting
  <2> QED BY <1>1, <1>2, <1>3, <1>5, <2>1, FinishHeadersLawful
<1> QED BY <1>4, <1>5

\* continue_headers.
LEMMA HandleContinuationLawful ==
    ASSUME H2Inv, NEW e \in Endpoints, NEW f, HandleContinuation(e, f)
    PROVE  Lawful(e)
<1> DEFINE g == conn[e].gathering
           x == [g EXCEPT !.frames = g.frames + 1]
<1>1. /\ Listening(e) /\ g # None
      /\ \/ FinishHeaders(e, conn[e], x)
         \/ Fail(e, "limit", <<>>)
         \/ Step(e, [conn[e] EXCEPT !.gathering = x], <<>>)
  BY DEF HandleContinuation, Uninterrupted
<1>2. conn[e] \in Connection /\ Growing(e, conn[e]) /\ Steady(conn[e])
  BY EndFields
<1>3. g \in [id : Nat, kind : Kinds, end : BOOLEAN, frames : Nat] /\ g.id \in DOMAIN conn[e].streams
  BY <1>1, <1>2 DEF Connection, Steady
<1>4. x \in [id : Nat, kind : Kinds, end : BOOLEAN, frames : Nat] /\ x.id = g.id
      /\ x.kind \in Kinds /\ x.end \in BOOLEAN
  <2> HIDE DEF g
  <2> QED BY <1>3
<1> HIDE DEF x
<1>5. CASE FinishHeaders(e, conn[e], x)
  BY <1>1, <1>2, <1>3, <1>4, <1>5, Waiting, FinishHeadersLawful
<1>6. CASE Fail(e, "limit", <<>>)
  BY <1>6, FailLawful, TruthfulSequences DEF Fatal
<1>7. CASE Step(e, [conn[e] EXCEPT !.gathering = x], <<>>)
  BY <1>1, <1>2, <1>3, <1>4, <1>7, GatheringLawful
<1> QED BY <1>1, <1>5, <1>6, <1>7

\* handle: DATA on a stream that may receive it.
LEMMA HandleDataLawful ==
    ASSUME H2Inv, NEW e \in Endpoints, NEW f \in AnyFrame, HandleData(e, f)
    PROVE  Lawful(e)
<1> DEFINE s == conn[e].streams[f.id]
           empty == f.size = 0 /\ ~f.end
           idle == IF empty THEN conn[e].idle + 1 ELSE 0
           c == [conn[e] EXCEPT !.idle = idle]
           body == s.body + f.size
           t == [s EXCEPT !.body = body]
           w == [c.streams EXCEPT ![f.id] = t]
           bound == c.bound + f.size
           r == [c EXCEPT !.streams = w, !.bound = bound]
           d == Rebound(r)
           g == [c EXCEPT !.streams = Without(c.streams, f.id)]
           back == Returned(0, f.size)
           credits == back \o Returned(f.id, f.size)
<1>1. /\ Listening(e) /\ Uninterrupted(e) /\ f.id \in DOMAIN conn[e].streams
      /\ f.id \in Nat /\ f.size \in Nat /\ f.end \in BOOLEAN
  BY FrameFields DEF HandleData
<1>2. \/ Overload(e, conn[e], <<>>)
      \/ Fail(e, "protocol", <<>>)
      \/ Handled(e, g, None, back \o << Rst(f.id) >>)
      \/ Fail(e, "limit", back)
      \/ Taken(e, d, f.id, TRUE, credits)
      \/ Handled(e, d, None, credits)
  <2>1. [c EXCEPT !.streams[f.id].body = body, !.bound = @ + f.size] = r
    OBVIOUS
  <2> HIDE DEF r, g
  <2> QED BY <2>1 DEF HandleData, GivenBack, g
<1>3. conn[e] \in Connection /\ conn[e].streams \in Streams /\ s \in AnyStream
      /\ Growing(e, conn[e]) /\ conn[e].gathering = None /\ Steady(conn[e])
  BY <1>1, EndFields, StreamsMeaning DEF Uninterrupted
<1>4. idle \in Nat /\ body \in Nat
  <2>1. conn[e].idle \in Nat /\ s.body \in Nat
    <3> HIDE DEF s
    <3> QED BY <1>3 DEF Connection, AnyStream
  <2> QED BY <1>1, <2>1
<1>5. t \in AnyStream
  <2> HIDE DEF body, s
  <2> QED BY <1>3, <1>4 DEF AnyStream
<1> HIDE DEF s, body, t, idle
<1>6. /\ c \in Connection /\ c.streams = conn[e].streams
      /\ c.highest = conn[e].highest /\ c.nextId = conn[e].nextId /\ c.gathering = None
      /\ c.error = conn[e].error /\ c.task = conn[e].task /\ c.sending = conn[e].sending
  <2>1. c \in Connection
    BY <1>3, <1>4 DEF Connection
  <2> QED BY <1>3, <2>1 DEF Connection
<1> HIDE DEF c
<1>7. Growing(e, c) /\ Onward(e, c)
  BY <1>1, <1>6, HandledSame
<1>8. w \in Streams /\ DOMAIN w = DOMAIN conn[e].streams
  BY <1>1, <1>3, <1>5, <1>6, ExceptStream
<1> HIDE DEF w
<1>9. bound \in Nat
  BY <1>1, <1>6 DEF Connection
<1> HIDE DEF bound
<1>10. /\ r \in Connection /\ r.streams = w
       /\ r.highest = c.highest /\ r.nextId = c.nextId /\ r.gathering = None
       /\ r.error = c.error /\ r.task = c.task /\ r.sending = c.sending
  <2>1. r \in Connection
    BY <1>6, <1>8, <1>9 DEF Connection
  <2> QED BY <1>6, <2>1 DEF Connection
<1> HIDE DEF r
<1>11. /\ d \in Connection /\ d.streams = w
       /\ d.highest = c.highest /\ d.nextId = c.nextId /\ d.gathering = None
       /\ d.error = c.error /\ d.task = c.task /\ d.sending = c.sending
  <2> DEFINE n == Buffered(r.streams)
             b == [r EXCEPT !.bound = n]
  <2>1. n \in Nat
    BY <1>8, <1>10, BufferedType
  <2>2. d = r \/ d = b
    BY DEF Rebound
  <2> HIDE DEF n
  <2>3. b \in Connection
    BY <1>10, <2>1 DEF Connection
  <2>4. /\ b.streams = r.streams
        /\ b.highest = r.highest /\ b.nextId = r.nextId /\ b.gathering = r.gathering
        /\ b.error = r.error /\ b.task = r.task /\ b.sending = r.sending
    BY <1>10 DEF Connection
  <2> HIDE DEF b, d
  <2> QED BY <1>10, <2>2, <2>3, <2>4
<1> HIDE DEF d
<1>12. Onward(e, d)
  BY <1>1, <1>6, <1>8, <1>11, HandledSame
<1>13. \A x : AllTruthful(e, x, back) /\ AllTruthful(e, x, credits)
  <2> TAKE x
  <2>1. AllTruthful(e, x, back) /\ AllTruthful(e, x, Returned(f.id, f.size))
    BY <1>1, Spoken
  <2> HIDE DEF back
  <2> QED BY <2>1, TruthfulSequences
<1> HIDE DEF back, credits
<1>14. CASE Overload(e, conn[e], <<>>)
  BY <1>1, <1>3, <1>14, HandledSame
<1>15. CASE Fail(e, "protocol", <<>>)
  BY <1>15, FailLawful, TruthfulSequences DEF Fatal
<1>16. CASE Fail(e, "limit", back)
  BY <1>13, <1>16, FailLawful DEF Fatal
<1>17. CASE Handled(e, g, None, back \o << Rst(f.id) >>)
  <2> DEFINE v == Without(c.streams, f.id)
  <2>1. v \in Streams /\ DOMAIN v = DOMAIN c.streams \ {f.id}
    BY <1>3, <1>6, WithoutStream
  <2> HIDE DEF v
  <2>2. g = [c EXCEPT !.streams = v]
    BY DEF v
  <2> HIDE DEF g
  <2>3. /\ g \in Connection /\ g.streams = v
        /\ g.highest = c.highest /\ g.nextId = c.nextId /\ g.gathering = c.gathering
        /\ g.error = c.error /\ g.task = c.task /\ g.sending = c.sending
    BY <1>7, <2>1, <2>2, StreamsChanged
  <2>4. Rst(f.id) \in AnyFrame /\ Truthful(e, g, Rst(f.id))
    BY <1>1, <1>6, <2>1, <2>3 DEF Rst, AnyFrame, Truthful, Speaks
  <2>5. AllTruthful(e, g, << Rst(f.id) >>)
    BY <2>4, TruthfulSequences
  <2>6. AllTruthful(e, g, back \o << Rst(f.id) >>)
    BY <1>13, <2>5, TruthfulSequences
  <2> QED BY <1>1, <1>6, <1>17, <2>1, <2>3, <2>6, HandledSame
<1>18. CASE Taken(e, d, f.id, TRUE, credits)
  BY <1>1, <1>8, <1>11, <1>12, <1>13, <1>18, TakenLawful
<1>19. CASE Handled(e, d, None, credits)
  BY <1>11, <1>12, <1>13, <1>19, HandledLawful
<1> QED BY <1>2, <1>14, <1>15, <1>16, <1>17, <1>18, <1>19

\* Whatever frame is taken, `handle` is a lawful step.
LEMMA HandleLawful ==
    ASSUME H2Inv, NEW e \in Endpoints, NEW f \in AnyFrame, Handle(e, f)
    PROVE  Lawful(e)
BY HandleWhenExhaustedLawful, HandleSettingsLawful, HandleCountedLawful, HandleRstStreamLawful,
   HandleFatalLawful, HandleConnectionCreditLawful, HandleStreamCreditLawful, HandleHeadersLawful,
   HandleContinuationLawful, HandleDataLawful
   DEF Handle

\* Stream::reset.
LEMMA AbandonStreamLawful ==
    ASSUME H2Inv, NEW e \in Endpoints, NEW id, AbandonStream(e, id)
    PROVE  Lawful(e)
<1> DEFINE s == [conn[e].streams[id] EXCEPT !.state = "Closed", !.abandoned = TRUE]
           w == [conn[e].streams EXCEPT ![id] = s]
           c == [conn[e] EXCEPT !.streams = w]
<1>1. id \in DOMAIN conn[e].streams /\ Step(e, c, <<>>)
  BY DEF AbandonStream
<1>2. /\ Growing(e, conn[e]) /\ conn[e].gathering = None /\ Steady(conn[e])
      /\ conn[e].streams \in Streams
  BY EndFields DEF AbandonStream
<1>3. s \in AnyStream
  <2>1. conn[e].streams[id] \in AnyStream
    BY <1>1, <1>2, StreamsMeaning
  <2> QED BY <2>1 DEF AnyStream, States
<1> HIDE DEF s
<1>4. w \in Streams /\ DOMAIN w = DOMAIN conn[e].streams
  BY <1>1, <1>2, <1>3, ExceptStream
<1> HIDE DEF w
<1>5. Growing(e, c) /\ Steady(c)
  BY <1>2, <1>4, StreamsChanged
<1> QED BY <1>1, <1>5, StepLawful, TruthfulSequences DEF Onward

\* H2Connection::reset.
LEMMA ResetStreamLawful ==
    ASSUME H2Inv, NEW e \in Endpoints, NEW id \in DOMAIN conn[e].streams, ResetStream(e, id)
    PROVE  Lawful(e)
<1> DEFINE w == Without(conn[e].streams, id)
           c == [conn[e] EXCEPT !.streams = w]
<1>1. Step(e, c, << Rst(id) >>)
  BY DEF ResetStream
<1>2. /\ Growing(e, conn[e]) /\ conn[e].gathering = None /\ Steady(conn[e])
      /\ conn[e].streams \in Streams /\ id \in Nat
  BY EndFields DEF ResetStream
<1>3. w \in Streams /\ DOMAIN w = DOMAIN conn[e].streams \ {id}
  BY <1>2, WithoutStream
<1> HIDE DEF w
<1>4. Growing(e, c) /\ Steady(c) /\ c.streams = w
  BY <1>2, <1>3, StreamsChanged
<1> HIDE DEF c
<1>5. Rst(id) \in AnyFrame /\ Truthful(e, c, Rst(id))
  BY <1>2, <1>3, <1>4 DEF Rst, AnyFrame, Truthful, Speaks
<1>6. AllTruthful(e, c, << Rst(id) >>)
  BY <1>5, TruthfulSequences
<1> QED BY <1>1, <1>4, <1>6, StepLawful DEF Onward

\* close.
LEMMA CloseLawful ==
    ASSUME H2Inv, NEW e \in Endpoints, Close(e)
    PROVE  Lawful(e)
<1> DEFINE c == [conn[e] EXCEPT !.open = FALSE]
           last == conn[e].nextId - 2
<1>1. Step(e, c, << GoAway(Max({last, 0})), Plain("EOF") >>) /\ conn[e].task = "idle"
  BY DEF Close
<1>2. conn[e] \in Connection /\ Growing(e, conn[e]) /\ Steady(conn[e]) /\ last \in Int
  BY EndFields
<1>3. Max({last, 0}) \in Nat
  <2> HIDE DEF last
  <2>1. \E x \in {last, 0} : \A y \in {last, 0} : x >= y
    BY <1>2
  <2>2. Max({last, 0}) \in {last, 0} /\ \A y \in {last, 0} : Max({last, 0}) >= y
    BY <2>1 DEF Max
  <2> QED BY <1>2, <2>2
<1>4. /\ c \in Connection /\ c.streams = conn[e].streams /\ c.highest = conn[e].highest
      /\ c.nextId = conn[e].nextId /\ c.gathering = conn[e].gathering /\ c.task = "idle"
      /\ c.error = conn[e].error
  <2>1. c \in Connection
    BY <1>2 DEF Connection
  <2> QED BY <1>1, <1>2, <2>1 DEF Connection
<1> HIDE DEF c, last
<1>5. Onward(e, c)
  BY <1>1, <1>2, <1>4, Narrowed DEF Onward, Steady
<1>6. AllTruthful(e, c, << GoAway(Max({last, 0})), Plain("EOF") >>)
  BY <1>3, SilentFrames, SilentPair
<1> QED BY <1>1, <1>5, <1>6, StepLawful

\* The deadline of an operation passes.
LEMMA TimeOutLawful ==
    ASSUME H2Inv, NEW e \in Endpoints, TimeOut(e)
    PROVE  Lawful(e)
BY FailLawful, TruthfulSequences DEF TimeOut, Fatal

-----------------------------------------------------------------------------
\* Two ends that have neither read nor written anything (H2Connection::new).
LEMMA H2InitInv == ASSUME H2Init PROVE H2Inv
<1>1. ASSUME NEW e \in Endpoints
      PROVE  /\ NewConnection(e) \in Connection
             /\ NewConnection(e).gathering = None /\ NewConnection(e).error = "none"
             /\ NewConnection(e).task = "idle" /\ NewConnection(e).streams = <<>>
             /\ NewConnection(e).nextId = IF IsClient[e] THEN 1 ELSE 2
  <2>1. <<>> \in Streams /\ <<>> \in Seq(AnyMessage)
    <3> DEFINE none == <<>>
    <3>1. DOMAIN none = {} /\ none = [id \in DOMAIN none |-> none[id]] /\ none \in Seq(AnyMessage)
      OBVIOUS
    <3> HIDE DEF none
    <3>2. none \in Streams
      BY <3>1, FS_EmptySet, StreamsMeaning
    <3> QED BY <3>1, <3>2 DEF none
  <2>2. InitialWindow \in Nat /\ MaxConcurrent[e] \in Nat
    BY H2Assumption
  <2> QED BY <2>1, <2>2 DEF NewConnection, Connection
<1> HIDE DEF Connection
<1>2. conn = [e \in Endpoints |-> NewConnection(e)] /\ out = [e \in Endpoints |-> <<>>]
  BY DEF H2Init
<1> HIDE DEF H2Init
<1>3. conn \in [Endpoints -> Connection] /\ out \in [Endpoints -> Seq(AnyFrame)]
  <2> HIDE DEF NewConnection, AnyFrame
  <2> QED BY <1>1, <1>2
<1>4. ASSUME NEW e \in Endpoints PROVE Steady(conn[e]) /\ Ids(e)
  <2>1. /\ conn[e].gathering = None /\ conn[e].error = "none"
        /\ conn[e].task = "idle" /\ conn[e].streams = <<>>
        /\ conn[e].nextId = IF IsClient[e] THEN 1 ELSE 2
    BY <1>1, <1>2
  <2>2. Steady(conn[e])
    BY <2>1 DEF Steady
  <2>3. conn[e].nextId > 0 /\ ~PeerOpens(e, conn[e].nextId)
    BY <2>1, H2Assumption DEF PeerOpens
  <2>4. DOMAIN conn[e].streams = {}
    BY <2>1
  <2> QED BY <2>2, <2>3, <2>4 DEF Ids
<1> QED BY <1>3, <1>4 DEF H2Inv

=============================================================================
