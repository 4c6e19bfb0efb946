--------------------------- MODULE H3WorkerProofs ---------------------------
(***************************************************************************)
(* What holds of the HTTP/3 worker of a server for any number of streams,  *)
(* whatever arrives on them and however long its channels are: GOAWAY      *)
(* draws one line through the streams, and nothing the worker or the       *)
(* application knows of lies beyond it; each request is handed over once;  *)
(* and the count of octets that wait to be sent is the number that do.     *)
(***************************************************************************)
EXTENDS H3Worker, FiniteSetTheorems, SequenceTheorems, TLAPS

-----------------------------------------------------------------------------
(* The invariant.                                                          *)

AnyCommand ==
    [is : {"send"}, of : Requests, octets : Seq(0 .. 255)]
        \cup [is : {"tunnel", "reset"}, of : Requests]
AnyEvent == [is : {"message", "failed"}, of : Requests \cup {None}]

\* The streams that messages on their way to the application, and commands on
\* their way from it, are about.
Messages(events) == {events[i].of : i \in {j \in DOMAIN events : events[j].is = "message"}}
Targets(commands) == {commands[i].of : i \in DOMAIN commands}

\* A raw write is of a request's stream, whatever its octets are.
RawOK(raw) == raw \in Seq(Range(raw)) /\ \A i \in DOMAIN raw : raw[i].of \in Requests

\* The channels are within their capacities.
ChannelsOK(ch) ==
    /\ ch = [commands |-> ch.commands, events |-> ch.events, raw |-> ch.raw, sinks |-> ch.sinks]
    /\ ch.commands \in Seq(AnyCommand) /\ Len(ch.commands) <= Backlog
    /\ ch.events \in Seq(AnyEvent) /\ Len(ch.events) <= Backlog
    /\ RawOK(ch.raw)

SessionOK(s) ==
    /\ s = [streams |-> s.streams, ready |-> s.ready, goaway |-> s.goaway,
            total |-> s.total, highest |-> s.highest, leaving |-> s.leaving]
    /\ DOMAIN s.streams \subseteq Requests /\ s.ready \in Seq(Requests)
    /\ s.highest \in Nat /\ s.goaway \in Nat

AppOK(a) == a = [s \in Requests |-> a[s]]

\* Every stream that the worker holds, the application has, or that is on its way
\* from one to the other.
Touched ==
    DOMAIN session.streams \cup Range(session.ready) \cup {s \in Requests : app[s] # "none"}
        \cup Messages(channels.events) \cup Targets(channels.commands)

\* What was touched is no higher than the highest that was taken in, on which
\* GOAWAY draws its line.
Lined ==
    /\ Touched \subseteq Requests
    /\ \A s \in Touched : s <= session.highest /\ (session.goaway # None => s < session.goaway)

H3Inv == SessionOK(session) /\ ChannelsOK(channels) /\ AppOK(app) /\ Lined

\* What a part of the state becomes when it comes to nothing that was not touched.
SessionWithin(s) ==
    /\ SessionOK(s) /\ s.highest = session.highest /\ s.goaway = session.goaway
    /\ DOMAIN s.streams \subseteq Touched /\ Range(s.ready) \subseteq Touched

ChannelsWithin(ch) ==
    ChannelsOK(ch) /\ Messages(ch.events) \subseteq Touched /\ Targets(ch.commands) \subseteq Touched

AppWithin(a) == AppOK(a) /\ {s \in Requests : a[s] # "none"} \subseteq Touched

LEMMA Whole == H3Inv => SessionWithin(session) /\ ChannelsWithin(channels) /\ AppWithin(app)
BY DEF H3Inv, SessionWithin, ChannelsWithin, AppWithin, Touched

LEMMA WithinKeeps ==
    ASSUME H3Inv, SessionWithin(session'), ChannelsWithin(channels'), AppWithin(app')
    PROVE  H3Inv'
<1>1. Touched' \subseteq Touched
  BY DEF SessionWithin, ChannelsWithin, AppWithin, Touched
<1>2. session'.highest = session.highest /\ session'.goaway = session.goaway
  BY DEF SessionWithin
<1> QED BY <1>1, <1>2 DEF SessionWithin, ChannelsWithin, AppWithin, H3Inv, Lined,
           SessionOK, ChannelsOK, AppOK

LEMMA RequestsAreCounted == Requests = 1 .. Len(Script) /\ IsFiniteSet(Requests) /\ None \notin Requests
<1>1. Len(Script) \in Nat /\ Requests = 1 .. Len(Script)
  BY H3Assumption DEF Requests
<1> QED BY <1>1, FS_Interval DEF None

-----------------------------------------------------------------------------
(* Queues.                                                                 *)

LEMMA Pushed ==
    ASSUME NEW S, NEW q \in Seq(S), NEW x \in S
    PROVE  /\ Append(q, x) \in Seq(S) /\ Len(Append(q, x)) = Len(q) + 1
           /\ \A i \in DOMAIN Append(q, x) : (i \in DOMAIN q /\ Append(q, x)[i] = q[i]) \/ Append(q, x)[i] = x
OBVIOUS

LEMMA Popped ==
    ASSUME NEW S, NEW q \in Seq(S), q # <<>>
    PROVE  /\ Tail(q) \in Seq(S) /\ Len(Tail(q)) = Len(q) - 1
           /\ Head(q) \in S /\ 1 \in DOMAIN q /\ Head(q) = q[1]
           /\ \A i \in DOMAIN Tail(q) : i + 1 \in DOMAIN q /\ Tail(q)[i] = q[i + 1]
OBVIOUS

\* SetToSeq lists the members of a finite set, and nothing else.
LEMMA SequenceOfSet ==
    ASSUME NEW S, IsFiniteSet(S)
    PROVE  SetToSeq(S) \in Seq(S) /\ Range(SetToSeq(S)) \subseteq S
<1> DEFINE n == Cardinality(S)
<1>1. n \in Nat /\ ExistsBijection(1 .. n, S)
  BY FS_CardinalityType
<1>2. \E f \in [1 .. n -> S] : IsInjective(f)
  BY <1>1 DEF ExistsBijection, Bijection, Injection
<1>3. SetToSeq(S) \in [1 .. n -> S]
  BY <1>2 DEF SetToSeq
<1> HIDE DEF n
<1> QED BY <1>1, <1>3 DEF Range

\* A report tells the application of nothing it could answer.
LEMMA ReportWithin ==
    ASSUME H3Inv, NEW ch, ChannelsWithin(ch), NEW s \in Requests \cup {None}
    PROVE  ChannelsWithin([ch EXCEPT !.events = Report([is |-> "failed", of |-> s])])
<1> DEFINE event == [is |-> "failed", of |-> s]
           events == channels.events
           report == Report(event)
           d == [ch EXCEPT !.events = report]
<1>1. event \in AnyEvent /\ event.is = "failed"
  BY DEF AnyEvent
<1>2. events \in Seq(AnyEvent) /\ Len(events) <= Backlog /\ Messages(events) \subseteq Touched /\ Backlog \in Nat
  BY Whole, H3Assumption DEF ChannelsWithin, ChannelsOK
<1> HIDE DEF event, events
<1>3. report \in Seq(AnyEvent) /\ Len(report) <= Backlog /\ Messages(report) \subseteq Touched
  <2>1. CASE Len(events) < Backlog
    <3>1. report = Append(events, event)
      BY <2>1 DEF Report, events
    <3>2. /\ report \in Seq(AnyEvent) /\ Len(report) = Len(events) + 1
          /\ \A i \in DOMAIN report : (i \in DOMAIN events /\ report[i] = events[i]) \/ report[i] = event
      BY <1>1, <1>2, <3>1, Pushed
    <3>3. Messages(report) \subseteq Messages(events)
      BY <1>1, <3>2 DEF Messages
    <3> QED BY <1>2, <2>1, <3>2, <3>3
  <2>2. CASE ~(Len(events) < Backlog)
    BY <1>2, <2>2 DEF Report, events
  <2> QED BY <2>1, <2>2
<1> HIDE DEF report
<1>4. /\ d.events = report /\ d.commands = ch.commands /\ d.raw = ch.raw
      /\ d = [commands |-> d.commands, events |-> d.events, raw |-> d.raw, sinks |-> d.sinks]
  BY DEF ChannelsWithin, ChannelsOK
<1> HIDE DEF d
<1>5. ChannelsWithin(d)
  BY <1>3, <1>4 DEF ChannelsWithin, ChannelsOK
<1> QED BY <1>5 DEF d, report, event
\* What becomes of the sinks, and of the raw writes, is no matter to the rest.
LEMMA AsideWithin ==
    ASSUME NEW ch, ChannelsWithin(ch), NEW d, d.commands = ch.commands, d.events = ch.events, RawOK(d.raw),
           d = [commands |-> d.commands, events |-> d.events, raw |-> d.raw, sinks |-> d.sinks]
    PROVE  ChannelsWithin(d)
BY DEF ChannelsWithin, ChannelsOK

LEMMA SinkWithin ==
    ASSUME NEW ch, ChannelsWithin(ch), NEW s, NEW items
    PROVE  ChannelsWithin([ch EXCEPT !.sinks[s] = items])
<1> DEFINE d == [ch EXCEPT !.sinks[s] = items]
<1>1. /\ d.commands = ch.commands /\ d.events = ch.events /\ d.raw = ch.raw /\ RawOK(ch.raw)
      /\ d = [commands |-> d.commands, events |-> d.events, raw |-> d.raw, sinks |-> d.sinks]
  BY DEF ChannelsWithin, ChannelsOK
<1> HIDE DEF d
<1>2. ChannelsWithin(d)
  BY <1>1, AsideWithin
<1> QED BY <1>2 DEF d

LEMMA RawWithin ==
    ASSUME NEW ch, ChannelsWithin(ch), NEW raw, RawOK(raw)
    PROVE  ChannelsWithin([ch EXCEPT !.raw = raw])
<1> DEFINE d == [ch EXCEPT !.raw = raw]
<1>1. /\ d.commands = ch.commands /\ d.events = ch.events /\ d.raw = raw
      /\ d = [commands |-> d.commands, events |-> d.events, raw |-> d.raw, sinks |-> d.sinks]
  BY DEF ChannelsWithin, ChannelsOK
<1> HIDE DEF d
<1>2. ChannelsWithin(d)
  BY <1>1, AsideWithin
<1> QED BY <1>2 DEF d

\* A command that is taken is about a stream that was touched.
LEMMA TakenWithin ==
    ASSUME H3Inv, channels.commands # <<>>
    PROVE  ChannelsWithin(Taken) /\ Command \in AnyCommand /\ Command.of \in Touched
<1> DEFINE q == channels.commands
           d == Taken
<1>1. ChannelsWithin(channels)
  BY Whole
<1>2. q \in Seq(AnyCommand) /\ q # <<>> /\ Len(q) <= Backlog /\ Backlog \in Nat /\ Targets(q) \subseteq Touched
  BY <1>1, H3Assumption DEF ChannelsWithin, ChannelsOK
<1>3. /\ d.commands = Tail(q) /\ d.events = channels.events /\ d.raw = channels.raw
      /\ d = [commands |-> d.commands, events |-> d.events, raw |-> d.raw, sinks |-> d.sinks]
  <2>1. channels = [commands |-> channels.commands, events |-> channels.events,
                    raw |-> channels.raw, sinks |-> channels.sinks]
    BY <1>1 DEF ChannelsWithin, ChannelsOK
  <2>2. d = [channels EXCEPT !.commands = Tail(channels.commands)]
    BY DEF Taken
  <2> HIDE DEF d
  <2> QED BY <2>1, <2>2
<1>4. Command = Head(q)
  BY DEF Command
<1> HIDE DEF q, d
<1>5. /\ Tail(q) \in Seq(AnyCommand) /\ Len(Tail(q)) = Len(q) - 1
      /\ Head(q) \in AnyCommand /\ 1 \in DOMAIN q /\ Head(q) = q[1]
      /\ \A i \in DOMAIN Tail(q) : i + 1 \in DOMAIN q /\ Tail(q)[i] = q[i + 1]
  BY <1>2, Popped
<1>6. Targets(Tail(q)) \subseteq Targets(q) /\ Head(q).of \in Targets(q)
  BY <1>5 DEF Targets
<1>7. Len(Tail(q)) <= Backlog
  BY <1>2, <1>5
<1>8. ChannelsWithin(d)
  BY <1>1, <1>2, <1>3, <1>5, <1>6, <1>7 DEF ChannelsWithin, ChannelsOK
<1> QED BY <1>2, <1>4, <1>5, <1>6, <1>8 DEF d

-----------------------------------------------------------------------------
(* What a pass does.                                                       *)

\* What it forgets was touched, and stays so for the application.
LEMMA NarrowedWithin ==
    ASSUME H3Inv, NEW d, DOMAIN d.streams \subseteq Touched, Range(d.ready) \subseteq Touched,
           d.ready \in Seq(Requests), d.highest = session.highest, d.goaway = session.goaway,
           d = [streams |-> d.streams, ready |-> d.ready, goaway |-> d.goaway,
                total |-> d.total, highest |-> d.highest, leaving |-> d.leaving]
    PROVE  SessionWithin(d)
<1>1. DOMAIN d.streams \subseteq Requests
  BY DEF H3Inv, Lined
<1> QED BY <1>1 DEF SessionWithin, SessionOK, H3Inv

\* A new table of streams that were all touched.
LEMMA TableWithin ==
    ASSUME H3Inv, NEW streams, DOMAIN streams \subseteq Touched
    PROVE  SessionWithin([session EXCEPT !.streams = streams])
<1> DEFINE d == [session EXCEPT !.streams = streams]
<1>1. SessionOK(session) /\ Range(session.ready) \subseteq Touched
  BY Whole DEF SessionWithin
<1>2. /\ d.streams = streams /\ d.ready = session.ready /\ d.highest = session.highest
      /\ d.goaway = session.goaway
      /\ d = [streams |-> d.streams, ready |-> d.ready, goaway |-> d.goaway,
              total |-> d.total, highest |-> d.highest, leaving |-> d.leaving]
  BY <1>1 DEF SessionOK
<1> HIDE DEF d
<1>3. SessionWithin(d)
  BY <1>1, <1>2, NarrowedWithin DEF SessionOK
<1> QED BY <1>3 DEF d

LEMMA RetiredNarrows == \A streams, s : DOMAIN Retired(streams, s) \subseteq DOMAIN streams
BY DEF Retired, Without

LEMMA ForgetWithin ==
    ASSUME H3Inv, NEW s, ForgetStream(s, session)
    PROVE  SessionWithin(session')
<1> DEFINE streams == Without(session.streams, s)
<1>1. DOMAIN streams \subseteq Touched
  BY DEF Without, Touched
<1> HIDE DEF streams
<1>2. session' = [session EXCEPT !.streams = streams]
  BY DEF ForgetStream, streams
<1> QED BY <1>1, <1>2, TableWithin

\* flush_stream tells no more of a stream than that it was stopped.
LEMMA FlushWithin ==
    ASSUME H3Inv, NEW s \in Requests, NEW streams, NEW count, NEW after, ChannelsWithin(after),
           FlushStream(s, streams, count, after)
    PROVE  ChannelsWithin(channels')
<1> DEFINE reported == [after EXCEPT !.events = Report([is |-> "failed", of |-> s])]
<1>1. channels' = reported \/ channels' = after
  BY DEF FlushStream
<1>2. ChannelsWithin(reported)
  BY ReportWithin
<1> HIDE DEF reported
<1> QED BY <1>1, <1>2

\* What draws the line no lower keeps what was touched within it.
LEMMA RaisedKeeps ==
    ASSUME H3Inv, SessionOK(session'), session.highest <= session'.highest, session'.goaway = session.goaway,
           DOMAIN session'.streams \subseteq Touched, Range(session'.ready) \subseteq Touched,
           ChannelsWithin(channels'), AppWithin(app')
    PROVE  H3Inv'
<1>1. Touched' \subseteq Touched
  BY DEF ChannelsWithin, AppWithin, Touched
<1>2. /\ \A x \in Touched : x \in Nat /\ x <= session.highest /\ (session.goaway # None => x < session.goaway)
      /\ session.highest \in Nat /\ session'.highest \in Nat /\ Touched \subseteq Requests
  BY RequestsAreCounted DEF H3Inv, Lined, SessionOK
<1>3. Lined'
  BY <1>1, <1>2 DEF Lined
<1>4. ChannelsOK(channels)' /\ AppOK(app)' /\ SessionOK(session)'
  BY DEF ChannelsWithin, AppWithin, SessionOK, ChannelsOK, AppOK
<1> QED BY <1>3, <1>4 DEF H3Inv

\* A request taken in on a stream, the one thing that can be news: the stream is
\* beyond every other or known, and GOAWAY may draw its line behind it.
LEMMA OnStreamBytesKeeps ==
    ASSUME H3Inv, NEW s \in Requests, NEW items, NEW fin, ~Disowned(s), OnStreamBytes(s, items, fin),
           UNCHANGED app
    PROVE  H3Inv'
<1> DEFINE created == ~Held(s)
           state == [State(s) EXCEPT !.buffer = @ \o items, !.eof = @ \/ fin]
           r == Advance(state, inserted)
           total == session.total + (IF created THEN 1 ELSE 0)
           highest == IF created /\ s > session.highest THEN s ELSE session.highest
           goaway == GoAway(total, highest)
           streams == Retired(Kept(session.streams, s, r.state), s)
           ready == IF r.ready THEN Append(session.ready, s) ELSE session.ready
           counted == [session EXCEPT !.total = total, !.highest = highest]
<1>1. \/ ResetStream(s, session) \/ ResetStream(s, counted)
      \/ Fail /\ UNCHANGED session
      \/ /\ session' = [session EXCEPT !.streams = streams, !.ready = ready, !.total = total,
                                       !.highest = highest, !.goaway = goaway]
         /\ UNCHANGED channels
  BY DEF OnStreamBytes
<1>2. AppWithin(app') /\ ChannelsWithin(channels) /\ SessionWithin(session)
  BY Whole
<1> HIDE DEF created, r, total, highest, goaway, streams, ready, counted, state
<1>3. CASE ResetStream(s, session) \/ ResetStream(s, counted)
  <2>1. ChannelsWithin(channels')
    BY <1>2, <1>3, ReportWithin DEF ResetStream
  <2>2. CASE ResetStream(s, session)
    <3>1. SessionWithin(session')
      BY <2>2, ForgetWithin DEF ResetStream
    <3> QED BY <1>2, <2>1, <3>1, WithinKeeps
  <2>3. CASE ResetStream(s, counted)
    <3> DEFINE without == Without(session.streams, s)
    <3>1. SessionOK(session) /\ Requests \subseteq Nat
      BY RequestsAreCounted DEF H3Inv
    <3>2. highest \in Nat /\ session.highest \in Nat /\ session.highest <= highest
      BY <3>1 DEF highest, SessionOK
    <3>3. DOMAIN without \subseteq DOMAIN session.streams
      BY DEF Without
    <3>4. counted.streams = session.streams
      BY <3>1 DEF counted, SessionOK
    <3>5. session' = [counted EXCEPT !.streams = without]
      BY <2>3, <3>4 DEF ResetStream, ForgetStream
    <3> HIDE DEF without
    <3>6. session' = [streams |-> without, ready |-> session.ready, goaway |-> session.goaway,
                      total |-> total, highest |-> highest, leaving |-> session.leaving]
      BY <3>1, <3>5 DEF counted, SessionOK
    <3>7. SessionOK(session')
      BY <3>1, <3>2, <3>3, <3>6 DEF SessionOK
    <3>8. /\ session'.highest = highest /\ session'.goaway = session.goaway
          /\ DOMAIN session'.streams \subseteq Touched /\ Range(session'.ready) \subseteq Touched
      BY <3>3, <3>6 DEF Touched
    <3> QED BY <1>2, <2>1, <3>2, <3>7, <3>8, RaisedKeeps
  <2> QED BY <1>3, <2>2, <2>3
<1>4. CASE Fail /\ UNCHANGED session
  <2>1. SessionWithin(session')
    BY <1>2, <1>4
  <2>2. ChannelsWithin(channels')
    BY <1>2, <1>4, ReportWithin DEF Fail
  <2> QED BY <1>2, <2>1, <2>2, WithinKeeps
<1>5. CASE /\ session' = [session EXCEPT !.streams = streams, !.ready = ready, !.total = total,
                                         !.highest = highest, !.goaway = goaway]
           /\ UNCHANGED channels
  <2>1. SessionOK(session) /\ Requests \subseteq Nat
    BY RequestsAreCounted DEF H3Inv
  <2>2. DOMAIN streams \subseteq DOMAIN session.streams \cup {s}
    BY RetiredNarrows DEF streams, Kept
  <2>3. ready \in Seq(Requests) /\ Range(ready) \subseteq Range(session.ready) \cup {s}
    <3>1. session.ready \in Seq(Requests)
      BY <2>1 DEF SessionOK
    <3>2. /\ Append(session.ready, s) \in Seq(Requests)
          /\ \A i \in DOMAIN Append(session.ready, s) :
                (i \in DOMAIN session.ready /\ Append(session.ready, s)[i] = session.ready[i])
                  \/ Append(session.ready, s)[i] = s
      BY <3>1, Pushed
    <3> QED BY <3>1, <3>2 DEF ready, Range
  <2>4. /\ highest \in Nat /\ session.highest \in Nat /\ session.highest <= highest
        /\ created => s <= highest
    BY <2>1 DEF highest, SessionOK
  <2>5. goaway = session.goaway \/ (session.goaway = None /\ goaway = highest + 1)
    BY DEF goaway, GoAway
  <2>6. SessionOK(session')
    <3>1. /\ session'.streams = streams /\ session'.ready = ready /\ session'.highest = highest
          /\ session'.goaway = goaway
          /\ session' = [streams |-> session'.streams, ready |-> session'.ready, goaway |-> session'.goaway,
                         total |-> session'.total, highest |-> session'.highest, leaving |-> session'.leaving]
      BY <1>5, <2>1 DEF SessionOK
    <3>2. goaway \in Nat /\ DOMAIN streams \subseteq Requests
      BY <2>1, <2>2, <2>4, <2>5 DEF SessionOK
    <3> QED BY <2>3, <2>4, <3>1, <3>2 DEF SessionOK
  <2>7. Touched' \subseteq Touched \cup {s}
    <3>1. session'.streams = streams /\ session'.ready = ready /\ app' = app /\ channels' = channels
      BY <1>5, <2>1 DEF SessionOK
    <3> QED BY <2>2, <2>3, <3>1 DEF Touched
  <2>8. /\ \A x \in Touched : x \in Nat /\ x <= session.highest /\ (session.goaway # None => x < session.goaway)
        /\ session.goaway \in Nat /\ Touched \subseteq Requests
    BY <2>1 DEF H3Inv, Lined, SessionOK
  <2>9. s <= highest /\ (session.goaway # None => s < session.goaway)
    <3>1. CASE Held(s)
      <4>1. s \in Touched
        BY <3>1 DEF Held, Touched
      <4> QED BY <2>1, <2>4, <2>8, <4>1
    <3>2. CASE ~Held(s)
      <4>1. ~(session.goaway # None /\ s >= session.goaway)
        BY <3>2 DEF Disowned
      <4> QED BY <2>1, <2>4, <2>8, <3>2, <4>1 DEF created
    <3> QED BY <3>1, <3>2
  <2>10. session'.highest = highest /\ session'.goaway = goaway
    BY <1>5, <2>1 DEF SessionOK
  <2>11. \A x \in Touched \cup {s} : x <= highest /\ (goaway # None => x < goaway)
    <3>1. \A x \in Touched \cup {s} : x \in Nat /\ x <= highest /\ (session.goaway # None => x < session.goaway)
      BY <2>1, <2>4, <2>8, <2>9
    <3> QED BY <2>4, <2>5, <3>1
  <2>12. Lined'
    BY <2>7, <2>8, <2>10, <2>11 DEF Lined
  <2>13. ChannelsOK(channels') /\ AppOK(app')
    BY <1>2, <1>5 DEF ChannelsWithin, AppWithin
  <2> QED BY <2>6, <2>12, <2>13 DEF H3Inv, ChannelsOK, SessionOK, AppOK
<1> QED BY <1>1, <1>3, <1>4, <1>5

\* What an insertion unblocks was held.
LEMMA OnEncoderBytesKeeps ==
    ASSUME H3Inv, OnEncoderBytes, UNCHANGED app
    PROVE  H3Inv'
<1> DEFINE blocked == {s \in DOMAIN session.streams : session.streams[s].pending}
           r == [s \in blocked |-> Advance(session.streams[s], TRUE)]
           failed == {s \in blocked : r[s].error # "none"}
           After(done) == [s \in DOMAIN session.streams |->
                              IF s \in done THEN r[s].state ELSE session.streams[s]]
           streams(done) == [s \in {x \in DOMAIN session.streams : ~Spent(After(done)[x])} |-> After(done)[s]]
           told(done) == {s \in done : r[s].ready}
<1>1. PICK done \in SUBSET blocked :
        /\ failed # {} => done \cap failed # {}
        /\ session' = [session EXCEPT !.streams = streams(done), !.ready = @ \o SetToSeq(told(done))]
        /\ \/ UNCHANGED channels
           \/ failed # {} /\ channels' = [channels EXCEPT !.events =
                Report([is |-> "failed", of |-> CHOOSE s \in done \cap failed : TRUE])]
  <2>1. PICK done \in SUBSET blocked :
          /\ Cardinality(done \cap failed) = (IF failed = {} THEN 0 ELSE 1)
          /\ session' = [session EXCEPT !.streams = streams(done), !.ready = @ \o SetToSeq(told(done))]
          /\ IF failed = {} THEN UNCHANGED << reset, channels >>
             ELSE /\ reset' = reset \cup {encoder}
                  /\ channels' = [channels EXCEPT !.events =
                        Report([is |-> "failed", of |-> CHOOSE s \in done \cap failed : TRUE])]
    BY DEF OnEncoderBytes
  <2>2. failed # {} => done \cap failed # {}
    <3>1. Cardinality(done \cap failed) = (IF failed = {} THEN 0 ELSE 1)
      BY <2>1
    <3>2. Cardinality({}) = 0
      BY FS_EmptySet
    <3> HIDE DEF failed, streams, told
    <3> QED BY ONLY <3>1, <3>2
  <2> HIDE DEF failed, streams, told
  <2> QED BY <2>1, <2>2
<1>2. SessionOK(session) /\ ChannelsWithin(channels) /\ AppWithin(app') /\ DOMAIN session.streams \subseteq Touched
      /\ Range(session.ready) \subseteq Touched
  BY Whole DEF SessionWithin
<1>3. DOMAIN session.streams \subseteq Requests
  BY <1>2 DEF SessionOK
<1>4. SessionWithin(session')
  <2> DEFINE list == SetToSeq(told(done))
             ready == session.ready \o list
             table == streams(done)
  <2>1. told(done) \subseteq DOMAIN session.streams
    OBVIOUS
  <2>2. IsFiniteSet(told(done)) /\ told(done) \subseteq Requests
    BY <1>3, <2>1, RequestsAreCounted, FS_Subset
  <2>3. list \in Seq(told(done)) /\ Range(list) \subseteq told(done)
    BY <2>2, SequenceOfSet
  <2>4. DOMAIN table \subseteq Touched
    BY <1>2
  <2>5. session' = [session EXCEPT !.streams = table, !.ready = ready]
    BY <1>1
  <2> HIDE DEF told, table, list, streams
  <2>6. list \in Seq(Requests) /\ session.ready \in Seq(Requests)
    BY <1>2, <2>2, <2>3 DEF SessionOK
  <2>7. ready \in Seq(Requests) /\ Range(ready) \subseteq Range(session.ready) \cup Range(list)
    <3>1. /\ ready \in Seq(Requests) /\ Len(ready) = Len(session.ready) + Len(list)
          /\ \A i \in 1 .. Len(ready) : ready[i] = IF i <= Len(session.ready) THEN session.ready[i]
                                                   ELSE list[i - Len(session.ready)]
      BY <2>6
    <3>2. \A i \in 1 .. Len(ready) : ready[i] \in Range(session.ready) \cup Range(list)
      BY <2>6, <3>1 DEF Range
    <3>3. DOMAIN ready = 1 .. Len(ready)
      BY <3>1
    <3> HIDE DEF ready
    <3> QED BY <3>1, <3>2, <3>3 DEF Range
  <2> HIDE DEF ready
  <2>8. Range(ready) \subseteq Touched
    BY <1>2, <2>1, <2>3, <2>7
  <2>9. /\ session'.streams = table /\ session'.ready = ready
        /\ session'.highest = session.highest /\ session'.goaway = session.goaway
        /\ session' = [streams |-> session'.streams, ready |-> session'.ready, goaway |-> session'.goaway,
                       total |-> session'.total, highest |-> session'.highest, leaving |-> session'.leaving]
    BY <1>2, <2>5 DEF SessionOK
  <2> QED BY <2>4, <2>7, <2>8, <2>9, NarrowedWithin
<1>5. ChannelsWithin(channels')
  <2> DEFINE first == CHOOSE s \in done \cap failed : TRUE
  <2>1. failed # {} => first \in Requests
    BY <1>1, <1>3
  <2> HIDE DEF first
  <2>2. failed # {} => ChannelsWithin([channels EXCEPT !.events = Report([is |-> "failed", of |-> first])])
    BY <1>2, <2>1, ReportWithin
  <2> HIDE DEF failed
  <2> QED BY <1>1, <1>2, <2>2 DEF first
<1> QED BY <1>2, <1>4, <1>5, WithinKeeps

LEMMA OnTunnelKeeps ==
    ASSUME H3Inv, NEW s, NEW items, NEW fin, OnTunnel(s, items, fin), UNCHANGED app
    PROVE  H3Inv'
<1> DEFINE streams == Without(session.streams, s)
           sink == Append(channels.sinks[s], [octets |-> items, fin |-> fin])
<1>1. AppWithin(app') /\ ChannelsWithin(channels) /\ SessionWithin(session)
  BY Whole
<1>2. DOMAIN streams \subseteq Touched
  BY DEF Without, Touched
<1>3. session' = session \/ session' = [session EXCEPT !.streams = streams]
  BY DEF OnTunnel
<1>4. channels' = [channels EXCEPT !.sinks[s] = sink]
  BY DEF OnTunnel
<1> HIDE DEF streams, sink
<1>5. SessionWithin(session')
  BY <1>1, <1>2, <1>3, TableWithin
<1>6. ChannelsWithin(channels')
  BY <1>1, <1>4, SinkWithin
<1> QED BY <1>1, <1>5, <1>6, WithinKeeps

LEMMA ReadKeeps ==
    ASSUME H3Inv, NEW s \in Requests \cup {encoder}, Read(s)
    PROVE  H3Inv'
<1> DEFINE items == inbox[s]
           fin == s # encoder /\ peer[s].fin
           full == s \in tunnels /\ Len(channels.sinks[s]) >= TunnelBacklog
<1>1. /\ UNCHANGED app
      /\ CASE full -> UNCHANGED << worker, channels >>
           [] ~full /\ s = encoder -> OnEncoderBytes
           [] ~full /\ s # encoder /\ peer[s].reset = "unread" ->
                  /\ ForgetStream(s, session)
                  /\ channels' = [channels EXCEPT !.events = Report([is |-> "failed", of |-> s])]
                  /\ UNCHANGED << inserted, reset, status >>
           [] ~full /\ s # encoder /\ peer[s].reset # "unread" ->
                  CASE s \in tunnels -> OnTunnel(s, items, fin)
                    [] s \notin tunnels /\ Disowned(s) ->
                          /\ reset' = reset \cup {s}
                          /\ UNCHANGED << inserted, session, outbound, held, tunnels, channels, status >>
                    [] OTHER -> OnStreamBytes(s, items, fin)
  BY DEF Read, application
<1> HIDE DEF items, fin, full
<1>2. AppWithin(app') /\ ChannelsWithin(channels) /\ SessionWithin(session)
  BY <1>1, Whole
<1>3. CASE full
  <2>1. UNCHANGED << session, channels >>
    BY <1>1, <1>3 DEF worker
  <2> QED BY <1>2, <2>1, WithinKeeps
<1>4. CASE ~full /\ s = encoder
  BY <1>1, <1>4, OnEncoderBytesKeeps
<1>5. CASE ~full /\ s # encoder /\ peer[s].reset = "unread"
  <2>1. ForgetStream(s, session) /\ channels' = [channels EXCEPT !.events = Report([is |-> "failed", of |-> s])]
    BY <1>1, <1>5
  <2>2. SessionWithin(session')
    BY <2>1, ForgetWithin
  <2>3. ChannelsWithin(channels')
    BY <1>2, <1>5, <2>1, ReportWithin
  <2> QED BY <1>2, <2>2, <2>3, WithinKeeps
<1>6. CASE ~full /\ s # encoder /\ peer[s].reset # "unread"
  <2>1. /\ s \in tunnels => OnTunnel(s, items, fin)
        /\ s \notin tunnels /\ Disowned(s) =>
                UNCHANGED << inserted, session, outbound, held, tunnels, channels, status >>
        /\ s \notin tunnels /\ ~Disowned(s) => OnStreamBytes(s, items, fin)
    BY <1>1, <1>6
  <2>2. CASE s \in tunnels
    BY <1>1, <2>1, <2>2, OnTunnelKeeps
  <2>3. CASE s \notin tunnels /\ Disowned(s)
    <3>1. UNCHANGED << session, channels >>
      BY <2>1, <2>3
    <3> QED BY <1>2, <3>1, WithinKeeps
  <2>4. CASE s \notin tunnels /\ ~Disowned(s)
    <3>1. OnStreamBytes(s, items, fin) /\ s \in Requests
      BY <1>6, <2>1, <2>4
    <3> QED BY <1>1, <2>4, <3>1, OnStreamBytesKeeps
  <2> QED BY <2>2, <2>3, <2>4
<1> QED BY <1>3, <1>4, <1>5, <1>6

-----------------------------------------------------------------------------
(* The other steps of a pass.                                              *)

LEMMA RawQueue ==
    ASSUME NEW raw, RawOK(raw)
    PROVE  /\ \A x : x.of \in Requests => RawOK(Append(raw, x))
           /\ raw # <<>> => RawOK(Tail(raw)) /\ Head(raw).of \in Requests
<1>1. ASSUME NEW S, NEW q \in Seq(S) PROVE q \in Seq(Range(q))
  <2>1. \A i \in 1 .. Len(q) : q[i] \in Range(q)
    BY DEF Range
  <2> QED BY <2>1
<1>2. ASSUME NEW x, x.of \in Requests PROVE RawOK(Append(raw, x))
  <2> DEFINE S == Range(raw) \cup {x}
  <2>1. raw \in Seq(S) /\ x \in S
    BY DEF RawOK
  <2> HIDE DEF S
  <2>2. /\ Append(raw, x) \in Seq(S)
        /\ \A i \in DOMAIN Append(raw, x) :
              (i \in DOMAIN raw /\ Append(raw, x)[i] = raw[i]) \/ Append(raw, x)[i] = x
    BY <2>1, Pushed
  <2> QED BY <1>1, <1>2, <2>2 DEF RawOK
<1>3. ASSUME raw # <<>> PROVE RawOK(Tail(raw)) /\ Head(raw).of \in Requests
  <2> DEFINE S == Range(raw)
  <2>1. raw \in Seq(S)
    BY DEF RawOK
  <2> HIDE DEF S
  <2>2. /\ Tail(raw) \in Seq(S) /\ 1 \in DOMAIN raw /\ Head(raw) = raw[1]
        /\ \A i \in DOMAIN Tail(raw) : i + 1 \in DOMAIN raw /\ Tail(raw)[i] = raw[i + 1]
    BY <1>3, <2>1, Popped
  <2> QED BY <1>1, <2>2 DEF RawOK
<1> QED BY <1>2, <1>3

\* deliver_ready moves messages from the session to the application's events, and
\* no more of them than there is room for.
LEMMA EndHalfKeeps ==
    ASSUME H3Inv, EndHalf
    PROVE  H3Inv'
<1> DEFINE old == session.ready
           queue == channels.events
           room == Backlog - Len(queue)
           n == Min({Len(old), room})
           ready == SubSeq(old, n + 1, Len(old))
           leaving == IF phase = "reads" /\ session.leaving = "arrived" THEN "read" ELSE session.leaving
           moved == [i \in 1 .. n |-> [is |-> "message", of |-> old[i]]]
           events == queue \o moved
           drained == Drained(session.streams, ready, leaving)
           told == drained /\ Len(events) < Backlog
           over == [is |-> "failed", of |-> None]
<1>1. /\ session' = [session EXCEPT !.ready = ready, !.leaving = leaving]
      /\ channels' = [channels EXCEPT !.events = IF told THEN Append(events, over) ELSE events]
      /\ UNCHANGED app
  BY DEF EndHalf, application
<1>2. AppWithin(app') /\ ChannelsWithin(channels) /\ SessionWithin(session)
  BY <1>1, Whole
<1>3. /\ old \in Seq(Requests) /\ Range(old) \subseteq Touched
      /\ queue \in Seq(AnyEvent) /\ Len(queue) <= Backlog /\ Backlog \in Nat /\ Messages(queue) \subseteq Touched
  BY <1>2, H3Assumption DEF SessionWithin, SessionOK, ChannelsWithin, ChannelsOK
<1> HIDE DEF old, queue
<1>4. n \in Nat /\ n <= Len(old) /\ n <= room
  <2>1. Len(old) \in Nat /\ room \in Nat
    BY <1>3
  <2> HIDE DEF room
  <2>2. \E x \in {Len(old), room} : \A y \in {Len(old), room} : x <= y
    BY <2>1
  <2>3. n \in {Len(old), room} /\ \A y \in {Len(old), room} : n <= y
    BY <2>2 DEF Min
  <2> QED BY <2>1, <2>3
<1> HIDE DEF n
<1>5. ready \in Seq(Requests) /\ Range(ready) \subseteq Touched
  <2>1. /\ ready \in Seq(Requests)
        /\ \A i \in DOMAIN ready : i + n \in DOMAIN old /\ ready[i] = old[i + n]
    BY <1>3, <1>4
  <2> QED BY <1>3, <2>1 DEF Range
<1>6. /\ moved \in Seq(AnyEvent) /\ Len(moved) = n
      /\ \A i \in 1 .. n : moved[i].of \in Touched
  <2>1. \A i \in 1 .. n : i \in DOMAIN old /\ old[i] \in Requests /\ old[i] \in Touched
    BY <1>3, <1>4 DEF Range
  <2>2. \A i \in 1 .. n : [is |-> "message", of |-> old[i]] \in AnyEvent
    BY <2>1 DEF AnyEvent
  <2> QED BY <1>4, <2>1, <2>2
<1> HIDE DEF moved, ready, leaving
<1>7. events \in Seq(AnyEvent) /\ Len(events) <= Backlog /\ Messages(events) \subseteq Touched
  <2>1. /\ events \in Seq(AnyEvent) /\ Len(events) = Len(queue) + n
        /\ \A i \in 1 .. Len(events) : events[i] = IF i <= Len(queue) THEN queue[i] ELSE moved[i - Len(queue)]
    <3>1. queue \in Seq(AnyEvent) /\ moved \in Seq(AnyEvent) /\ Len(moved) = n
      BY <1>3, <1>6
    <3>2. events \in Seq(AnyEvent)
      BY <3>1
    <3>3. Len(events) = Len(queue) + Len(moved)
      BY <3>1
    <3>4. \A i \in 1 .. Len(queue) + Len(moved) :
            events[i] = IF i <= Len(queue) THEN queue[i] ELSE moved[i - Len(queue)]
      BY ONLY <3>1
    <3> HIDE DEF events
    <3> QED BY <3>1, <3>2, <3>3, <3>4
  <2>2. ASSUME NEW i \in DOMAIN events, events[i].is = "message" PROVE events[i].of \in Touched
    <3>1. i \in 1 .. Len(events) /\ Len(queue) \in Nat /\ n \in Nat
      <4> HIDE DEF events
      <4> QED BY <1>3, <1>4, <2>1
    <3> HIDE DEF events
    <3>2. CASE i <= Len(queue)
      <4>1. events[i] = queue[i] /\ i \in DOMAIN queue
        BY <1>3, <2>1, <3>1, <3>2
      <4> QED BY <1>3, <2>2, <4>1 DEF Messages
    <3>3. CASE ~(i <= Len(queue))
      <4>1. events[i] = moved[i - Len(queue)] /\ i - Len(queue) \in 1 .. n
        BY <2>1, <3>1, <3>3
      <4> QED BY <1>6, <4>1
    <3> QED BY <3>2, <3>3
  <2>3. Len(events) <= Backlog
    BY <1>3, <1>4, <2>1
  <2> HIDE DEF events
  <2> QED BY <2>1, <2>2, <2>3 DEF Messages
<1> DEFINE final == IF told THEN Append(events, over) ELSE events
<1>8. final \in Seq(AnyEvent) /\ Len(final) <= Backlog /\ Messages(final) \subseteq Touched
  <2>1. over \in AnyEvent /\ over.is = "failed"
    BY DEF AnyEvent
  <2> HIDE DEF events, over
  <2>2. CASE told
    <3>1. /\ final \in Seq(AnyEvent) /\ Len(final) = Len(events) + 1
          /\ \A i \in DOMAIN final : (i \in DOMAIN events /\ final[i] = events[i]) \/ final[i] = over
      BY <1>7, <2>1, <2>2, Pushed
    <3>2. Messages(final) \subseteq Messages(events)
      BY <2>1, <3>1 DEF Messages
    <3>3. Len(final) <= Backlog
      BY <1>3, <1>7, <2>2, <3>1
    <3> QED BY <1>7, <3>1, <3>2, <3>3
  <2>3. CASE ~told
    BY <1>7, <2>3
  <2> QED BY <2>2, <2>3
<1> HIDE DEF final
<1>9. SessionWithin(session')
  <2>1. /\ session'.streams = session.streams /\ session'.ready = ready
        /\ session'.highest = session.highest /\ session'.goaway = session.goaway
        /\ session' = [streams |-> session'.streams, ready |-> session'.ready, goaway |-> session'.goaway,
                       total |-> session'.total, highest |-> session'.highest, leaving |-> session'.leaving]
    BY <1>1, <1>2 DEF SessionWithin, SessionOK
  <2> QED BY <1>2, <1>5, <2>1, NarrowedWithin DEF SessionWithin
<1>10. ChannelsWithin(channels')
  <2>1. channels' = [channels EXCEPT !.events = final]
    BY <1>1 DEF final
  <2>2. channels = [commands |-> channels.commands, events |-> channels.events,
                    raw |-> channels.raw, sinks |-> channels.sinks]
    BY <1>2 DEF ChannelsWithin, ChannelsOK
  <2>3. /\ channels'.commands = channels.commands /\ channels'.events = final /\ channels'.raw = channels.raw
        /\ channels' = [commands |-> channels'.commands, events |-> channels'.events,
                        raw |-> channels'.raw, sinks |-> channels'.sinks]
    BY <2>1, <2>2
  <2> QED BY <1>2, <1>8, <2>3 DEF ChannelsWithin, ChannelsOK
<1> QED BY <1>2, <1>9, <1>10, WithinKeeps

\* A command is about a stream that was touched, and makes it anew at most.
LEMMA ExecuteKeeps ==
    ASSUME H3Inv, Execute
    PROVE  H3Inv'
<1> DEFINE s == Command.of
<1>1. channels.commands # <<>> /\ UNCHANGED app
  BY DEF Execute, application
<1>2. /\ ChannelsWithin(Taken) /\ s \in Touched /\ s \in Requests
      /\ Command.is \in {"send", "tunnel", "reset"}
  BY <1>1, TakenWithin DEF H3Inv, Lined, AnyCommand
<1>3. AppWithin(app') /\ SessionWithin(session) /\ DOMAIN session.streams \subseteq Touched
  BY <1>1, Whole DEF SessionWithin
<1>4. \/ Command.is = "send" /\ Send
      \/ Command.is = "tunnel" /\ MakeTunnel
      \/ Command.is = "reset" /\ Reset
  BY <1>2 DEF Execute
<1>5. CASE Send
  <2> DEFINE state == [State(s) EXCEPT !.responded = TRUE, !.finished = @ \/ ~State(s).raw]
             streams == Retired(Kept(session.streams, s, state), s)
             queued == Queued(s, Command.octets, ~State(s).raw)
             count == held + Len(Command.octets)
  <2>1. /\ session' = [session EXCEPT !.streams = streams]
        /\ FlushStream(s, queued, count, Taken)
    BY <1>5 DEF Send
  <2>2. DOMAIN streams \subseteq DOMAIN session.streams \cup {s}
    BY RetiredNarrows DEF Kept
  <2> HIDE DEF s, streams, queued, count
  <2>3. SessionWithin(session')
    BY <1>2, <1>3, <2>1, <2>2, TableWithin
  <2>4. ChannelsWithin(channels')
    BY <1>2, <2>1, FlushWithin
  <2> QED BY <1>3, <2>3, <2>4, WithinKeeps
<1>6. CASE MakeTunnel
  <2> DEFINE sink == Taken.sinks[s] \o Handed(s)
             state == [session.streams[s] EXCEPT !.buffer = <<>>]
             streams == [session.streams EXCEPT ![s] = state]
  <2>1. channels' = [Taken EXCEPT !.sinks[s] = sink]
    BY <1>6 DEF MakeTunnel
  <2>2. session' = session \/ session' = [session EXCEPT !.streams[s].buffer = <<>>]
    BY <1>6 DEF MakeTunnel
  <2>3. [session EXCEPT !.streams[s].buffer = <<>>] = [session EXCEPT !.streams = streams]
    OBVIOUS
  <2>4. DOMAIN streams = DOMAIN session.streams
    OBVIOUS
  <2> HIDE DEF s, sink, streams
  <2>5. SessionWithin(session')
    BY <1>3, <2>2, <2>3, <2>4, TableWithin
  <2>6. ChannelsWithin(channels')
    BY <1>2, <2>1, SinkWithin
  <2> QED BY <1>3, <2>5, <2>6, WithinKeeps
<1>7. CASE Reset
  <2> DEFINE streams == Retired(session.streams, s)
  <2>1. session' = [session EXCEPT !.streams = streams] /\ channels' = Taken
    BY <1>7 DEF Reset
  <2>2. DOMAIN streams \subseteq Touched
    BY <1>3, RetiredNarrows
  <2> HIDE DEF s, streams
  <2>3. SessionWithin(session')
    BY <2>1, <2>2, TableWithin
  <2> QED BY <1>2, <1>3, <2>1, <2>3, WithinKeeps
<1> QED BY <1>4, <1>5, <1>6, <1>7

LEMMA TakeRawKeeps ==
    ASSUME H3Inv, TakeRaw
    PROVE  H3Inv'
<1> DEFINE w == Head(channels.raw)
           after == [channels EXCEPT !.raw = Tail(channels.raw)]
           queued == Queued(w.of, w.octets, w.fin)
           count == held + Len(w.octets)
<1>1. FlushStream(w.of, queued, count, after) /\ channels.raw # <<>> /\ UNCHANGED << session, app >>
  BY DEF TakeRaw, application
<1>2. AppWithin(app') /\ SessionWithin(session') /\ ChannelsWithin(channels) /\ RawOK(channels.raw)
  BY <1>1, Whole DEF ChannelsWithin, ChannelsOK
<1>3. RawOK(Tail(channels.raw)) /\ w.of \in Requests
  BY <1>1, <1>2, RawQueue
<1>4. ChannelsWithin(after)
  BY <1>2, <1>3, RawWithin
<1> HIDE DEF w, after, queued, count
<1>5. ChannelsWithin(channels')
  BY <1>1, <1>3, <1>4, FlushWithin
<1> QED BY <1>2, <1>5, WithinKeeps

LEMMA PassKeeps ==
    ASSUME H3Inv, Pass
    PROVE  H3Inv'
<1>1. ASSUME UNCHANGED << session, channels, app >> PROVE H3Inv'
  BY <1>1, Whole, WithinKeeps
<1>2. CASE Wake \/ CommandsDone \/ RawDone
  BY <1>1, <1>2 DEF Wake, CommandsDone, RawDone, worker, application
<1>3. CASE ReadsDone \/ FlushDone
  BY <1>3, EndHalfKeeps DEF ReadsDone, FlushDone
<1>4. ASSUME NEW s \in Requests, Flush(s) PROVE H3Inv'
  <2>1. FlushStream(s, outbound, held, channels) /\ UNCHANGED << session, app >>
    BY <1>4 DEF Flush, application
  <2>2. AppWithin(app') /\ SessionWithin(session') /\ ChannelsWithin(channels)
    BY <2>1, Whole
  <2>3. ChannelsWithin(channels')
    BY <2>1, <2>2, FlushWithin
  <2> QED BY <2>2, <2>3, WithinKeeps
<1> QED BY <1>2, <1>3, <1>4, ReadKeeps, ExecuteKeeps, TakeRawKeeps DEF Pass

-----------------------------------------------------------------------------
(* The application and the peer.                                           *)

\* The application becomes something of a request that was touched.
LEMMA BecomesWithin ==
    ASSUME H3Inv, NEW s \in Touched, NEW what, Becomes(s, what)
    PROVE  AppWithin(app')
<1>1. AppWithin(app) /\ s \in Requests
  BY Whole DEF H3Inv, Lined
<1>2. app' = [x \in Requests |-> IF x = s THEN what ELSE app[x]]
  BY <1>1 DEF Becomes, AppWithin, AppOK
<1> QED BY <1>1, <1>2 DEF AppWithin, AppOK

\* What it asks for is of a request it has.
LEMMA EnqueueWithin ==
    ASSUME H3Inv, NEW command \in AnyCommand, command.of \in Touched, Enqueue(command)
    PROVE  ChannelsWithin(channels')
<1> DEFINE q == channels.commands
           d == [channels EXCEPT !.commands = Append(q, command)]
<1>1. ChannelsWithin(channels)
  BY Whole
<1>2. q \in Seq(AnyCommand) /\ Backlog \in Nat /\ Targets(q) \subseteq Touched /\ Len(q) < Backlog
  BY <1>1, H3Assumption DEF ChannelsWithin, ChannelsOK, Enqueue
<1>3. channels' = d
  BY DEF Enqueue
<1>4. /\ d.commands = Append(q, command) /\ d.events = channels.events /\ d.raw = channels.raw
      /\ d = [commands |-> d.commands, events |-> d.events, raw |-> d.raw, sinks |-> d.sinks]
  <2>1. channels = [commands |-> channels.commands, events |-> channels.events,
                    raw |-> channels.raw, sinks |-> channels.sinks]
    BY <1>1 DEF ChannelsWithin, ChannelsOK
  <2>2. d = [channels EXCEPT !.commands = Append(q, command)]
    OBVIOUS
  <2> HIDE DEF d
  <2> QED BY <2>1, <2>2
<1> HIDE DEF q, d
<1>5. /\ Append(q, command) \in Seq(AnyCommand) /\ Len(Append(q, command)) = Len(q) + 1
      /\ \A i \in DOMAIN Append(q, command) :
            (i \in DOMAIN q /\ Append(q, command)[i] = q[i]) \/ Append(q, command)[i] = command
  BY <1>2, Pushed
<1>6. Len(Append(q, command)) <= Backlog /\ Targets(Append(q, command)) \subseteq Targets(q) \cup {command.of}
  BY <1>2, <1>5 DEF Targets
<1>7. ChannelsWithin(d)
  BY <1>1, <1>2, <1>4, <1>5, <1>6 DEF ChannelsWithin, ChannelsOK
<1> QED BY <1>3, <1>7

LEMMA AppIsTouched ==
    ASSUME NEW s \in Requests, app[s] # "none"
    PROVE  s \in Touched
BY DEF Touched

LEMMA ReceiveKeeps ==
    ASSUME H3Inv, Receive
    PROVE  H3Inv'
<1> DEFINE q == channels.events
           d == [channels EXCEPT !.events = Tail(q)]
<1>1. ChannelsWithin(channels) /\ SessionWithin(session) /\ AppWithin(app)
  BY Whole
<1>2. q \in Seq(AnyEvent) /\ q # <<>> /\ Len(q) <= Backlog /\ Backlog \in Nat /\ Messages(q) \subseteq Touched
  BY <1>1, H3Assumption DEF ChannelsWithin, ChannelsOK, Receive
<1>3. /\ channels' = d /\ UNCHANGED session
      /\ app' = app \/ (Head(q).is = "message" /\ \E what : Becomes(Head(q).of, what))
  BY DEF Receive, Idle, worker
<1>4. /\ d.commands = channels.commands /\ d.events = Tail(q) /\ d.raw = channels.raw
      /\ d = [commands |-> d.commands, events |-> d.events, raw |-> d.raw, sinks |-> d.sinks]
  <2>1. channels = [commands |-> channels.commands, events |-> channels.events,
                    raw |-> channels.raw, sinks |-> channels.sinks]
    BY <1>1 DEF ChannelsWithin, ChannelsOK
  <2>2. d = [channels EXCEPT !.events = Tail(q)]
    OBVIOUS
  <2> HIDE DEF d
  <2> QED BY <2>1, <2>2
<1> HIDE DEF q, d
<1>5. /\ Tail(q) \in Seq(AnyEvent) /\ Len(Tail(q)) = Len(q) - 1 /\ 1 \in DOMAIN q /\ Head(q) = q[1]
      /\ \A i \in DOMAIN Tail(q) : i + 1 \in DOMAIN q /\ Tail(q)[i] = q[i + 1]
  BY <1>2, Popped
<1>6. Len(Tail(q)) <= Backlog /\ Messages(Tail(q)) \subseteq Messages(q)
  BY <1>2, <1>5 DEF Messages
<1>7. Head(q).is = "message" => Head(q).of \in Messages(q)
  BY <1>5 DEF Messages
<1>8. ChannelsWithin(d)
  BY <1>1, <1>2, <1>4, <1>5, <1>6 DEF ChannelsWithin, ChannelsOK
<1>9. AppWithin(app')
  <2>1. CASE app' = app
    BY <1>1, <2>1
  <2>2. CASE Head(q).is = "message" /\ \E what : Becomes(Head(q).of, what)
    BY <1>2, <1>7, <2>2, BecomesWithin
  <2> QED BY <1>3, <2>1, <2>2
<1> QED BY <1>1, <1>3, <1>8, <1>9, WithinKeeps

LEMMA UseKeeps ==
    ASSUME H3Inv, NEW s \in Requests, Respond(s) \/ Accept(s) \/ Tunnel(s) \/ ResetTunnel(s)
    PROVE  H3Inv'
<1> DEFINE answer == [is |-> "send", of |-> s, octets |-> Answer]
           accepts == [is |-> "send", of |-> s, octets |-> <<0>>]
           Other(is) == [is |-> is, of |-> s]
           commands == {answer, accepts, Other("tunnel"), Other("reset")}
<1>1. \A c \in commands : c \in AnyCommand /\ c.of = s
  <2>1. answer \in AnyCommand
    BY H3Assumption DEF AnyCommand
  <2>2. accepts \in AnyCommand
    <3>1. <<0>> \in Seq(0 .. 255)
      OBVIOUS
    <3> QED BY <3>1 DEF AnyCommand
  <2>3. Other("tunnel") \in AnyCommand /\ Other("reset") \in AnyCommand
    BY DEF AnyCommand
  <2>4. answer.of = s /\ accepts.of = s /\ Other("tunnel").of = s /\ Other("reset").of = s
    OBVIOUS
  <2> HIDE DEF answer, accepts, Other
  <2> QED BY <2>1, <2>2, <2>3, <2>4
<1>2. /\ app[s] # "none" /\ UNCHANGED session
      /\ \E c \in commands : Enqueue(c)
      /\ \E what : Becomes(s, what)
  <2>1. CASE Respond(s)
    BY <2>1 DEF Respond, Idle, worker
  <2>2. CASE Accept(s)
    BY <2>2 DEF Accept, Idle, worker
  <2>3. CASE Tunnel(s)
    BY <2>3 DEF Tunnel, Idle, worker
  <2>4. CASE ResetTunnel(s)
    BY <2>4 DEF ResetTunnel, Idle, worker
  <2> QED BY <2>1, <2>2, <2>3, <2>4
<1> HIDE DEF commands
<1>3. s \in Touched
  BY <1>2, AppIsTouched
<1>4. ChannelsWithin(channels')
  BY <1>1, <1>2, <1>3, EnqueueWithin
<1>5. AppWithin(app')
  BY <1>2, <1>3, BecomesWithin
<1>6. SessionWithin(session')
  BY <1>2, Whole
<1> QED BY <1>4, <1>5, <1>6, WithinKeeps

LEMMA TunnelUseKeeps ==
    ASSUME H3Inv, NEW s \in Requests, Write(s) \/ ReadTunnel(s)
    PROVE  H3Inv'
<1>1. UNCHANGED << session, app >>
  BY DEF Write, ReadTunnel, Idle, worker
<1>2. ChannelsWithin(channels) /\ SessionWithin(session') /\ AppWithin(app') /\ RawOK(channels.raw)
  BY <1>1, Whole DEF ChannelsWithin, ChannelsOK
<1>3. CASE Write(s)
  <2>1. PICK w : w.of = s /\ channels' = [channels EXCEPT !.raw = Append(channels.raw, w)]
    <3>1. PICK octets : channels' = [channels EXCEPT
              !.raw = Append(channels.raw, [of |-> s, octets |-> octets, fin |-> octets = <<>>])]
      BY <1>3 DEF Write
    <3> DEFINE w == [of |-> s, octets |-> octets, fin |-> octets = <<>>]
    <3>2. w.of = s
      OBVIOUS
    <3> HIDE DEF w
    <3> QED BY <3>1, <3>2 DEF w
  <2>2. RawOK(Append(channels.raw, w))
    BY <1>2, <2>1, RawQueue
  <2>3. ChannelsWithin(channels')
    BY <1>2, <2>1, <2>2, RawWithin
  <2> QED BY <1>2, <2>3, WithinKeeps
<1>4. CASE ReadTunnel(s)
  <2>1. channels' = [channels EXCEPT !.sinks[s] = Tail(channels.sinks[s])]
    BY <1>4 DEF ReadTunnel
  <2>2. ChannelsWithin(channels')
    BY <1>2, <2>1, SinkWithin
  <2> QED BY <1>2, <2>2, WithinKeeps
<1> QED BY <1>3, <1>4

\* What arrives is only known of when it is read; a GOAWAY of the peer's, and the
\* loss of the connection, touch no stream.
LEMMA OutsideKeeps ==
    ASSUME H3Inv,
           \/ Expire \/ Insert \/ Leave
           \/ \E s \in Requests : Arrive(s) \/ Finish(s) \/ Grant(s) \/ GiveUp(s) \/ Stop(s)
    PROVE  H3Inv'
<1>1. ChannelsWithin(channels) /\ SessionWithin(session) /\ AppWithin(app)
  BY Whole
<1>2. CASE Expire
  <2>1. Fail /\ UNCHANGED << session, app >>
    BY <1>2 DEF Expire, application
  <2>2. ChannelsWithin(channels')
    BY <1>1, <2>1, ReportWithin DEF Fail
  <2> QED BY <1>1, <2>1, <2>2, WithinKeeps
<1>3. CASE Leave
  <2>1. session' = [session EXCEPT !.leaving = "arrived"] /\ UNCHANGED << channels, app >>
    BY <1>3 DEF Leave, application
  <2>2. /\ session'.streams = session.streams /\ session'.ready = session.ready
        /\ session'.highest = session.highest /\ session'.goaway = session.goaway
        /\ session' = [streams |-> session'.streams, ready |-> session'.ready, goaway |-> session'.goaway,
                       total |-> session'.total, highest |-> session'.highest, leaving |-> session'.leaving]
    BY <1>1, <2>1 DEF SessionWithin, SessionOK
  <2>3. SessionWithin(session')
    BY <1>1, <2>2, NarrowedWithin DEF SessionWithin, SessionOK
  <2> QED BY <1>1, <2>1, <2>3, WithinKeeps
<1>4. CASE Insert \/ \E s \in Requests : Arrive(s) \/ Finish(s) \/ Grant(s) \/ GiveUp(s) \/ Stop(s)
  <2>1. UNCHANGED << session, channels, app >>
    BY <1>4 DEF Insert, Arrive, Finish, Grant, GiveUp, Stop, Outside, worker, application
  <2> QED BY <1>1, <2>1, WithinKeeps
<1> QED BY <1>2, <1>3, <1>4

-----------------------------------------------------------------------------
(* The theorems.                                                           *)

\* The channels of the worker keep to command_backlog, and what is on its way in
\* them is of requests, of streams up to the highest that was taken in: on every
\* path of H3Worker::process_reads, ::process_writes and ::execute (src/protocol/h3.rs).
THEOREM WorkerKeepsTheLine == Spec => []H3Inv
<1>1. Init => H3Inv
  <2> SUFFICES ASSUME Init PROVE H3Inv
    OBVIOUS
  <2>1. SessionOK(session) /\ DOMAIN session.streams = {} /\ Range(session.ready) = {}
    BY DEF Init, SessionOK, None, Range
  <2>2. ChannelsOK(channels) /\ Messages(channels.events) = {} /\ Targets(channels.commands) = {}
    BY H3Assumption DEF Init, ChannelsOK, Messages, Targets, RawOK, Range
  <2>3. AppOK(app) /\ {s \in Requests : app[s] # "none"} = {}
    BY DEF Init, AppOK
  <2>4. Touched = {}
    BY <2>1, <2>2, <2>3 DEF Touched
  <2> QED BY <2>1, <2>2, <2>3, <2>4 DEF H3Inv, Lined
<1>2. H3Inv /\ [Next]_vars => H3Inv'
  <2> SUFFICES ASSUME H3Inv, [Next]_vars PROVE H3Inv'
    OBVIOUS
  <2>1. CASE UNCHANGED vars
    BY <2>1, Whole, WithinKeeps DEF vars
  <2>2. CASE Use
    BY <2>2, ReceiveKeeps, UseKeeps, TunnelUseKeeps DEF Use
  <2>3. CASE Expire \/ Progress \/ \E s \in Requests : GiveUp(s) \/ Stop(s)
    BY <2>3, OutsideKeeps DEF Progress
  <2>4. CASE \E s \in Requests : ResetTunnel(s)
    BY <2>4, UseKeeps
  <2> QED BY <2>1, <2>2, <2>3, <2>4, PassKeeps DEF Next
<1> QED BY <1>1, <1>2, PTL DEF Spec

\* Once a server has sent GOAWAY (H3Worker::goaway) it holds, has ready or has handed
\* to the application no stream that it disowns: what a client is told to send
\* again elsewhere was not and will not be acted on.
THEOREM OwnedHolds == Spec => []Owned
<1>1. H3Inv => Owned
  BY DEF H3Inv, Lined, Touched, Owned, Held
<1> QED BY <1>1, WorkerKeepsTheLine, PTL

-----------------------------------------------------------------------------
(* Each request once: the invariant.                                       *)

AnyPeer ==
    [sent : Nat, fin : BOOLEAN, read : BOOLEAN, reset : {"no", "unread", "read"},
     stopped : BOOLEAN, credit : Nat]

\* Nothing more will be read of the stream.
Exhausted(s) ==
    \/ s \in reset
    \/ /\ inbox[s] = <<>> /\ (peer[s].fin => peer[s].read)
       /\ peer[s].reset = "read" \/ (peer[s].fin /\ peer[s].reset = "no")

\* What comes after the end, and what a pass has yet to read: a stream that had
\* something to read when it began.
PeerInv ==
    /\ peer \in [Requests -> AnyPeer] /\ inbox = [s \in Requests \cup {encoder} |-> inbox[s]]
    /\ \A s \in Requests : peer[s].fin => peer[s].sent = Len(Script[s])
    /\ phase = "reads" => todo \subseteq Requests \cup {encoder} /\ \A s \in todo : Readable(s)

\* Only a stream that was read to its end, or is a tunnel's, has given its message.
Shape(x) ==
    /\ x = [buffer |-> x.buffer, message |-> x.message, pending |-> x.pending, eof |-> x.eof,
            delivered |-> x.delivered, finished |-> x.finished, raw |-> x.raw, responded |-> x.responded]
    /\ x.message \in BOOLEAN /\ x.pending \in BOOLEAN /\ x.eof \in BOOLEAN
    /\ x.delivered \in BOOLEAN /\ x.finished \in BOOLEAN /\ x.raw \in BOOLEAN
    /\ x.delivered => ~x.pending /\ (x.raw \/ x.eof)
    /\ x.raw => x.delivered

StreamsInv ==
    \A s \in DOMAIN session.streams :
        Shape(session.streams[s]) /\ (session.streams[s].eof => Exhausted(s))

\* The requests that are ready, on their way to the application, or with it.
Passed == Range(session.ready) \cup Messages(channels.events) \cup {s \in Requests : app[s] # "none"}

\* The stream will not give a message again.
Settled(s) ==
    \/ Held(s) /\ session.streams[s].delivered
    \/ Exhausted(s) /\ (Held(s) => ~session.streams[s].pending)

SettledInv == (\A s \in Passed : Settled(s)) /\ \A s \in Targets(channels.commands) : app[s] # "none"

\* A request is in one place.
OneEach(ready, events, a) ==
    /\ \A i, j \in DOMAIN ready : ready[i] = ready[j] => i = j
    /\ \A i, j \in DOMAIN events :
         events[i].is = "message" /\ events[j].is = "message" /\ events[i].of = events[j].of => i = j
    /\ \A s \in Range(ready) : s \notin Messages(events) /\ a[s] = "none"
    /\ \A s \in Messages(events) : a[s] = "none"

HandedOnce == OneEach(session.ready, channels.events, app)

OnceInv == StreamsInv /\ SettledInv /\ HandedOnce

-----------------------------------------------------------------------------
(* Each request once: the queues it passes through.                        *)

\* A report is no message.
LEMMA ReportOneEach ==
    ASSUME NEW ready, NEW events \in Seq(AnyEvent), NEW a, OneEach(ready, events, a),
           NEW s \in Requests \cup {None}
    PROVE  LET e == Append(events, [is |-> "failed", of |-> s])
           IN  OneEach(ready, e, a) /\ Messages(e) = Messages(events)
<1> DEFINE x == [is |-> "failed", of |-> s]
           e == Append(events, x)
<1>1. x \in AnyEvent /\ x.is = "failed"
  BY DEF AnyEvent
<1> HIDE DEF x, AnyEvent
<1>2. /\ DOMAIN e = DOMAIN events \cup {Len(events) + 1} /\ Len(events) + 1 \notin DOMAIN events
      /\ \A i \in DOMAIN events : e[i] = events[i]
      /\ e[Len(events) + 1] = x
  BY <1>1
<1> HIDE DEF e
<1>3. \A i \in DOMAIN e : e[i].is = "message" => i \in DOMAIN events /\ e[i] = events[i]
  BY <1>1, <1>2
<1>4. Messages(e) = Messages(events)
  BY <1>2, <1>3 DEF Messages
<1> QED BY <1>3, <1>4 DEF OneEach, e, x

\* More that is ready.
LEMMA MoreOneEach ==
    ASSUME NEW ready \in Seq(Requests), NEW list \in Seq(Requests), NEW events, NEW a,
           OneEach(ready, events, a),
           \A i, j \in DOMAIN list : list[i] = list[j] => i = j,
           \A s \in Range(list) : s \notin Range(ready) /\ s \notin Messages(events) /\ a[s] = "none"
    PROVE  OneEach(ready \o list, events, a) /\ Range(ready \o list) = Range(ready) \cup Range(list)
<1> DEFINE all == ready \o list
           n == Len(ready)
<1>1. /\ n \in Nat /\ DOMAIN ready = 1 .. n /\ DOMAIN list = 1 .. Len(list) /\ Len(list) \in Nat
      /\ DOMAIN all = 1 .. n + Len(list)
      /\ \A i \in 1 .. n : all[i] = ready[i]
      /\ \A i \in 1 .. Len(list) : all[n + i] = list[i]
  OBVIOUS
<1> HIDE DEF all, n
<1>2. \A i \in DOMAIN all : (i \in 1 .. n /\ all[i] = ready[i])
                              \/ (i - n \in 1 .. Len(list) /\ all[i] = list[i - n])
  <2> SUFFICES ASSUME NEW i \in DOMAIN all, ~(i \in 1 .. n)
               PROVE  i - n \in 1 .. Len(list) /\ all[i] = list[i - n]
    BY <1>1
  <2>1. i - n \in 1 .. Len(list) /\ n + (i - n) = i
    BY <1>1
  <2> QED BY <1>1, <2>1
<1>3. Range(all) = Range(ready) \cup Range(list)
  <2>1. \A x \in Range(all) : x \in Range(ready) \cup Range(list)
    BY <1>1, <1>2 DEF Range
  <2>2. \A i \in 1 .. n : i \in DOMAIN all
    BY <1>1
  <2>3. \A i \in 1 .. Len(list) : n + i \in DOMAIN all
    BY <1>1
  <2>4. \A x \in Range(ready) : x \in Range(all)
    BY <1>1, <2>2 DEF Range
  <2>5. \A x \in Range(list) : x \in Range(all)
    BY <1>1, <2>3 DEF Range
  <2> QED BY <2>1, <2>4, <2>5
<1>4. ASSUME NEW i \in DOMAIN all, NEW j \in DOMAIN all, all[i] = all[j] PROVE i = j
  <2>1. i \in Int /\ j \in Int /\ n \in Int
    BY <1>1
  <2>2. CASE i \in 1 .. n /\ j \in 1 .. n
    <3>1. ready[i] = ready[j]
      BY <1>1, <1>4, <2>2
    <3> QED BY <1>1, <2>2, <3>1 DEF OneEach
  <2>3. CASE i - n \in 1 .. Len(list) /\ j - n \in 1 .. Len(list)
    <3>1. i \notin 1 .. n /\ j \notin 1 .. n
      BY <1>1, <2>1, <2>3
    <3>2. list[i - n] = list[j - n]
      BY <1>2, <1>4, <3>1
    <3>3. i - n = j - n
      BY <1>1, <2>3, <3>2
    <3> QED BY <2>1, <3>3
  <2>4. ASSUME NEW k \in 1 .. n, NEW m \in 1 .. Len(list), ready[k] = list[m] PROVE FALSE
    <3>1. ready[k] \in Range(ready) /\ list[m] \in Range(list)
      BY <1>1 DEF Range
    <3> QED BY <2>4, <3>1
  <2> QED BY <1>2, <1>4, <2>2, <2>3, <2>4
<1> QED BY <1>3, <1>4 DEF OneEach, all

\* What is ready is put in the events in order.
LEMMA MovedOneEach ==
    ASSUME NEW ready \in Seq(Requests), NEW events \in Seq(AnyEvent), NEW a, OneEach(ready, events, a),
           NEW n \in Nat, n <= Len(ready)
    PROVE  LET rest == SubSeq(ready, n + 1, Len(ready))
               moved == [i \in 1 .. n |-> [is |-> "message", of |-> ready[i]]]
           IN  /\ OneEach(rest, events \o moved, a) /\ events \o moved \in Seq(AnyEvent)
               /\ Range(rest) \cup Messages(events \o moved) \subseteq Range(ready) \cup Messages(events)
<1> DEFINE rest == SubSeq(ready, n + 1, Len(ready))
           moved == [i \in 1 .. n |-> [is |-> "message", of |-> ready[i]]]
           all == events \o moved
           m == Len(events)
<1>1. /\ Len(ready) \in Nat /\ DOMAIN ready = 1 .. Len(ready)
      /\ \A i \in DOMAIN rest : i \in Nat /\ i + n \in DOMAIN ready /\ rest[i] = ready[i + n] /\ i > 0
  OBVIOUS
<1>2. /\ \A i \in 1 .. n : i \in DOMAIN ready /\ ready[i] \in Requests
      /\ \A i \in 1 .. n : moved[i].is = "message" /\ moved[i].of = ready[i] /\ moved[i] \in AnyEvent
  <2>1. \A i \in 1 .. n : i \in DOMAIN ready /\ ready[i] \in Requests
    BY <1>1
  <2> QED BY <2>1 DEF AnyEvent
<1> HIDE DEF rest, AnyEvent
<1>3. moved \in Seq(AnyEvent) /\ Len(moved) = n
  BY <1>2
<1>4. \A i \in 1 .. n : moved[i].is = "message" /\ moved[i].of = ready[i]
  BY <1>2
<1> HIDE DEF moved
<1>5. /\ all \in Seq(AnyEvent) /\ m \in Nat /\ DOMAIN events = 1 .. m
      /\ DOMAIN all = 1 .. m + n
      /\ \A i \in 1 .. m : all[i] = events[i]
      /\ \A i \in 1 .. n : all[m + i] = moved[i]
  BY <1>3
<1> HIDE DEF all, m
<1>6. ASSUME NEW i \in DOMAIN all
      PROVE  \/ i \in 1 .. m /\ all[i] = events[i]
             \/ /\ i - m \in 1 .. n /\ i - m \in DOMAIN ready
                /\ all[i].is = "message" /\ all[i].of = ready[i - m]
  <2>1. i \in 1 .. m \/ (i - m \in 1 .. n /\ m + (i - m) = i)
    BY <1>5
  <2>2. CASE i - m \in 1 .. n /\ m + (i - m) = i
    <3>1. all[i] = moved[i - m]
      BY <1>5, <2>2
    <3> QED BY <1>2, <1>4, <2>2, <3>1
  <2> QED BY <1>5, <2>1, <2>2
<1>7. Messages(all) \subseteq Messages(events) \cup {ready[i] : i \in 1 .. n}
  <2> SUFFICES ASSUME NEW i \in DOMAIN all, all[i].is = "message"
               PROVE  all[i].of \in Messages(events) \cup {ready[k] : k \in 1 .. n}
    BY DEF Messages
  <2> QED BY <1>5, <1>6 DEF Messages
<1>8. Range(rest) \subseteq Range(ready) /\ {ready[i] : i \in 1 .. n} \subseteq Range(ready)
  BY <1>1, <1>2 DEF Range
<1>9. ASSUME NEW i \in DOMAIN all, NEW j \in DOMAIN all, all[i].is = "message", all[j].is = "message",
             all[i].of = all[j].of
      PROVE  i = j
  <2>1. i \in Int /\ j \in Int /\ m \in Int
    BY <1>5
  <2>2. CASE i \in 1 .. m /\ all[i] = events[i] /\ j \in 1 .. m /\ all[j] = events[j]
    BY <1>5, <1>9, <2>2 DEF OneEach
  <2>3. ASSUME NEW k \in 1 .. m, NEW l \in DOMAIN ready, events[k].is = "message", events[k].of = ready[l]
        PROVE  FALSE
    <3>1. ready[l] \in Range(ready) /\ events[k].of \in Messages(events)
      BY <1>5, <2>3 DEF Range, Messages
    <3> QED BY <2>3, <3>1 DEF OneEach
  <2>4. CASE i - m \in DOMAIN ready /\ j - m \in DOMAIN ready /\ all[i].of = ready[i - m] /\ all[j].of = ready[j - m]
    <3>1. i - m = j - m
      BY <1>9, <2>4 DEF OneEach
    <3> QED BY <2>1, <3>1
  <2> QED BY <1>6, <1>9, <2>2, <2>3, <2>4
<1>10. ASSUME NEW i \in DOMAIN rest, NEW j \in DOMAIN rest, rest[i] = rest[j] PROVE i = j
  <2>1. i + n = j + n
    BY <1>1, <1>10 DEF OneEach
  <2> QED BY <1>1, <2>1
<1>11. ASSUME NEW s \in Range(rest) PROVE s \notin Messages(all)
  <2>1. PICK i \in DOMAIN rest : s = rest[i]
    BY DEF Range
  <2>2. s = ready[i + n] /\ i + n \in DOMAIN ready /\ i + n \notin 1 .. n
    BY <1>1, <2>1
  <2>3. \A k \in 1 .. n : ready[k] # s
    BY <1>2, <2>2 DEF OneEach
  <2>4. s \notin Messages(events)
    BY <1>8 DEF OneEach
  <2> QED BY <1>7, <2>3, <2>4
<1>12. \A s \in Range(rest) \cup Messages(all) : a[s] = "none"
  BY <1>7, <1>8 DEF OneEach
<1>13. OneEach(rest, all, a)
  BY <1>9, <1>10, <1>11, <1>12 DEF OneEach
<1> QED BY <1>5, <1>7, <1>8, <1>13 DEF rest, moved, all

\* The first event is taken, and its message with it.
LEMMA PoppedOneEach ==
    ASSUME NEW ready, NEW events \in Seq(AnyEvent), events # <<>>, NEW a, OneEach(ready, events, a)
    PROVE  /\ OneEach(ready, Tail(events), a) /\ Messages(Tail(events)) \subseteq Messages(events)
           /\ Head(events).is = "message" =>
                /\ Head(events).of \in Messages(events) /\ Head(events).of \notin Messages(Tail(events))
                /\ Head(events).of \notin Range(ready)
<1> HIDE DEF AnyEvent
<1> DEFINE t == Tail(events)
<1>1. /\ 1 \in DOMAIN events /\ Head(events) = events[1]
      /\ \A i \in DOMAIN t : i \in Nat /\ i > 0 /\ i + 1 \in DOMAIN events /\ t[i] = events[i + 1]
  OBVIOUS
<1> HIDE DEF t
<1>2. Messages(t) \subseteq Messages(events)
  BY <1>1 DEF Messages
<1>3. ASSUME NEW i \in DOMAIN t, NEW j \in DOMAIN t, t[i].is = "message", t[j].is = "message", t[i].of = t[j].of
      PROVE  i = j
  <2>1. i + 1 = j + 1
    BY <1>1, <1>3 DEF OneEach
  <2> QED BY <1>1, <2>1
<1>4. OneEach(ready, t, a)
  BY <1>2, <1>3 DEF OneEach
<1>5. ASSUME events[1].is = "message"
      PROVE  /\ events[1].of \in Messages(events) /\ events[1].of \notin Messages(t)
             /\ events[1].of \notin Range(ready)
  <2>1. events[1].of \in Messages(events)
    BY <1>1, <1>5 DEF Messages
  <2>2. \A i \in DOMAIN t : i + 1 # 1
    BY <1>1
  <2>3. \A i \in DOMAIN t : t[i].is = "message" => t[i].of # events[1].of
    BY <1>1, <1>5, <2>2 DEF OneEach
  <2> QED BY <2>1, <2>3 DEF Messages, OneEach
<1> QED BY <1>1, <1>2, <1>4, <1>5 DEF t

-----------------------------------------------------------------------------
(* Each request once: what has been read of a stream.                      *)

\* A stream that is done with is done with for good.
ExhaustedStays == \A s \in Requests : Exhausted(s) => Exhausted(s)'

\* What a pass is to read is not, and what was read stays so while no packet is taken.
LEMMA PeerSame ==
    ASSUME PeerInv, peer' \in [Requests -> AnyPeer],
           \A x \in Requests : /\ peer'[x].sent = peer[x].sent /\ peer'[x].fin = peer[x].fin
                               /\ peer'[x].read = peer[x].read /\ peer'[x].reset = peer[x].reset,
           UNCHANGED inbox, reset \subseteq reset', phase' # "reads" \/ UNCHANGED << phase, todo, reset >>
    PROVE  PeerInv' /\ ExhaustedStays
<1> HIDE DEF AnyPeer
<1>1. ExhaustedStays
  BY DEF ExhaustedStays, Exhausted
<1>2. ASSUME phase' = "reads", NEW s \in todo' PROVE Readable(s)'
  <2>1. Readable(s) /\ (s = encoder \/ s \in Requests) /\ reset' = reset /\ phase = "reads" /\ todo' = todo
    BY <1>2 DEF PeerInv
  <2> QED BY <2>1 DEF Readable
<1>3. PeerInv'
  BY <1>2 DEF PeerInv
<1> QED BY <1>1, <1>3

LEMMA NotReadable ==
    ASSUME PeerInv, NEW s \in Requests, Readable(s)
    PROVE  ~Exhausted(s)
BY DEF Readable, Exhausted, PeerInv, AnyPeer

LEMMA WakePeer ==
    ASSUME PeerInv, Wake
    PROVE  PeerInv' /\ ExhaustedStays
<1>1. UNCHANGED << peer, inbox, reset >> /\ phase' = "reads" /\ todo' = {s \in DOMAIN inbox : Readable(s)}
  BY DEF Wake, worker
<1>2. \A s : Readable(s) => Readable(s)'
  BY <1>1 DEF Readable
<1> QED BY <1>1, <1>2 DEF PeerInv, ExhaustedStays, Exhausted

\* What is read of a stream: after its end, or its reset, there is no more.
LEMMA ReadPeer ==
    ASSUME PeerInv, NEW s \in Requests \cup {encoder}, Read(s), reset \subseteq reset', reset' \subseteq reset \cup {s}
    PROVE  /\ PeerInv' /\ ExhaustedStays
           /\ s \in Requests /\ ~(s \in tunnels /\ Len(channels.sinks[s]) >= TunnelBacklog)
                /\ (peer[s].fin \/ peer[s].reset = "unread") => Exhausted(s)'
<1> DEFINE full == s \in tunnels /\ Len(channels.sinks[s]) >= TunnelBacklog
<1>1. /\ phase = "reads" /\ s \in todo /\ todo' = todo \ {s} /\ phase' = phase
      /\ inbox' = IF full THEN inbox ELSE [inbox EXCEPT ![s] = <<>>]
      /\ peer' = IF full \/ s = encoder THEN peer
                 ELSE [peer EXCEPT ![s].read = (s # encoder /\ peer[s].fin),
                                   ![s].reset = IF @ = "unread" THEN "read" ELSE @]
  BY DEF Read
<1>2. encoder \notin Requests
  BY RequestsAreCounted DEF encoder, None
<1>3. \A x \in Requests : x # s => peer'[x] = peer[x] /\ inbox'[x] = inbox[x]
  BY <1>1, <1>2 DEF PeerInv
<1>4. s \in Requests /\ ~full =>
        /\ inbox'[s] = <<>> /\ peer'[s].fin = peer[s].fin /\ peer'[s].read = peer[s].fin
        /\ peer'[s].reset = IF peer[s].reset = "unread" THEN "read" ELSE peer[s].reset
        /\ peer'[s].sent = peer[s].sent /\ peer'[s] \in AnyPeer
  BY <1>1, <1>2 DEF PeerInv, AnyPeer
<1>5. peer' \in [Requests -> AnyPeer]
  <2>1. CASE full \/ s = encoder
    BY <1>1, <2>1 DEF PeerInv
  <2>2. CASE ~(full \/ s = encoder)
    <3>1. s \in Requests /\ peer'[s] \in AnyPeer
      BY <1>4, <2>2
    <3>2. peer' = [x \in Requests |-> peer'[x]]
      BY <1>1, <2>2 DEF PeerInv
    <3>3. \A x \in Requests : peer'[x] \in AnyPeer
      BY <1>3, <3>1 DEF PeerInv
    <3> HIDE DEF AnyPeer
    <3> QED BY <3>2, <3>3
  <2> QED BY <2>1, <2>2
<1>6. inbox' = [x \in Requests \cup {encoder} |-> inbox'[x]]
  BY <1>1 DEF PeerInv
<1>7. s \in Requests /\ full => peer' = peer /\ inbox' = inbox
  BY <1>1
<1> HIDE DEF full, AnyPeer
<1>8. \A x \in Requests : peer'[x].fin => peer'[x].sent = Len(Script[x])
  BY <1>1, <1>3, <1>4, <1>7 DEF PeerInv
<1>9. ASSUME NEW x \in todo' PROVE Readable(x)'
  <2>1. x \in todo /\ x # s /\ Readable(x) /\ (x = encoder \/ x \in Requests)
    BY <1>1, <1>9 DEF PeerInv
  <2>2. inbox'[x] = inbox[x]
    BY <1>1, <2>1 DEF PeerInv
  <2>3. x \in Requests => peer'[x] = peer[x]
    BY <1>3, <2>1
  <2> QED BY <2>1, <2>2, <2>3 DEF Readable
<1>10. PeerInv'
  BY <1>1, <1>5, <1>6, <1>8, <1>9 DEF PeerInv
<1>11. ASSUME s \in Requests, ~full, peer[s].fin \/ peer[s].reset = "unread" PROVE Exhausted(s)'
  <2>1. peer[s].reset \in {"no", "unread", "read"}
    BY <1>11 DEF PeerInv, AnyPeer
  <2> QED BY <1>4, <1>11, <2>1 DEF Exhausted
<1>12. ASSUME NEW x \in Requests, Exhausted(x) PROVE Exhausted(x)'
  <2>1. x # s
    BY <1>1, <1>12, NotReadable DEF PeerInv
  <2> QED BY <1>3, <1>12, <2>1 DEF Exhausted
<1> QED BY <1>10, <1>11, <1>12 DEF ExhaustedStays, full

-----------------------------------------------------------------------------
(* What streams have to send.                                              *)

Queue == [octets : Seq(0 .. 255), fin : BOOLEAN]
QueuesOK(queues) == DOMAIN queues \subseteq Requests /\ \A s \in DOMAIN queues : queues[s] \in Queue

\* What waits to be sent is octets, and a tunnel was given some when it was accepted.
QueuesInv ==
    /\ QueuesOK(outbound)
    /\ \A i \in DOMAIN channels.raw : channels.raw[i].octets \in Seq(0 .. 255) /\ channels.raw[i].fin \in BOOLEAN
    /\ given = [s \in Requests |-> given[s]]
    /\ \A s \in Requests : /\ given[s].octets \in Seq(0 .. 255)
                           /\ app[s] \in {"accepted", "tunnel"} => given[s].octets # <<>>
    /\ phase = "flush" => todo \subseteq DOMAIN outbound

LEMMA LesserOfTwo ==
    ASSUME NEW a \in Nat, NEW b \in Nat
    PROVE  Min({a, b}) \in Nat /\ Min({a, b}) <= a /\ Min({a, b}) <= b
<1>1. \E x \in {a, b} : \A y \in {a, b} : x <= y
  OBVIOUS
<1>2. Min({a, b}) \in {a, b} /\ \A y \in {a, b} : Min({a, b}) <= y
  BY <1>1 DEF Min
<1> QED BY <1>2

LEMMA RestOf ==
    ASSUME NEW S, NEW q \in Seq(S), NEW n \in 0 .. Len(q)
    PROVE  SubSeq(q, n + 1, Len(q)) \in Seq(S) /\ Len(SubSeq(q, n + 1, Len(q))) = Len(q) - n
OBVIOUS

LEMMA QueuedOK ==
    ASSUME QueuesOK(outbound), NEW s \in Requests, NEW octets \in Seq(0 .. 255), NEW fin \in BOOLEAN
    PROVE  /\ QueuesOK(Queued(s, octets, fin)) /\ s \in DOMAIN Queued(s, octets, fin)
           /\ DOMAIN Queued(s, octets, fin) = DOMAIN outbound \cup {s}
<1> DEFINE entry == IF s \in DOMAIN outbound THEN outbound[s] ELSE [octets |-> <<>>, fin |-> FALSE]
           new == [octets |-> entry.octets \o octets, fin |-> entry.fin \/ fin]
<1>1. entry.octets \in Seq(0 .. 255) /\ entry.fin \in BOOLEAN
  <2>1. <<>> \in Seq(0 .. 255)
    OBVIOUS
  <2> QED BY <2>1 DEF QueuesOK, Queue
<1>2. new \in Queue
  <2>1. entry.octets \o octets \in Seq(0 .. 255) /\ (entry.fin \/ fin) \in BOOLEAN
    BY <1>1
  <2> QED BY <2>1 DEF Queue
<1>3. Queued(s, octets, fin) = Kept(outbound, s, new)
  BY DEF Queued
<1> HIDE DEF new, Queue
<1> QED BY <1>2, <1>3 DEF Kept, QueuesOK

\* flush_stream sends or drops some of a stream's octets, and takes as many off the
\* count; the stream is let go when it has none left.
LEMMA Flushed ==
    ASSUME peer \in [Requests -> AnyPeer], NEW streams, QueuesOK(streams), NEW s \in DOMAIN streams,
           NEW count, NEW after, FlushStream(s, streams, count, after)
    PROVE  /\ \E n \in 0 .. Len(streams[s].octets) :
                /\ held' = count - n
                /\ \/ outbound' = Kept(streams, s, [streams[s] EXCEPT
                                     !.octets = SubSeq(streams[s].octets, n + 1, Len(streams[s].octets))])
                   \/ outbound' = Without(streams, s) /\ n = Len(streams[s].octets)
           /\ QueuesOK(outbound') /\ DOMAIN streams \ {s} \subseteq DOMAIN outbound'
           /\ peer' \in [Requests -> AnyPeer]
           /\ \A x \in Requests : /\ peer'[x].sent = peer[x].sent /\ peer'[x].fin = peer[x].fin
                                  /\ peer'[x].read = peer[x].read /\ peer'[x].reset = peer[x].reset
<1> DEFINE entry == streams[s]
           idle == entry.octets = <<>> /\ ~entry.fin
           n == IF idle THEN 0 ELSE Freed(s, entry)
           rest == SubSeq(entry.octets, n + 1, Len(entry.octets))
           sent == ~idle /\ ~peer[s].stopped
           left == [entry EXCEPT !.octets = rest]
<1>1. entry \in Queue /\ entry.octets \in Seq(0 .. 255) /\ Len(entry.octets) \in Nat /\ s \in Requests
  BY DEF QueuesOK, Queue
<1>2. peer[s] \in AnyPeer /\ peer[s].credit \in Nat
  BY <1>1 DEF AnyPeer
<1>3. /\ outbound' = IF idle \/ (rest # <<>> /\ sent) THEN Kept(streams, s, left) ELSE Without(streams, s)
      /\ held' = count - n
      /\ peer' = IF sent THEN [peer EXCEPT ![s].credit = @ - n] ELSE peer
  BY DEF FlushStream
<1> HIDE DEF entry
<1>4. n \in 0 .. Len(entry.octets) /\ (sent => n <= peer[s].credit)
  <2>1. CASE idle
    BY <1>1, <2>1
  <2>2. CASE ~idle /\ peer[s].stopped
    BY <1>1, <2>2 DEF Freed
  <2>3. CASE ~idle /\ ~peer[s].stopped
    <3>1. n = Min({Len(entry.octets), peer[s].credit})
      BY <2>3 DEF Freed
    <3>2. n \in Nat /\ n <= Len(entry.octets) /\ n <= peer[s].credit
      BY <1>1, <1>2, <3>1, LesserOfTwo
    <3> QED BY <1>1, <3>2
  <2> QED BY <2>1, <2>2, <2>3
<1>5. left \in Queue
  <2> HIDE DEF n
  <2>1. rest \in Seq(0 .. 255)
    BY <1>1, <1>4, RestOf
  <2> HIDE DEF rest
  <2> QED BY <1>1, <2>1 DEF Queue
<1>6. ~(idle \/ (rest # <<>> /\ sent)) => n = Len(entry.octets)
  <2>1. CASE ~idle /\ rest = <<>>
    <3> HIDE DEF n, idle
    <3>1. Len(rest) = Len(entry.octets) - n
      BY <1>1, <1>4, RestOf
    <3> HIDE DEF rest
    <3>2. Len(rest) = 0
      BY <2>1
    <3> QED BY <1>1, <1>4, <3>1, <3>2
  <2>2. CASE ~idle /\ peer[s].stopped
    BY <2>2 DEF Freed
  <2> QED BY <2>1, <2>2
<1>7. peer' \in [Requests -> AnyPeer] /\
      \A x \in Requests : /\ peer'[x].sent = peer[x].sent /\ peer'[x].fin = peer[x].fin
                          /\ peer'[x].read = peer[x].read /\ peer'[x].reset = peer[x].reset
  <2>1. CASE sent
    <3>1. peer[s].credit - n \in Nat
      BY <1>1, <1>2, <1>4, <2>1
    <3> DEFINE credit == peer[s].credit - n
    <3>2. peer' = [peer EXCEPT ![s].credit = credit]
      BY <1>3, <2>1
    <3>3. credit \in Nat
      BY <3>1
    <3> HIDE DEF credit
    <3> DEFINE spent == [peer[s] EXCEPT !.credit = credit]
    <3>4. /\ spent \in AnyPeer
          /\ spent.sent = peer[s].sent /\ spent.fin = peer[s].fin
          /\ spent.read = peer[s].read /\ spent.reset = peer[s].reset
      <4>1. \A r \in AnyPeer, c \in Nat :
              /\ [r EXCEPT !.credit = c] \in AnyPeer
              /\ [r EXCEPT !.credit = c].sent = r.sent /\ [r EXCEPT !.credit = c].fin = r.fin
              /\ [r EXCEPT !.credit = c].read = r.read /\ [r EXCEPT !.credit = c].reset = r.reset
        BY DEF AnyPeer
      <4> HIDE DEF AnyPeer
      <4> QED BY <1>2, <3>3, <4>1
    <3>5. peer' = [peer EXCEPT ![s] = spent]
      BY <3>2
    <3> HIDE DEF spent, AnyPeer
    <3> QED BY <1>1, <3>4, <3>5
  <2>2. CASE ~sent
    BY <1>3, <2>2
  <2> QED BY <2>1, <2>2
<1> HIDE DEF n, rest, left, idle, sent, AnyPeer, Queue
<1>8. /\ outbound' = Kept(streams, s, left) \/ (outbound' = Without(streams, s) /\ n = Len(entry.octets))
      /\ held' = count - n
  BY <1>3, <1>6
<1>9. QueuesOK(outbound') /\ DOMAIN streams \ {s} \subseteq DOMAIN outbound'
  BY <1>5, <1>8 DEF QueuesOK, Kept, Without
<1> QED BY <1>4, <1>7, <1>8, <1>9 DEF left, rest, entry

\* What reading a stream may change of the rest.
LEMMA ReadFrame ==
    ASSUME H3Inv, NEW s \in Requests \cup {encoder}, Read(s)
    PROVE  /\ reset \subseteq reset' /\ reset' \subseteq reset \cup {s}
           /\ channels'.raw = channels.raw /\ channels'.commands = channels.commands
           /\ UNCHANGED << app, given, phase >>
           /\ outbound' = outbound \/ outbound' = Without(outbound, s)
<1> DEFINE items == inbox[s]
           fin == s # encoder /\ peer[s].fin
           full == s \in tunnels /\ Len(channels.sinks[s]) >= TunnelBacklog
<1>1. /\ UNCHANGED << app, given, phase >>
      /\ CASE full -> UNCHANGED << worker, channels >>
           [] ~full /\ s = encoder -> OnEncoderBytes
           [] ~full /\ s # encoder /\ peer[s].reset = "unread" ->
                  /\ ForgetStream(s, session)
                  /\ channels' = [channels EXCEPT !.events = Report([is |-> "failed", of |-> s])]
                  /\ UNCHANGED << inserted, reset, status >>
           [] ~full /\ s # encoder /\ peer[s].reset # "unread" ->
                  CASE s \in tunnels -> OnTunnel(s, items, fin)
                    [] s \notin tunnels /\ Disowned(s) ->
                          /\ reset' = reset \cup {s}
                          /\ UNCHANGED << inserted, session, outbound, held, tunnels, channels, status >>
                    [] OTHER -> OnStreamBytes(s, items, fin)
  BY DEF Read, application
<1>2. channels = [commands |-> channels.commands, events |-> channels.events,
                  raw |-> channels.raw, sinks |-> channels.sinks]
  BY DEF H3Inv, ChannelsOK
<1> HIDE DEF items, fin, full
<1>3. CASE full
  BY <1>1, <1>3 DEF worker
<1>4. CASE ~full /\ s = encoder
  <2>1. OnEncoderBytes
    BY <1>1, <1>4
  <2>2. \/ UNCHANGED << reset, channels, outbound >>
        \/ /\ reset' = reset \cup {encoder} /\ UNCHANGED outbound
           /\ \E e : channels' = [channels EXCEPT !.events = e]
    BY <2>1 DEF OnEncoderBytes
  <2> QED BY <1>1, <1>2, <1>4, <2>2
<1>5. CASE ~full /\ s # encoder /\ peer[s].reset = "unread"
  <2>1. /\ ForgetStream(s, session) /\ UNCHANGED reset
        /\ \E e : channels' = [channels EXCEPT !.events = e]
    BY <1>1, <1>5
  <2> QED BY <1>1, <1>2, <2>1 DEF ForgetStream
<1>6. CASE ~full /\ s # encoder /\ peer[s].reset # "unread"
  <2>1. \/ OnTunnel(s, items, fin)
        \/ reset' = reset \cup {s} /\ UNCHANGED << outbound, channels >>
        \/ OnStreamBytes(s, items, fin)
    BY <1>1, <1>6
  <2>2. \/ UNCHANGED << reset, outbound >> /\ \E e : channels' = [channels EXCEPT !.sinks[s] = e]
        \/ reset' = reset \cup {s} /\ UNCHANGED << outbound, channels >>
        \/ \E now : ResetStream(s, now)
        \/ Fail /\ UNCHANGED << outbound, reset >>
        \/ UNCHANGED << outbound, channels, reset >>
    BY <2>1 DEF OnTunnel, OnStreamBytes
  <2>3. ASSUME NEW now, ResetStream(s, now)
        PROVE  /\ reset' = reset \cup {s} /\ outbound' = Without(outbound, s)
               /\ \E e : channels' = [channels EXCEPT !.events = e]
    BY <2>3 DEF ResetStream, ForgetStream
  <2>4. Fail => \E e : channels' = [channels EXCEPT !.events = e]
    BY DEF Fail
  <2> QED BY <1>1, <1>2, <2>2, <2>3, <2>4
<1> QED BY <1>1, <1>3, <1>4, <1>5, <1>6

\* The peer sends no more after the end, and gives up only what it has not ended.
LEMMA OutsidePeer ==
    ASSUME PeerInv,
           Insert \/ \E s \in Requests : Arrive(s) \/ Finish(s) \/ Grant(s) \/ GiveUp(s) \/ Stop(s)
    PROVE  PeerInv' /\ ExhaustedStays
<1>1. encoder \notin Requests
  BY RequestsAreCounted DEF encoder, None
<1>2. phase' = "idle" /\ UNCHANGED reset
  BY DEF Insert, Arrive, Finish, Grant, GiveUp, Stop, Outside, worker
<1>3. CASE Insert
  <2>1. peer' = peer /\ inbox' = [inbox EXCEPT ![encoder] = <<"insert">>]
    BY <1>3 DEF Insert
  <2>2. \A x \in Requests : inbox'[x] = inbox[x]
    BY <1>1, <2>1 DEF PeerInv
  <2> QED BY <1>2, <2>1, <2>2 DEF PeerInv, ExhaustedStays, Exhausted
<1>4. ASSUME NEW s \in Requests, Grant(s) \/ Stop(s) PROVE PeerInv' /\ ExhaustedStays
  <2>1. inbox' = inbox /\ (peer' = [peer EXCEPT ![s].credit = 1] \/ peer' = [peer EXCEPT ![s].stopped = TRUE])
    BY <1>4 DEF Grant, Stop
  <2>2. /\ peer' \in [Requests -> AnyPeer]
        /\ \A x \in Requests : /\ peer'[x].sent = peer[x].sent /\ peer'[x].fin = peer[x].fin
                               /\ peer'[x].read = peer[x].read /\ peer'[x].reset = peer[x].reset
    <3>1. CASE peer' = [peer EXCEPT ![s].credit = 1]
      BY <1>4, <3>1 DEF PeerInv, AnyPeer
    <3>2. CASE peer' = [peer EXCEPT ![s].stopped = TRUE]
      BY <1>4, <3>2 DEF PeerInv, AnyPeer
    <3> QED BY <2>1, <3>1, <3>2
  <2> QED BY <1>2, <2>1, <2>2, PeerSame
<1>5. ASSUME NEW s \in Requests, Arrive(s) \/ Finish(s) \/ GiveUp(s) PROVE PeerInv' /\ ExhaustedStays
  <2>1. \A x \in Requests : Script[x] \in Seq({"head", "block", "connect", "data", "bad", "octet"})
    <3> DEFINE T == {"head", "block", "connect", "data", "bad", "octet"}
    <3>1. Script \in Seq(Seq(T)) /\ Requests = DOMAIN Script
      BY H3Assumption DEF Requests
    <3> HIDE DEF T
    <3>2. \A x \in DOMAIN Script : Script[x] \in Seq(T)
      BY <3>1
    <3> QED BY <3>1, <3>2 DEF T
  <2>2. peer[s].sent \in Nat /\ Len(Script[s]) \in Nat
    <3> HIDE DEF Requests
    <3> QED BY <2>1 DEF PeerInv, AnyPeer
  <2>3. /\ peer' \in [Requests -> AnyPeer]
        /\ \A x \in Requests : peer'[x].fin => peer'[x].sent = Len(Script[x])
        /\ ~Exhausted(s) \/ s \in reset
    <3>1. CASE Arrive(s)
      <4>1. /\ peer' = [peer EXCEPT ![s].sent = @ + 1]
            /\ peer[s].sent < Len(Script[s]) /\ peer[s].reset = "no"
        BY <3>1 DEF Arrive
      <4>2. ~peer[s].fin /\ peer[s] \in AnyPeer /\ peer[s].sent + 1 \in Nat
        BY <2>2, <4>1 DEF PeerInv
      <4>3. peer'[s] \in AnyPeer /\ ~peer'[s].fin /\ \A x \in Requests : x # s => peer'[x] = peer[x]
        BY <4>1, <4>2 DEF PeerInv, AnyPeer
      <4>4. peer' = [x \in Requests |-> peer'[x]]
        BY <4>1 DEF PeerInv
      <4>5. ~Exhausted(s) \/ s \in reset
        BY <4>1, <4>2 DEF Exhausted
      <4> HIDE DEF AnyPeer
      <4>6. peer' \in [Requests -> AnyPeer]
        BY <4>3, <4>4 DEF PeerInv
      <4> QED BY <4>3, <4>5, <4>6 DEF PeerInv
    <3>2. CASE Finish(s)
      <4>1. /\ peer' = [peer EXCEPT ![s].fin = TRUE]
            /\ peer[s].sent = Len(Script[s]) /\ peer[s].reset = "no" /\ ~peer[s].fin
        BY <3>2 DEF Finish
      <4> QED BY <4>1 DEF PeerInv, AnyPeer, Exhausted
    <3>3. CASE GiveUp(s)
      <4>1. /\ peer' = [peer EXCEPT ![s].reset = "unread"]
            /\ peer[s].reset = "no" /\ ~peer[s].read
        BY <3>3 DEF GiveUp
      <4> QED BY <4>1 DEF PeerInv, AnyPeer, Exhausted
    <3> QED BY <1>5, <3>1, <3>2, <3>3
  <2>4. /\ \A x \in Requests : x # s => peer'[x] = peer[x] /\ inbox'[x] = inbox[x]
        /\ inbox' = [x \in Requests \cup {encoder} |-> inbox'[x]]
    BY <1>5 DEF Arrive, Finish, GiveUp, PeerInv
  <2>5. PeerInv'
    BY <1>2, <2>3, <2>4 DEF PeerInv
  <2>6. ExhaustedStays
    BY <1>2, <2>3, <2>4 DEF ExhaustedStays, Exhausted
  <2> QED BY <2>5, <2>6
<1> QED BY <1>3, <1>4, <1>5

LEMMA Fields ==
    ASSUME NEW ch, ch = [commands |-> ch.commands, events |-> ch.events, raw |-> ch.raw, sinks |-> ch.sinks]
    PROVE  \A e :
        /\ [ch EXCEPT !.commands = e] = [commands |-> e, events |-> ch.events, raw |-> ch.raw, sinks |-> ch.sinks]
        /\ [ch EXCEPT !.events = e] = [commands |-> ch.commands, events |-> e, raw |-> ch.raw, sinks |-> ch.sinks]
        /\ [ch EXCEPT !.raw = e] = [commands |-> ch.commands, events |-> ch.events, raw |-> e, sinks |-> ch.sinks]
        /\ [ch EXCEPT !.sinks = e] = [commands |-> ch.commands, events |-> ch.events, raw |-> ch.raw, sinks |-> e]
OBVIOUS

\* What a step leaves of the octets that wait.
LEMMA QueuesSame ==
    ASSUME QueuesInv, QueuesOK(outbound'), UNCHANGED given,
           \A s \in Requests : app'[s] \in {"accepted", "tunnel"} => app[s] \in {"accepted", "tunnel"},
           \A i \in DOMAIN channels'.raw :
             channels'.raw[i].octets \in Seq(0 .. 255) /\ channels'.raw[i].fin \in BOOLEAN,
           phase' = "flush" => todo' \subseteq DOMAIN outbound'
    PROVE  QueuesInv'
BY DEF QueuesInv, QueuesOK

LEMMA ExecutePeer ==
    ASSUME H3Inv, PeerInv, QueuesInv, Execute
    PROVE  PeerInv' /\ ExhaustedStays /\ QueuesInv'
<1> DEFINE s == Command.of
<1>1. /\ channels.commands # <<>> /\ UNCHANGED << inbox, app, given, phase, todo >> /\ phase = "commands"
  BY DEF Execute, application
<1>2. /\ Command \in AnyCommand /\ s \in Requests /\ Command.is \in {"send", "tunnel", "reset"}
      /\ Command.is = "send" => Command.octets \in Seq(0 .. 255)
  BY <1>1, TakenWithin DEF H3Inv, Lined, AnyCommand
<1>3. \/ Command.is = "send" /\ Send
      \/ Command.is = "tunnel" /\ MakeTunnel
      \/ Command.is = "reset" /\ Reset
  BY <1>2 DEF Execute
<1>4. channels = [commands |-> channels.commands, events |-> channels.events,
                  raw |-> channels.raw, sinks |-> channels.sinks]
  BY DEF H3Inv, ChannelsOK
<1>5. Taken = [commands |-> Tail(channels.commands), events |-> channels.events,
               raw |-> channels.raw, sinks |-> channels.sinks]
  BY <1>4, Fields DEF Taken
<1> HIDE DEF AnyPeer
<1>6. CASE Command.is = "send" /\ Send
  <2> DEFINE queued == Queued(s, Command.octets, ~State(s).raw)
             count == held + Len(Command.octets)
  <2>1. FlushStream(s, queued, count, Taken) /\ UNCHANGED reset
    BY <1>6 DEF Send
  <2>2. QueuesOK(queued) /\ s \in DOMAIN queued
    <3>1. QueuesOK(outbound)
      BY DEF QueuesInv
    <3> QED BY <1>2, <1>6, <3>1, QueuedOK
  <2> HIDE DEF queued, count, s
  <2>3. /\ QueuesOK(outbound') /\ peer' \in [Requests -> AnyPeer]
        /\ \A x \in Requests : /\ peer'[x].sent = peer[x].sent /\ peer'[x].fin = peer[x].fin
                               /\ peer'[x].read = peer[x].read /\ peer'[x].reset = peer[x].reset
    BY <2>1, <2>2, Flushed DEF PeerInv
  <2>4. channels'.raw = channels.raw
    <3>1. channels' = Taken \/ \E e : channels' = [Taken EXCEPT !.events = e]
      BY <2>1 DEF FlushStream
    <3> QED BY <1>5, <3>1
  <2>5. PeerInv' /\ ExhaustedStays
    BY <1>1, <2>1, <2>3, PeerSame
  <2>6. QueuesInv'
    BY <1>1, <2>3, <2>4, QueuesSame DEF QueuesInv
  <2> QED BY <2>5, <2>6
<1>7. CASE MakeTunnel \/ Reset
  <2>1. /\ UNCHANGED peer /\ reset \subseteq reset'
        /\ outbound' = outbound \/ outbound' = Without(outbound, s)
        /\ channels' = Taken \/ \E e : channels' = [Taken EXCEPT !.sinks[s] = e]
    BY <1>7 DEF MakeTunnel, Reset
  <2> HIDE DEF s
  <2>2. channels'.raw = channels.raw
    BY <1>5, <2>1
  <2>3. QueuesOK(outbound')
    BY <2>1 DEF QueuesInv, QueuesOK, Without
  <2>4. PeerInv' /\ ExhaustedStays
    BY <1>1, <2>1, PeerSame DEF PeerInv
  <2>5. QueuesInv'
    BY <1>1, <2>2, <2>3, QueuesSame DEF QueuesInv
  <2> QED BY <2>4, <2>5
<1> QED BY <1>3, <1>6, <1>7

LEMMA TakeRawPeer ==
    ASSUME H3Inv, PeerInv, QueuesInv, TakeRaw
    PROVE  PeerInv' /\ ExhaustedStays /\ QueuesInv'
<1> DEFINE w == Head(channels.raw)
           after == [channels EXCEPT !.raw = Tail(channels.raw)]
           queued == Queued(w.of, w.octets, w.fin)
           count == held + Len(w.octets)
           S == Range(channels.raw)
<1>1. /\ FlushStream(w.of, queued, count, after) /\ channels.raw # <<>>
      /\ UNCHANGED << inbox, app, given, phase, reset >> /\ phase = "raw"
  BY DEF TakeRaw, application
<1>2. channels.raw \in Seq(S) /\ \A i \in DOMAIN channels.raw : channels.raw[i].of \in Requests
  BY DEF H3Inv, ChannelsOK, RawOK
<1> HIDE DEF S
<1>3. /\ 1 \in DOMAIN channels.raw /\ w = channels.raw[1]
      /\ \A i \in DOMAIN Tail(channels.raw) : i + 1 \in DOMAIN channels.raw /\ Tail(channels.raw)[i] = channels.raw[i + 1]
  BY <1>1, <1>2, Popped
<1> HIDE DEF w
<1>4. w.of \in Requests /\ w.octets \in Seq(0 .. 255) /\ w.fin \in BOOLEAN
  BY <1>2, <1>3 DEF QueuesInv
<1>5. QueuesOK(queued) /\ w.of \in DOMAIN queued
  <2>1. QueuesOK(outbound)
    BY DEF QueuesInv
  <2> QED BY <1>4, <2>1, QueuedOK
<1>6. channels = [commands |-> channels.commands, events |-> channels.events,
                  raw |-> channels.raw, sinks |-> channels.sinks]
  BY DEF H3Inv, ChannelsOK
<1>7. channels'.raw = Tail(channels.raw)
  <2>1. channels' = after \/ \E e : channels' = [after EXCEPT !.events = e]
    BY <1>1 DEF FlushStream
  <2>2. after = [commands |-> channels.commands, events |-> channels.events,
                 raw |-> Tail(channels.raw), sinks |-> channels.sinks]
    BY <1>6, Fields
  <2> HIDE DEF after
  <2>3. after.raw = Tail(channels.raw) /\ \A e : [after EXCEPT !.events = e].raw = after.raw
    BY <2>2
  <2> QED BY <2>1, <2>3
<1> HIDE DEF queued, count, after, AnyPeer
<1>8. /\ QueuesOK(outbound') /\ peer' \in [Requests -> AnyPeer]
      /\ \A x \in Requests : /\ peer'[x].sent = peer[x].sent /\ peer'[x].fin = peer[x].fin
                             /\ peer'[x].read = peer[x].read /\ peer'[x].reset = peer[x].reset
  BY <1>1, <1>5, Flushed DEF PeerInv
<1>9. PeerInv' /\ ExhaustedStays
  BY <1>1, <1>8, PeerSame
<1>10. \A i \in DOMAIN channels'.raw :
         channels'.raw[i].octets \in Seq(0 .. 255) /\ channels'.raw[i].fin \in BOOLEAN
  BY <1>3, <1>7 DEF QueuesInv
<1>11. QueuesInv'
  BY <1>1, <1>8, <1>10, QueuesSame
<1> QED BY <1>9, <1>11

LEMMA FlushPeer ==
    ASSUME H3Inv, PeerInv, QueuesInv, NEW s \in Requests, Flush(s)
    PROVE  PeerInv' /\ ExhaustedStays /\ QueuesInv'
<1>1. /\ FlushStream(s, outbound, held, channels) /\ phase = "flush" /\ s \in todo /\ todo' = todo \ {s}
      /\ UNCHANGED << inbox, app, given, phase, reset >>
  BY DEF Flush, application
<1>2. s \in DOMAIN outbound /\ QueuesOK(outbound)
  BY <1>1 DEF QueuesInv
<1> HIDE DEF AnyPeer
<1>3. /\ QueuesOK(outbound') /\ DOMAIN outbound \ {s} \subseteq DOMAIN outbound' /\ peer' \in [Requests -> AnyPeer]
      /\ \A x \in Requests : /\ peer'[x].sent = peer[x].sent /\ peer'[x].fin = peer[x].fin
                             /\ peer'[x].read = peer[x].read /\ peer'[x].reset = peer[x].reset
  BY <1>1, <1>2, Flushed DEF PeerInv
<1>4. channels'.raw = channels.raw
  <2>1. channels' = channels \/ \E e : channels' = [channels EXCEPT !.events = e]
    BY <1>1 DEF FlushStream
  <2>2. channels = [commands |-> channels.commands, events |-> channels.events,
                    raw |-> channels.raw, sinks |-> channels.sinks]
    BY DEF H3Inv, ChannelsOK
  <2> QED BY <2>1, <2>2
<1>5. PeerInv' /\ ExhaustedStays
  BY <1>1, <1>3, PeerSame
<1>6. phase' = "flush" => todo' \subseteq DOMAIN outbound'
  BY <1>1, <1>3 DEF QueuesInv
<1>7. QueuesInv'
  BY <1>1, <1>3, <1>4, <1>6, QueuesSame DEF QueuesInv
<1> QED BY <1>5, <1>7

\* A write adds an octet of Answer, which the octets given so far are never beyond.
LEMMA UsePeer ==
    ASSUME H3Inv, PeerInv, QueuesInv, Use \/ \E s \in Requests : ResetTunnel(s)
    PROVE  PeerInv' /\ ExhaustedStays /\ QueuesInv'
<1>1. UNCHANGED << peer, inbox, reset, phase, todo, outbound >>
  BY DEF Use, Receive, Respond, Accept, Tunnel, Write, ReadTunnel, ResetTunnel, Idle, worker
<1>2. PeerInv' /\ ExhaustedStays
  BY <1>1, PeerSame DEF PeerInv
<1>3. channels = [commands |-> channels.commands, events |-> channels.events,
                  raw |-> channels.raw, sinks |-> channels.sinks]
      /\ app = [s \in Requests |-> app[s]] /\ RawOK(channels.raw)
  BY DEF H3Inv, ChannelsOK, AppOK
<1>4. ASSUME channels'.raw = channels.raw, UNCHANGED given,
             \A s \in Requests : app'[s] \in {"accepted", "tunnel"} => app[s] \in {"accepted", "tunnel"}
      PROVE  QueuesInv'
  BY <1>1, <1>4, QueuesSame DEF QueuesInv
<1>5. CASE Receive
  <2>1. UNCHANGED given /\ \E e : channels' = [channels EXCEPT !.events = e]
    BY <1>5 DEF Receive
  <2>2. \/ UNCHANGED app
        \/ \E s \in Requests \cup {None} : \E what :
             app' = [app EXCEPT ![s] = what] /\ what \in {"accepting", "asked"}
    <3>1. channels.events \in Seq(AnyEvent) /\ channels.events # <<>>
      BY <1>5 DEF Receive, H3Inv, ChannelsOK
    <3>2. Head(channels.events) \in AnyEvent
      BY <3>1, Popped
    <3>3. Head(channels.events).of \in Requests \cup {None}
      BY <3>2 DEF AnyEvent
    <3> QED BY <1>5, <3>3 DEF Receive, Becomes
  <2>3. \A s \in Requests : app'[s] \in {"accepted", "tunnel"} => app[s] \in {"accepted", "tunnel"}
    BY <1>3, <2>2
  <2>4. channels'.raw = channels.raw
    BY <1>3, <2>1
  <2> QED BY <1>2, <1>4, <2>1, <2>3, <2>4
<1>6. ASSUME NEW s \in Requests, ReadTunnel(s) \/ Tunnel(s) \/ ResetTunnel(s) PROVE QueuesInv'
  <2>1. /\ UNCHANGED given /\ \/ \E e : channels' = [channels EXCEPT !.sinks[s] = e]
                              \/ \E e : channels' = [channels EXCEPT !.commands = e]
        /\ \/ UNCHANGED app
           \/ app[s] = "accepted" /\ app' = [app EXCEPT ![s] = "tunnel"]
           \/ app' = [app EXCEPT ![s] = "reset"]
    BY <1>6 DEF ReadTunnel, Tunnel, ResetTunnel, Enqueue, Becomes
  <2>2. \A x \in Requests : app'[x] \in {"accepted", "tunnel"} => app[x] \in {"accepted", "tunnel"}
    BY <1>3, <2>1
  <2> QED BY <1>3, <1>4, <2>1, <2>2
<1>7. ASSUME NEW s \in Requests, Respond(s) \/ Accept(s) PROVE QueuesInv'
  <2> DEFINE octets == IF Respond(s) THEN Answer ELSE <<0>>
             what == IF Respond(s) THEN "over" ELSE "accepted"
  <2>1. /\ \E e : channels' = [channels EXCEPT !.commands = e]
        /\ \E fin : given' = [given EXCEPT ![s] = [octets |-> @.octets \o octets, fin |-> fin]]
        /\ app' = [app EXCEPT ![s] = what]
    BY <1>7 DEF Respond, Accept, Enqueue, Give, Becomes
  <2>2. octets \in Seq(0 .. 255) /\ (what = "accepted" => octets # <<>>) /\ what \notin {"tunnel"}
    <3>1. Answer \in Seq(0 .. 255)
      BY H3Assumption
    <3>2. <<0>> \in Seq(0 .. 255) /\ <<0>> # <<>>
      OBVIOUS
    <3> QED BY <3>1, <3>2
  <2> HIDE DEF octets, what
  <2>3. given[s].octets \in Seq(0 .. 255) /\ given = [x \in Requests |-> given[x]]
    BY DEF QueuesInv
  <2>4. given[s].octets \o octets \in Seq(0 .. 255) /\ (octets # <<>> => given[s].octets \o octets # <<>>)
    BY <2>2, <2>3
  <2>5. /\ given' = [x \in Requests |-> given'[x]]
        /\ given'[s].octets = given[s].octets \o octets
        /\ \A x \in Requests : x # s => given'[x] = given[x]
    <3>1. PICK fin : given' = [given EXCEPT ![s] = [octets |-> given[s].octets \o octets, fin |-> fin]]
      BY <2>1
    <3> DEFINE entry == [octets |-> given[s].octets \o octets, fin |-> fin]
    <3>2. entry.octets = given[s].octets \o octets /\ given' = [given EXCEPT ![s] = entry]
      BY <3>1
    <3> HIDE DEF entry
    <3> QED BY <2>3, <3>2
  <2>6. app'[s] = what /\ \A x \in Requests : x # s => app'[x] = app[x]
    BY <1>3, <2>1
  <2>7. channels'.raw = channels.raw
    BY <1>3, <2>1
  <2>8. ASSUME NEW x \in Requests
        PROVE  /\ given'[x].octets \in Seq(0 .. 255)
               /\ app'[x] \in {"accepted", "tunnel"} => given'[x].octets # <<>>
    <3>1. CASE x = s
      BY <2>2, <2>4, <2>5, <2>6, <3>1
    <3>2. CASE x # s
      BY <2>5, <2>6, <3>2 DEF QueuesInv
    <3> QED BY <3>1, <3>2
  <2>9. \A i \in DOMAIN channels'.raw : channels'.raw[i].octets \in Seq(0 .. 255) /\ channels'.raw[i].fin \in BOOLEAN
    BY <2>7 DEF QueuesInv
  <2>10. QueuesOK(outbound') /\ (phase' = "flush" => todo' \subseteq DOMAIN outbound')
    BY <1>1 DEF QueuesInv
  <2> QED BY <2>5, <2>8, <2>9, <2>10 DEF QueuesInv
<1>8. ASSUME NEW s \in Requests, Write(s) PROVE QueuesInv'
  <2> DEFINE n == Len(given[s].octets)
             octets == IF n <= Len(Answer) THEN << Answer[n] >> ELSE <<>>
             w == [of |-> s, octets |-> octets, fin |-> octets = <<>>]
  <2>1. /\ channels' = [channels EXCEPT !.raw = Append(@, w)] /\ app[s] = "tunnel" /\ UNCHANGED app
        /\ given' = [given EXCEPT ![s] = [octets |-> @.octets \o octets, fin |-> octets = <<>>]]
    BY <1>8 DEF Write, Give
  <2>2. /\ given[s].octets \in Seq(0 .. 255) /\ given = [x \in Requests |-> given[x]]
        /\ given[s].octets # <<>>
    BY <2>1 DEF QueuesInv
  <2>3. octets \in Seq(0 .. 255)
    <3>1. n \in Nat /\ n > 0 /\ Answer \in Seq(0 .. 255)
      BY <2>2, H3Assumption
    <3> HIDE DEF n
    <3> DEFINE T == 0 .. 255
    <3>2. Answer \in Seq(T)
      BY <3>1
    <3> HIDE DEF T
    <3>3. n <= Len(Answer) => Answer[n] \in T
      BY <3>1, <3>2
    <3>4. octets \in Seq(T)
      BY <3>3
    <3> QED BY <3>4 DEF T
  <2>4. w.octets \in Seq(0 .. 255) /\ w.fin \in BOOLEAN
    BY <2>3
  <2> HIDE DEF w, octets
  <2>5. given[s].octets \o octets \in Seq(0 .. 255) /\ given[s].octets \o octets # <<>>
    BY <2>2, <2>3
  <2>6. /\ given' = [x \in Requests |-> given'[x]]
        /\ given'[s].octets = given[s].octets \o octets
        /\ \A x \in Requests : x # s => given'[x] = given[x]
    BY <2>1, <2>2
  <2>7. channels'.raw = Append(channels.raw, w)
    BY <1>3, <2>1
  <2>8. \A i \in DOMAIN Append(channels.raw, w) :
          (i \in DOMAIN channels.raw /\ Append(channels.raw, w)[i] = channels.raw[i]) \/ Append(channels.raw, w)[i] = w
    <3> DEFINE S == Range(channels.raw) \cup {w}
    <3>1. channels.raw \in Seq(S) /\ w \in S
      BY <1>3 DEF RawOK
    <3> HIDE DEF S
    <3> QED BY <3>1, Pushed
  <2>9. \A i \in DOMAIN channels'.raw : channels'.raw[i].octets \in Seq(0 .. 255) /\ channels'.raw[i].fin \in BOOLEAN
    BY <2>4, <2>7, <2>8 DEF QueuesInv
  <2> QED BY <1>1, <2>1, <2>5, <2>6, <2>9 DEF QueuesInv
<1> QED BY <1>2, <1>5, <1>6, <1>7, <1>8 DEF Use

BasisInv == H3Inv /\ PeerInv /\ QueuesInv

LEMMA BasisStep ==
    ASSUME BasisInv, Next
    PROVE  PeerInv' /\ QueuesInv' /\ ExhaustedStays
<1> USE DEF BasisInv
<1>1. channels = [commands |-> channels.commands, events |-> channels.events,
                  raw |-> channels.raw, sinks |-> channels.sinks]
  BY DEF H3Inv, ChannelsOK
<1>2. QueuesOK(outbound) /\ peer \in [Requests -> AnyPeer]
  BY DEF QueuesInv, PeerInv
<1>3. ASSUME channels'.raw = channels.raw, UNCHANGED << given, app >>, QueuesOK(outbound'),
             phase' = "flush" => todo' \subseteq DOMAIN outbound'
      PROVE  QueuesInv'
  BY <1>3, QueuesSame DEF QueuesInv
<1>4. ASSUME UNCHANGED << peer, inbox, reset, outbound, given, app >>, channels'.raw = channels.raw,
             phase' # "reads" \/ UNCHANGED << phase, todo >>,
             phase' = "flush" => todo' \subseteq DOMAIN outbound'
      PROVE  PeerInv' /\ QueuesInv' /\ ExhaustedStays
  BY <1>2, <1>3, <1>4, PeerSame
<1>5. CASE ReadsDone \/ FlushDone
  <2>1. /\ UNCHANGED << peer, inbox, reset, outbound, given, app >> /\ phase' \in {"commands", "idle"}
        /\ \E e : channels' = [channels EXCEPT !.events = e]
    BY <1>5 DEF ReadsDone, FlushDone, EndHalf, application
  <2>2. channels'.raw = channels.raw
    BY <1>1, <2>1
  <2> QED BY <1>4, <2>1, <2>2
<1>6. CASE CommandsDone \/ RawDone
  <2>1. /\ UNCHANGED << peer, inbox, reset, outbound, given, app, channels >>
        /\ phase' = "raw" \/ (phase' = "flush" /\ todo' = DOMAIN outbound)
    BY <1>6 DEF CommandsDone, RawDone, application, worker
  <2> QED BY <1>4, <2>1
<1>7. CASE Expire \/ Leave
  <2>1. /\ UNCHANGED << peer, inbox, reset, outbound, given, app, phase, todo >>
        /\ channels' = channels \/ \E e : channels' = [channels EXCEPT !.events = e]
    BY <1>7 DEF Expire, Leave, Fail, application
  <2>2. channels'.raw = channels.raw
    BY <1>1, <2>1
  <2>3. phase' = "flush" => todo' \subseteq DOMAIN outbound'
    BY <2>1 DEF QueuesInv
  <2> QED BY <1>4, <2>1, <2>2, <2>3
<1>8. CASE Wake
  <2>1. UNCHANGED << outbound, given, app, channels >> /\ phase' = "reads"
    BY <1>8 DEF Wake, application, worker
  <2> QED BY <1>2, <1>3, <1>8, <2>1, WakePeer
<1>9. CASE Insert \/ \E s \in Requests : Arrive(s) \/ Finish(s) \/ Grant(s) \/ GiveUp(s) \/ Stop(s)
  <2>1. UNCHANGED << outbound, given, app, channels, phase >> /\ phase' = "idle"
    BY <1>9 DEF Insert, Arrive, Finish, Grant, GiveUp, Stop, Outside, application, worker
  <2> QED BY <1>2, <1>3, <1>9, <2>1, OutsidePeer
<1>10. ASSUME NEW s \in Requests \cup {encoder}, Read(s) PROVE PeerInv' /\ QueuesInv' /\ ExhaustedStays
  <2>1. /\ reset \subseteq reset' /\ reset' \subseteq reset \cup {s} /\ channels'.raw = channels.raw
        /\ UNCHANGED << app, given, phase >> /\ (outbound' = outbound \/ outbound' = Without(outbound, s))
    BY <1>10, ReadFrame
  <2>2. phase = "reads"
    BY <1>10 DEF Read
  <2>3. QueuesOK(outbound')
    BY <1>2, <2>1 DEF QueuesOK, Without
  <2> QED BY <1>3, <1>10, <2>1, <2>2, <2>3, ReadPeer
<1>11. CASE Use \/ \E s \in Requests : ResetTunnel(s)
  BY <1>11, UsePeer
<1>12. CASE Execute \/ TakeRaw \/ \E s \in Requests : Flush(s)
  BY <1>12, ExecutePeer, TakeRawPeer, FlushPeer
<1> QED BY <1>5, <1>6, <1>7, <1>8, <1>9, <1>10, <1>11, <1>12 DEF Next, Pass, Progress

LEMMA BasisHolds == Spec => []BasisInv
<1>1. Init => PeerInv /\ QueuesInv
  <2> SUFFICES ASSUME Init PROVE PeerInv /\ QueuesInv
    OBVIOUS
  <2>1. PeerInv
    BY DEF Init, PeerInv, AnyPeer
  <2>2. QueuesInv
    <3>1. <<>> \in Seq(0 .. 255)
      OBVIOUS
    <3>2. outbound = <<>> /\ DOMAIN <<>> = {} /\ channels.raw = <<>> /\ phase = "idle"
      BY DEF Init
    <3>3. QueuesOK(outbound)
      BY <3>2 DEF QueuesOK
    <3>4. /\ given = [s \in Requests |-> given[s]]
          /\ \A s \in Requests : given[s].octets = <<>> /\ app[s] = "none"
      BY DEF Init, Nothing
    <3> QED BY <3>1, <3>2, <3>3, <3>4 DEF QueuesInv
  <2> QED BY <2>1, <2>2
<1>2. BasisInv /\ H3Inv' /\ [Next]_vars => (PeerInv /\ QueuesInv)'
  <2> SUFFICES ASSUME BasisInv, [Next]_vars PROVE PeerInv' /\ QueuesInv'
    OBVIOUS
  <2>1. CASE UNCHANGED vars
    <3>1. PeerInv /\ QueuesInv
      BY DEF BasisInv
    <3>2. UNCHANGED << peer, inbox, outbound, channels, app, given, phase, todo, reset >>
      BY <2>1 DEF vars
    <3>3. PeerInv'
      BY <3>1, <3>2 DEF PeerInv, Readable
    <3>4. QueuesInv'
      BY <3>1, <3>2 DEF QueuesInv, QueuesOK
    <3> QED BY <3>3, <3>4
  <2> QED BY <2>1, BasisStep
<1> QED BY <1>1, <1>2, WorkerKeepsTheLine, PTL DEF Spec, BasisInv

-----------------------------------------------------------------------------
(* Each request once: the streams.                                         *)

LEMMA FreshShape == Shape(Fresh) /\ ~Fresh.eof /\ ~Fresh.delivered /\ ~Fresh.pending
BY DEF Shape, Fresh

\* advance gives the message of a stream that has not given it, and only a stream
\* that is a tunnel's or was read to its end.
LEMMA AdvanceShape ==
    ASSUME NEW x, Shape(x), x.raw \/ ~x.delivered, NEW unblocked
    PROVE  LET r == Advance(x, unblocked)
           IN  /\ Shape(r.state) /\ r.state.eof = x.eof
               /\ x.raw => r.state = x /\ ~r.ready
               /\ ~x.raw => r.state.delivered = r.ready
<1> DEFINE all == Len(x.buffer)
           at == Min(Stops(x, unblocked) \cup {all + 1})
           frame == IF at > all THEN "none" ELSE x.buffer[at]
           message == x.message \/ \E i \in 1 .. at - 1 : x.buffer[i] \in Sections
           ended == x.eof /\ frame = "none" /\ ~x.delivered
           whole == frame = "connect" \/ (ended /\ message)
           buffer == SubSeq(x.buffer, IF frame = "block" THEN at ELSE at + 1, all)
           left == message /\ ~(ended /\ message)
           r == Advance(x, unblocked)
<1>1. CASE x.raw
  <2>1. r = [state |-> x, ready |-> FALSE, error |-> "none"]
    BY <1>1 DEF Advance
  <2> QED BY <1>1, <2>1
<1>2. CASE ~x.raw
  <2>1. /\ r.state = [x EXCEPT !.buffer = buffer, !.message = left, !.pending = (frame = "block"),
                               !.raw = (frame = "connect"), !.delivered = @ \/ whole]
        /\ r.ready = whole
    BY <1>2 DEF Advance
  <2>2. left \in BOOLEAN /\ whole \in BOOLEAN /\ (frame = "block") \in BOOLEAN /\ (frame = "connect") \in BOOLEAN
    BY DEF Shape
  <2>3. whole => frame # "block" /\ (frame = "connect" \/ x.eof)
    OBVIOUS
  <2>4. frame = "connect" => whole
    OBVIOUS
  <2> DEFINE pending == frame = "block"
             raw == frame = "connect"
  <2>5. /\ r.state = [x EXCEPT !.buffer = buffer, !.message = left, !.pending = pending,
                               !.raw = raw, !.delivered = x.delivered \/ whole]
        /\ left \in BOOLEAN /\ whole \in BOOLEAN /\ pending \in BOOLEAN /\ raw \in BOOLEAN
        /\ whole => ~pending /\ (raw \/ x.eof)
        /\ raw => whole
    BY <2>1, <2>2, <2>3, <2>4
  <2> HIDE DEF left, whole, pending, raw, buffer, r
  <2>6. ~x.delivered /\ x.delivered \in BOOLEAN
    BY <1>2 DEF Shape
  <2>7. r.state = [x EXCEPT !.buffer = buffer, !.message = left, !.pending = pending,
                            !.raw = raw, !.delivered = whole]
    <3>1. (x.delivered \/ whole) = whole
      BY <2>5, <2>6
    <3> QED BY <2>5, <3>1
  <2>8. r.state = [buffer |-> buffer, message |-> left, pending |-> pending, eof |-> x.eof,
                   delivered |-> whole, finished |-> x.finished, raw |-> raw, responded |-> x.responded]
    BY <2>7 DEF Shape
  <2>9. Shape(r.state) /\ r.state.eof = x.eof /\ r.state.delivered = whole
    <3> DEFINE y == r.state
    <3>1. y = [buffer |-> buffer, message |-> left, pending |-> pending, eof |-> x.eof,
               delivered |-> whole, finished |-> x.finished, raw |-> raw, responded |-> x.responded]
      BY <2>8
    <3>2. x.eof \in BOOLEAN /\ x.finished \in BOOLEAN
      BY DEF Shape
    <3> HIDE DEF y
    <3>3. /\ y.buffer = buffer /\ y.message = left /\ y.pending = pending /\ y.eof = x.eof /\ y.delivered = whole
          /\ y.finished = x.finished /\ y.raw = raw /\ y.responded = x.responded
      BY <3>1
    <3>4. Shape(y)
      BY <2>5, <3>1, <3>2, <3>3 DEF Shape
    <3> QED BY <3>3, <3>4 DEF y
  <2> QED BY <1>2, <2>1, <2>9 DEF r
<1> QED BY <1>1, <1>2

LEMMA PassedAreRequests == H3Inv => Passed \subseteq Requests
BY DEF H3Inv, Lined, Touched, Passed

\* A step that changes no stream, or one of them.
LEMMA TableSame ==
    ASSUME StreamsInv, SettledInv, ExhaustedStays, H3Inv, session'.streams = session.streams
    PROVE  StreamsInv' /\ \A x \in Passed : Settled(x)'
<1>1. DOMAIN session.streams \subseteq Requests /\ Passed \subseteq Requests
  BY PassedAreRequests DEF H3Inv, SessionOK
<1>2. \A x \in Requests : Settled(x) => Settled(x)'
  BY DEF Settled, Held, ExhaustedStays
<1>3. StreamsInv'
  BY <1>1 DEF StreamsInv, ExhaustedStays
<1> QED BY <1>1, <1>2, <1>3 DEF SettledInv

LEMMA TableKeeps ==
    ASSUME StreamsInv, SettledInv, ExhaustedStays, H3Inv, NEW s \in Requests,
           DOMAIN session'.streams \ {s} = DOMAIN session.streams \ {s},
           \A x \in DOMAIN session.streams \ {s} : session'.streams[x] = session.streams[x],
           s \in DOMAIN session'.streams =>
             Shape(session'.streams[s]) /\ (session'.streams[s].eof => Exhausted(s)'),
           s \in Passed => Settled(s)'
    PROVE  StreamsInv' /\ \A x \in Passed : Settled(x)'
<1>1. DOMAIN session.streams \subseteq Requests /\ Passed \subseteq Requests
  BY PassedAreRequests DEF H3Inv, SessionOK
<1>2. \A x \in Requests : x # s /\ Settled(x) => Settled(x)'
  BY DEF Settled, Held, ExhaustedStays
<1>3. \A x \in DOMAIN session'.streams : x # s => Shape(session'.streams[x]) /\ (session'.streams[x].eof => Exhausted(x)')
  BY <1>1 DEF StreamsInv, ExhaustedStays
<1>4. StreamsInv'
  BY <1>3 DEF StreamsInv
<1> QED BY <1>1, <1>2, <1>4 DEF SettledInv

\* A step with which no request comes to be ready, and none moves on.
Quiet ==
    /\ session'.ready = session.ready /\ UNCHANGED app
    /\ \/ channels'.events = channels.events
       \/ \E s \in Requests \cup {None} : channels'.events = Report([is |-> "failed", of |-> s])
    /\ Targets(channels'.commands) \subseteq Targets(channels.commands)

LEMMA QuietKeeps ==
    ASSUME H3Inv, OnceInv, Quiet, StreamsInv', \A x \in Passed : Settled(x)'
    PROVE  OnceInv'
<1>1. channels.events \in Seq(AnyEvent)
  BY DEF H3Inv, ChannelsOK
<1>2. OneEach(session.ready, channels'.events, app) /\ Messages(channels'.events) = Messages(channels.events)
  <2>1. CASE channels'.events = channels.events
    BY <2>1 DEF OnceInv, HandedOnce
  <2>2. ASSUME NEW s \in Requests \cup {None}, channels'.events = Report([is |-> "failed", of |-> s])
        PROVE  OneEach(session.ready, channels'.events, app) /\ Messages(channels'.events) = Messages(channels.events)
    <3>1. channels'.events = channels.events \/ channels'.events = Append(channels.events, [is |-> "failed", of |-> s])
      BY <2>2 DEF Report
    <3> QED BY <1>1, <2>1, <3>1, ReportOneEach DEF OnceInv, HandedOnce
  <2> QED BY <2>1, <2>2 DEF Quiet
<1>3. Passed' = Passed
  BY <1>2 DEF Passed, Quiet
<1>4. SettledInv'
  BY <1>3 DEF SettledInv, Quiet, OnceInv
<1>5. HandedOnce'
  BY <1>2 DEF HandedOnce, Quiet
<1> QED BY <1>4, <1>5 DEF OnceInv

\* retire forgets only what was read to its end.
LEMMA RetiredStream ==
    ASSUME NEW streams, NEW s
    PROVE  /\ DOMAIN Retired(streams, s) \ {s} = DOMAIN streams \ {s}
           /\ \A x \in DOMAIN Retired(streams, s) : x \in DOMAIN streams /\ Retired(streams, s)[x] = streams[x]
           /\ \A x \in DOMAIN streams : x # s => Retired(streams, s)[x] = streams[x]
           /\ s \in DOMAIN streams /\ s \notin DOMAIN Retired(streams, s) => streams[s].eof /\ streams[s].delivered
BY DEF Retired, Without, Spent

\* A stream that is put in the table.
LEMMA PutStream ==
    ASSUME StreamsInv, SettledInv, ExhaustedStays, H3Inv, NEW s \in Requests, NEW x,
           session'.streams = Retired(Kept(session.streams, s, x), s), Shape(x), x.eof => Exhausted(s)',
           s \in Passed => x.delivered \/ (Exhausted(s)' /\ ~x.pending)
    PROVE  StreamsInv' /\ (\A y \in Passed : Settled(y)') /\ (x.delivered => Settled(s)')
<1> DEFINE old == session.streams
           kept == Kept(old, s, x)
           new == Retired(kept, s)
<1>1. /\ DOMAIN kept = DOMAIN old \cup {s} /\ kept[s] = x
      /\ \A y \in DOMAIN old : y # s => kept[y] = old[y]
  BY DEF Kept
<1> HIDE DEF kept
<1>2. /\ DOMAIN new \ {s} = DOMAIN kept \ {s}
      /\ \A y \in DOMAIN new : y \in DOMAIN kept /\ new[y] = kept[y]
      /\ \A y \in DOMAIN kept : y # s => new[y] = kept[y]
      /\ s \in DOMAIN kept /\ s \notin DOMAIN new => kept[s].eof /\ kept[s].delivered
  BY RetiredStream
<1>3. session'.streams = new
  BY DEF kept
<1> HIDE DEF new, old
<1>4. /\ DOMAIN new \ {s} = DOMAIN old \ {s} /\ \A y \in DOMAIN old \ {s} : new[y] = old[y]
      /\ s \in DOMAIN new => new[s] = x
      /\ s \notin DOMAIN new => x.eof
  BY <1>1, <1>2
<1>5. s \in DOMAIN session'.streams =>
        Shape(session'.streams[s]) /\ (session'.streams[s].eof => Exhausted(s)')
  BY <1>3, <1>4
<1>6. (s \in Passed => Settled(s)') /\ (x.delivered => Settled(s)')
  BY <1>3, <1>4 DEF Settled, Held
<1> QED BY <1>3, <1>4, <1>5, <1>6, TableKeeps DEF old

\* A stream that is forgotten, for nothing more will be read of it.
LEMMA DropStream ==
    ASSUME StreamsInv, SettledInv, ExhaustedStays, H3Inv, NEW s \in Requests,
           session'.streams = Without(session.streams, s), Exhausted(s)'
    PROVE  StreamsInv' /\ \A y \in Passed : Settled(y)'
<1>1. /\ DOMAIN session'.streams = DOMAIN session.streams \ {s}
      /\ \A y \in DOMAIN session.streams \ {s} : session'.streams[y] = session.streams[y]
  BY DEF Without
<1>2. Settled(s)' /\ s \notin DOMAIN session'.streams
  BY <1>1 DEF Settled, Held
<1> QED BY <1>1, <1>2, TableKeeps

LEMMA ShapeKept ==
    ASSUME NEW x, Shape(x), NEW b, NEW c, NEW d \in BOOLEAN,
           NEW y, y = [buffer |-> b, message |-> x.message, pending |-> x.pending, eof |-> x.eof,
                       delivered |-> x.delivered, finished |-> d, raw |-> x.raw, responded |-> c]
    PROVE  Shape(y) /\ y.eof = x.eof /\ y.delivered = x.delivered /\ y.pending = x.pending
<1>1. /\ y.buffer = b /\ y.message = x.message /\ y.pending = x.pending /\ y.eof = x.eof
      /\ y.delivered = x.delivered /\ y.finished = d /\ y.raw = x.raw /\ y.responded = c
  OBVIOUS
<1> QED BY <1>1 DEF Shape

LEMMA SessionFields ==
    ASSUME SessionOK(session)
    PROVE  \A e :
        /\ [session EXCEPT !.streams = e].streams = e
        /\ [session EXCEPT !.streams = e].ready = session.ready
        /\ [session EXCEPT !.leaving = e].streams = session.streams
        /\ [session EXCEPT !.leaving = e].ready = session.ready
BY DEF SessionOK

HasFields(ch) == ch = [commands |-> ch.commands, events |-> ch.events, raw |-> ch.raw, sinks |-> ch.sinks]

\* flush_stream reports at most that the stream was stopped.
LEMMA FlushQuiet ==
    ASSUME NEW s \in Requests, NEW streams, NEW count, NEW after, FlushStream(s, streams, count, after),
           HasFields(after)
    PROVE  /\ channels'.commands = after.commands /\ channels'.raw = after.raw /\ channels'.sinks = after.sinks
           /\ channels'.events = after.events \/ channels'.events = Report([is |-> "failed", of |-> s])
<1> DEFINE e == Report([is |-> "failed", of |-> s])
<1>1. channels' = after \/ channels' = [after EXCEPT !.events = e]
  BY DEF FlushStream
<1> HIDE DEF e
<1>2. [after EXCEPT !.events = e] = [commands |-> after.commands, events |-> e, raw |-> after.raw, sinks |-> after.sinks]
  BY Fields DEF HasFields
<1>3. CASE channels' = after
  BY <1>3
<1>4. CASE channels' = [after EXCEPT !.events = e]
  BY <1>2, <1>4 DEF e
<1> QED BY <1>1, <1>3, <1>4

LEMMA TakenFields ==
    ASSUME H3Inv, channels.commands # <<>>
    PROVE  /\ Taken = [commands |-> Tail(channels.commands), events |-> channels.events,
                       raw |-> channels.raw, sinks |-> channels.sinks]
           /\ Targets(Tail(channels.commands)) \subseteq Targets(channels.commands)
           /\ Command \in AnyCommand /\ Command.of \in Targets(channels.commands) /\ Command.of \in Requests
           /\ Command.is \in {"send", "tunnel", "reset"}
           /\ Command.is = "send" => Command.octets \in Seq(0 .. 255)
<1> DEFINE q == channels.commands
<1>1. channels = [commands |-> channels.commands, events |-> channels.events,
                  raw |-> channels.raw, sinks |-> channels.sinks] /\ q \in Seq(AnyCommand)
  BY DEF H3Inv, ChannelsOK
<1>2. Taken = [commands |-> Tail(q), events |-> channels.events, raw |-> channels.raw, sinks |-> channels.sinks]
  BY <1>1, Fields DEF Taken
<1> HIDE DEF q
<1>3. /\ Head(q) \in AnyCommand /\ 1 \in DOMAIN q /\ Head(q) = q[1]
      /\ \A i \in DOMAIN Tail(q) : i + 1 \in DOMAIN q /\ Tail(q)[i] = q[i + 1]
  <2>1. q # <<>>
    BY DEF q
  <2> QED BY <1>1, <2>1, Popped
<1>4. Targets(Tail(q)) \subseteq Targets(q) /\ Head(q).of \in Targets(q)
  BY <1>3 DEF Targets
<1>5. Head(q) = Command
  BY DEF q, Command
<1> QED BY <1>2, <1>3, <1>4, <1>5 DEF q, AnyCommand

\* An answer makes its stream anew where it was forgotten, and then nothing more
\* will be read of it.
LEMMA ExecuteOnce ==
    ASSUME BasisInv, OnceInv, ExhaustedStays, Execute
    PROVE  OnceInv'
<1> PICK s : s = Command.of
  OBVIOUS
<1>1. channels.commands # <<>> /\ UNCHANGED app /\ H3Inv /\ SessionOK(session) /\ StreamsInv /\ SettledInv
  BY DEF Execute, application, BasisInv, OnceInv, H3Inv
<1>2. /\ Taken = [commands |-> Tail(channels.commands), events |-> channels.events,
                  raw |-> channels.raw, sinks |-> channels.sinks]
      /\ Targets(Tail(channels.commands)) \subseteq Targets(channels.commands)
      /\ s \in Targets(channels.commands) /\ s \in Requests
      /\ Command.is \in {"send", "tunnel", "reset"}
  BY <1>1, TakenFields
<1>3. s \in Passed /\ Settled(s)
  BY <1>1, <1>2 DEF SettledInv, Passed
<1>4. \/ Command.is = "send" /\ Send
      \/ Command.is = "tunnel" /\ MakeTunnel
      \/ Command.is = "reset" /\ Reset
  BY <1>2 DEF Execute
<1>5. CASE Command.is = "send" /\ Send
  <2> DEFINE x == [State(s) EXCEPT !.responded = TRUE, !.finished = @ \/ ~State(s).raw]
             streams == Retired(Kept(session.streams, s, x), s)
             queued == Queued(s, Command.octets, ~State(s).raw)
             count == held + Len(Command.octets)
  <2>1. session' = [session EXCEPT !.streams = streams] /\ FlushStream(s, queued, count, Taken)
    BY <1>5 DEF Send
  <2>2. Shape(State(s)) /\ (State(s).eof => Exhausted(s))
        /\ (State(s).delivered \/ (Exhausted(s) /\ ~State(s).pending))
    BY <1>1, <1>3, FreshShape DEF State, StreamsInv, Settled, Held
  <2>3. Shape(x) /\ x.eof = State(s).eof /\ x.delivered = State(s).delivered /\ x.pending = State(s).pending
    <3> DEFINE old == State(s)
               done == old.finished \/ ~State(s).raw
    <3>1. Shape(old) /\ done \in BOOLEAN
      BY <1>2, <1>5, <2>2 DEF Shape
    <3>2. x = [old EXCEPT !.responded = TRUE, !.finished = done]
      OBVIOUS
    <3> HIDE DEF old, done, x
    <3>3. x = [buffer |-> old.buffer, message |-> old.message, pending |-> old.pending, eof |-> old.eof,
               delivered |-> old.delivered, finished |-> done, raw |-> old.raw, responded |-> TRUE]
      BY <3>1, <3>2 DEF Shape
    <3> QED BY <3>1, <3>3, ShapeKept DEF old
  <2> HIDE DEF queued, count, x
  <2>4. Exhausted(s) => Exhausted(s)'
    BY <1>2 DEF ExhaustedStays
  <2>5. session'.streams = streams /\ session'.ready = session.ready
    BY <1>1, <2>1, SessionFields
  <2>6. StreamsInv' /\ \A y \in Passed : Settled(y)'
    BY <1>1, <1>2, <2>2, <2>3, <2>4, <2>5, PutStream
  <2> HIDE DEF streams
  <2>7. /\ channels'.commands = Tail(channels.commands)
        /\ channels'.events = channels.events \/ channels'.events = Report([is |-> "failed", of |-> s])
    <3>1. /\ Taken.commands = Tail(channels.commands) /\ Taken.events = channels.events
          /\ HasFields(Taken)
      BY <1>2 DEF HasFields
    <3>2. s \in Requests
      BY <1>2
    <3>3. /\ channels'.commands = Taken.commands
          /\ channels'.events = Taken.events \/ channels'.events = Report([is |-> "failed", of |-> s])
      BY <2>1, <3>1, <3>2, FlushQuiet
    <3> QED BY <3>1, <3>3
  <2>8. Quiet
    BY <1>1, <1>2, <2>5, <2>7 DEF Quiet
  <2> QED BY <1>1, <2>6, <2>8, QuietKeeps
<1>6. CASE Command.is = "tunnel" /\ MakeTunnel
  <2> DEFINE sinks == [Taken.sinks EXCEPT ![s] = @ \o Handed(s)]
             x == [session.streams[s] EXCEPT !.buffer = <<>>]
             streams == [session.streams EXCEPT ![s] = x]
  <2>1. /\ channels' = [Taken EXCEPT !.sinks = sinks]
        /\ session' = IF Held(s) THEN [session EXCEPT !.streams = streams] ELSE session
    BY <1>6 DEF MakeTunnel
  <2> HIDE DEF sinks
  <2>2. channels'.events = channels.events /\ channels'.commands = Tail(channels.commands)
    BY <1>2, <2>1
  <2>3. session'.ready = session.ready /\ session'.streams = IF Held(s) THEN streams ELSE session.streams
    BY <1>1, <2>1, SessionFields
  <2>4. Held(s) => Shape(session.streams[s]) /\ (session.streams[s].eof => Exhausted(s))
    BY <1>1 DEF StreamsInv, Held
  <2>5. Held(s) => Shape(x) /\ x.eof = session.streams[s].eof /\ x.delivered = session.streams[s].delivered
                     /\ x.pending = session.streams[s].pending
    <3> DEFINE old == session.streams[s]
    <3>1. Held(s) => x = [buffer |-> <<>>, message |-> old.message, pending |-> old.pending, eof |-> old.eof,
               delivered |-> old.delivered, finished |-> old.finished, raw |-> old.raw, responded |-> old.responded]
      BY <2>4 DEF Shape
    <3>2. Held(s) => Shape(old) /\ old.finished \in BOOLEAN
      BY <2>4 DEF Shape
    <3> HIDE DEF old, x
    <3>3. Held(s) => Shape(x) /\ x.eof = old.eof /\ x.delivered = old.delivered /\ x.pending = old.pending
      BY <3>1, <3>2, ShapeKept
    <3> QED BY <3>3 DEF old
  <2> HIDE DEF x
  <2>6. /\ DOMAIN session'.streams = DOMAIN session.streams
        /\ \A y \in DOMAIN session.streams \ {s} : session'.streams[y] = session.streams[y]
        /\ s \in DOMAIN session.streams => session'.streams[s] = x
    BY <2>3 DEF Held
  <2> HIDE DEF streams
  <2>7. Exhausted(s) => Exhausted(s)'
    BY <1>2 DEF ExhaustedStays
  <2>8. Settled(s)'
    BY <1>3, <2>5, <2>6, <2>7 DEF Settled, Held
  <2>9. s \in DOMAIN session'.streams =>
          Shape(session'.streams[s]) /\ (session'.streams[s].eof => Exhausted(s)')
    BY <2>4, <2>5, <2>6, <2>7 DEF Held
  <2>10. StreamsInv' /\ \A y \in Passed : Settled(y)'
    BY <1>1, <1>2, <2>6, <2>8, <2>9, TableKeeps
  <2>11. Quiet
    BY <1>1, <1>2, <2>2, <2>3 DEF Quiet
  <2> QED BY <1>1, <2>10, <2>11, QuietKeeps
<1>7. CASE Command.is = "reset" /\ Reset
  <2> DEFINE streams == Retired(session.streams, s)
  <2>1. session' = [session EXCEPT !.streams = streams] /\ channels' = Taken /\ s \in reset'
    BY <1>7 DEF Reset
  <2>2. /\ DOMAIN streams \ {s} = DOMAIN session.streams \ {s}
        /\ \A y \in DOMAIN streams : y \in DOMAIN session.streams /\ streams[y] = session.streams[y]
    BY RetiredStream
  <2> HIDE DEF streams
  <2>3. session'.streams = streams /\ session'.ready = session.ready
    BY <1>1, <2>1, SessionFields
  <2>4. Exhausted(s)'
    BY <2>1 DEF Exhausted
  <2>5. /\ s \in DOMAIN streams => Shape(streams[s])
        /\ \A y \in DOMAIN session.streams \ {s} : streams[y] = session.streams[y]
    BY <1>1, <2>2 DEF StreamsInv
  <2>6. Settled(s)'
    BY <1>3, <2>2, <2>3, <2>4, <1>1 DEF Settled, Held, StreamsInv, Shape
  <2>7. StreamsInv' /\ \A y \in Passed : Settled(y)'
    BY <1>1, <1>2, <2>2, <2>3, <2>4, <2>5, <2>6, TableKeeps
  <2>8. Quiet
    BY <1>1, <1>2, <2>1, <2>3 DEF Quiet
  <2> QED BY <1>1, <2>7, <2>8, QuietKeeps
<1> QED BY <1>4, <1>5, <1>6, <1>7

\* A step that leaves the streams alone.
LEMMA StillOnce ==
    ASSUME BasisInv, OnceInv, ExhaustedStays, Quiet, session'.streams = session.streams
    PROVE  OnceInv'
BY TableSame, QuietKeeps DEF BasisInv, OnceInv

\* deliver_ready moves what is ready to the events.
LEMMA EndHalfOnce ==
    ASSUME BasisInv, OnceInv, ExhaustedStays, EndHalf
    PROVE  OnceInv'
<1> DEFINE old == session.ready
           queue == channels.events
           room == Backlog - Len(queue)
           n == Min({Len(old), room})
           ready == SubSeq(old, n + 1, Len(old))
           leaving == IF phase = "reads" /\ session.leaving = "arrived" THEN "read" ELSE session.leaving
           moved == [i \in 1 .. n |-> [is |-> "message", of |-> old[i]]]
           events == queue \o moved
           drained == Drained(session.streams, ready, leaving)
           told == drained /\ Len(events) < Backlog
           over == [is |-> "failed", of |-> None]
           final == IF told THEN Append(events, over) ELSE events
<1>1. /\ session' = [session EXCEPT !.ready = ready, !.leaving = leaving]
      /\ channels' = [channels EXCEPT !.events = final]
      /\ UNCHANGED app
  BY DEF EndHalf, application
<1>2. /\ H3Inv /\ StreamsInv /\ SettledInv /\ SessionOK(session) /\ OneEach(old, queue, app)
      /\ channels = [commands |-> channels.commands, events |-> channels.events,
                     raw |-> channels.raw, sinks |-> channels.sinks]
      /\ old \in Seq(Requests) /\ queue \in Seq(AnyEvent) /\ Len(queue) <= Backlog /\ Backlog \in Nat
  BY H3Assumption DEF BasisInv, OnceInv, H3Inv, SessionOK, ChannelsOK, HandedOnce
<1> HIDE DEF AnyEvent, leaving
<1>3. n \in Nat /\ n <= Len(old)
  <2>1. Len(old) \in Nat /\ room \in Nat
    BY <1>2
  <2> HIDE DEF room, old
  <2> QED BY <2>1, LesserOfTwo
<1> HIDE DEF n
<1>4. /\ OneEach(ready, events, app) /\ events \in Seq(AnyEvent)
      /\ Range(ready) \cup Messages(events) \subseteq Range(old) \cup Messages(queue)
  BY <1>2, <1>3, MovedOneEach
<1> HIDE DEF ready, events, old, queue
<1>5. OneEach(ready, final, app) /\ Messages(final) = Messages(events)
  BY <1>4, ReportOneEach
<1> HIDE DEF final
<1>6. /\ session'.streams = session.streams /\ session'.ready = ready
      /\ channels'.events = final /\ channels'.commands = channels.commands
  <2>1. session'.streams = session.streams /\ session'.ready = ready
    BY <1>1, <1>2 DEF SessionOK
  <2>2. channels'.events = final /\ channels'.commands = channels.commands
    BY <1>1, <1>2, Fields
  <2> QED BY <2>1, <2>2
<1>7. Passed' \subseteq Passed
  BY <1>1, <1>4, <1>5, <1>6 DEF Passed, old, queue
<1>8. StreamsInv' /\ \A x \in Passed : Settled(x)'
  BY <1>2, <1>6, TableSame
<1>9. SettledInv'
  BY <1>1, <1>2, <1>6, <1>7, <1>8 DEF SettledInv
<1>10. HandedOnce'
  BY <1>1, <1>5, <1>6 DEF HandedOnce
<1> QED BY <1>8, <1>9, <1>10 DEF OnceInv

\* The rest of what a pass, the peer and the time it takes do.
LEMMA AsideOnce ==
    ASSUME BasisInv, OnceInv, ExhaustedStays,
           \/ Wake \/ CommandsDone \/ RawDone \/ TakeRaw \/ Expire \/ Leave \/ Insert
           \/ \E s \in Requests : Flush(s) \/ Arrive(s) \/ Finish(s) \/ Grant(s) \/ GiveUp(s) \/ Stop(s)
    PROVE  OnceInv'
<1>1. /\ SessionOK(session)
      /\ channels = [commands |-> channels.commands, events |-> channels.events,
                     raw |-> channels.raw, sinks |-> channels.sinks]
      /\ HasFields(channels) /\ RawOK(channels.raw)
  BY DEF BasisInv, H3Inv, ChannelsOK, HasFields
<1>2. CASE \/ Wake \/ CommandsDone \/ RawDone \/ Insert
           \/ \E s \in Requests : Arrive(s) \/ Finish(s) \/ Grant(s) \/ GiveUp(s) \/ Stop(s)
  <2>1. UNCHANGED << session, channels, app >>
    BY <1>2 DEF Wake, CommandsDone, RawDone, Insert, Arrive, Finish, Grant, GiveUp, Stop, Outside, worker, application
  <2> QED BY <2>1, StillOnce DEF Quiet
<1>3. CASE Leave
  <2>1. session' = [session EXCEPT !.leaving = "arrived"] /\ UNCHANGED << channels, app >>
    BY <1>3 DEF Leave, application
  <2>2. session'.streams = session.streams /\ session'.ready = session.ready
    BY <1>1, <2>1, SessionFields
  <2> QED BY <2>1, <2>2, StillOnce DEF Quiet
<1>4. CASE Expire
  <2> DEFINE e == Report([is |-> "failed", of |-> None])
  <2>1. channels' = [channels EXCEPT !.events = e] /\ UNCHANGED << session, app >>
    BY <1>4 DEF Expire, Fail, application
  <2> HIDE DEF e
  <2>2. channels'.events = e /\ channels'.commands = channels.commands
    BY <1>1, <2>1, Fields
  <2> QED BY <2>1, <2>2, StillOnce DEF Quiet, e
<1>5. ASSUME NEW s \in Requests, Flush(s) PROVE OnceInv'
  <2>1. FlushStream(s, outbound, held, channels) /\ UNCHANGED << session, app >>
    BY <1>5 DEF Flush, application
  <2>2. /\ channels'.commands = channels.commands
        /\ channels'.events = channels.events \/ channels'.events = Report([is |-> "failed", of |-> s])
    BY <1>1, <2>1, FlushQuiet
  <2> QED BY <2>1, <2>2, StillOnce DEF Quiet
<1>6. CASE TakeRaw
  <2> DEFINE w == Head(channels.raw)
             after == [channels EXCEPT !.raw = Tail(channels.raw)]
             queued == Queued(w.of, w.octets, w.fin)
             count == held + Len(w.octets)
  <2>1. FlushStream(w.of, queued, count, after) /\ channels.raw # <<>> /\ UNCHANGED << session, app >>
    BY <1>6 DEF TakeRaw, application
  <2>2. w.of \in Requests
    BY <1>1, <2>1, RawQueue
  <2>3. after.commands = channels.commands /\ after.events = channels.events /\ HasFields(after)
    BY <1>1, Fields DEF HasFields
  <2> HIDE DEF after, queued, count
  <2>4. /\ channels'.commands = after.commands
        /\ channels'.events = after.events \/ channels'.events = Report([is |-> "failed", of |-> w.of])
    BY <2>1, <2>2, <2>3, FlushQuiet
  <2> QED BY <2>1, <2>2, <2>3, <2>4, StillOnce DEF Quiet
<1> QED BY <1>2, <1>3, <1>4, <1>5, <1>6

\* The application is handed the first message there is, and asks for something
\* only of a request that it has.
LEMMA UseOnce ==
    ASSUME BasisInv, OnceInv, ExhaustedStays, Use \/ \E s \in Requests : ResetTunnel(s)
    PROVE  OnceInv'
<1>1. /\ H3Inv /\ StreamsInv /\ SettledInv /\ OneEach(session.ready, channels.events, app)
      /\ app = [s \in Requests |-> app[s]] /\ None \notin Requests
      /\ channels = [commands |-> channels.commands, events |-> channels.events,
                     raw |-> channels.raw, sinks |-> channels.sinks]
      /\ channels.events \in Seq(AnyEvent) /\ channels.commands \in Seq(AnyCommand)
      /\ Passed \subseteq Requests
  BY RequestsAreCounted, PassedAreRequests DEF BasisInv, OnceInv, HandedOnce, H3Inv, ChannelsOK, AppOK
<1>2. UNCHANGED session
  BY DEF Use, Receive, Respond, Accept, Tunnel, Write, ReadTunnel, ResetTunnel, Idle, worker
<1>3. StreamsInv' /\ \A x \in Passed : Settled(x)'
  BY <1>1, <1>2, TableSame
<1> HIDE DEF AnyEvent, AnyCommand
<1>4. CASE Receive
  <2> DEFINE event == Head(channels.events)
             rest == Tail(channels.events)
  <2>1. /\ channels.events # <<>> /\ channels' = [channels EXCEPT !.events = rest]
        /\ \/ UNCHANGED app /\ event.is # "message"
           \/ event.is = "message" /\ \E what : app' = [app EXCEPT ![event.of] = what] /\ what # "none"
    <3>1. CASE Script[event.of][1] = "connect"
      BY <1>4, <3>1 DEF Receive, Becomes
    <3>2. CASE Script[event.of][1] # "connect"
      BY <1>4, <3>2 DEF Receive, Becomes
    <3> QED BY <3>1, <3>2
  <2>2. /\ OneEach(session.ready, rest, app) /\ Messages(rest) \subseteq Messages(channels.events)
        /\ event.is = "message" =>
             /\ event.of \in Messages(channels.events) /\ event.of \notin Messages(rest)
             /\ event.of \notin Range(session.ready)
    BY <1>1, <2>1, PoppedOneEach
  <2>3. channels'.events = rest /\ channels'.commands = channels.commands
    BY <1>1, <2>1, Fields
  <2> HIDE DEF event, rest
  <2>4. event.is = "message" => event.of \in Requests /\ event.of \in Passed
    BY <1>1, <2>2 DEF Passed
  <2>5. /\ \A s \in Requests : app'[s] = app[s] \/ (event.is = "message" /\ s = event.of /\ app'[s] # "none")
    BY <1>1, <2>1, <2>4
  <2>6. Range(session.ready) \subseteq Requests /\ Messages(rest) \subseteq Requests
    BY <1>1, <2>2 DEF Passed
  <2>7. OneEach(session.ready, rest, app')
    BY <2>2, <2>5, <2>6 DEF OneEach
  <2>8. Passed' \subseteq Passed
    BY <1>2, <2>2, <2>3, <2>4, <2>5 DEF Passed
  <2>9. \A s \in Targets(channels'.commands) : app'[s] # "none"
    <3>1. Targets(channels.commands) \subseteq Requests /\ \A s \in Targets(channels.commands) : app[s] # "none"
      BY <1>1 DEF SettledInv, H3Inv, Lined, Touched
    <3> QED BY <2>3, <2>5, <3>1
  <2>10. SettledInv'
    BY <1>3, <2>8, <2>9 DEF SettledInv
  <2>11. HandedOnce'
    BY <1>2, <2>3, <2>7 DEF HandedOnce
  <2> QED BY <1>3, <2>10, <2>11 DEF OnceInv
<1>5. ASSUME NEW s \in Requests, Write(s) \/ ReadTunnel(s) PROVE OnceInv'
  <2>1. UNCHANGED app /\ (\/ \E e : channels' = [channels EXCEPT !.raw = e]
                          \/ \E e : channels' = [channels EXCEPT !.sinks[s] = e])
    BY <1>5 DEF Write, ReadTunnel
  <2>2. channels'.events = channels.events /\ channels'.commands = channels.commands
    BY <1>1, <2>1
  <2> QED BY <1>2, <2>1, <2>2, StillOnce DEF Quiet
<1>6. ASSUME NEW s \in Requests, Respond(s) \/ Accept(s) \/ Tunnel(s) \/ ResetTunnel(s) PROVE OnceInv'
  <2>1. /\ app[s] # "none" /\ \E what \in {"over", "accepted", "tunnel", "reset"} : app' = [app EXCEPT ![s] = what]
        /\ \E c : c.of = s /\ channels' = [channels EXCEPT !.commands = Append(@, c)] /\ c \in AnyCommand
    <3>1. CASE Respond(s)
      <4> DEFINE c == [is |-> "send", of |-> s, octets |-> Answer]
      <4>1. c \in AnyCommand /\ c.of = s
        BY H3Assumption DEF AnyCommand
      <4>2. /\ channels' = [channels EXCEPT !.commands = Append(@, c)]
            /\ app[s] # "none" /\ app' = [app EXCEPT ![s] = "over"]
        BY <3>1 DEF Respond, Enqueue, Becomes
      <4> HIDE DEF c
      <4> QED BY <4>1, <4>2
    <3>2. CASE Accept(s)
      <4> DEFINE c == [is |-> "send", of |-> s, octets |-> <<0>>]
      <4>1. c \in AnyCommand /\ c.of = s
        <5>1. <<0>> \in Seq(0 .. 255)
          OBVIOUS
        <5> QED BY <5>1 DEF AnyCommand
      <4>2. /\ channels' = [channels EXCEPT !.commands = Append(@, c)]
            /\ app[s] # "none" /\ app' = [app EXCEPT ![s] = "accepted"]
        BY <3>2 DEF Accept, Enqueue, Becomes
      <4> HIDE DEF c
      <4> QED BY <4>1, <4>2
    <3>3. CASE Tunnel(s)
      <4> DEFINE c == [is |-> "tunnel", of |-> s]
      <4>1. c \in AnyCommand /\ c.of = s
        BY DEF AnyCommand
      <4>2. /\ channels' = [channels EXCEPT !.commands = Append(@, c)]
            /\ app[s] # "none" /\ app' = [app EXCEPT ![s] = "tunnel"]
        BY <3>3 DEF Tunnel, Enqueue, Becomes
      <4> HIDE DEF c
      <4> QED BY <4>1, <4>2
    <3>4. CASE ResetTunnel(s)
      <4> DEFINE c == [is |-> "reset", of |-> s]
      <4>1. c \in AnyCommand /\ c.of = s
        BY DEF AnyCommand
      <4>2. /\ channels' = [channels EXCEPT !.commands = Append(@, c)]
            /\ app[s] # "none" /\ app' = [app EXCEPT ![s] = "reset"]
        BY <3>4 DEF ResetTunnel, Enqueue, Becomes
      <4> HIDE DEF c
      <4> QED BY <4>1, <4>2
    <3> QED BY <1>6, <3>1, <3>2, <3>3, <3>4
  <2>2. PICK c : c.of = s /\ c \in AnyCommand /\ channels' = [channels EXCEPT !.commands = Append(channels.commands, c)]
    BY <2>1
  <2>3. channels'.events = channels.events /\ channels'.commands = Append(channels.commands, c)
    BY <1>1, <2>2, Fields
  <2>4. Targets(channels'.commands) \subseteq Targets(channels.commands) \cup {s}
    <3>1. \A i \in DOMAIN Append(channels.commands, c) :
            (i \in DOMAIN channels.commands /\ Append(channels.commands, c)[i] = channels.commands[i])
              \/ Append(channels.commands, c)[i] = c
      BY <1>1, <2>2, Pushed
    <3> QED BY <2>2, <2>3, <3>1 DEF Targets
  <2>5. \A x \in Requests : app'[x] = app[x] \/ (x = s /\ app'[x] # "none" /\ app[x] # "none")
    BY <1>1, <2>1
  <2>6. Range(session.ready) \subseteq Requests /\ Messages(channels.events) \subseteq Requests
        /\ Targets(channels.commands) \subseteq Requests
    BY <1>1 DEF Passed, H3Inv, Lined, Touched
  <2>7. HandedOnce'
    BY <1>1, <1>2, <2>3, <2>5, <2>6 DEF HandedOnce, OneEach
  <2>8. Passed' \subseteq Passed
    BY <1>2, <2>3, <2>5 DEF Passed
  <2>9. \A x \in Targets(channels'.commands) : app'[x] # "none"
    BY <1>1, <2>1, <2>4, <2>5, <2>6 DEF SettledInv
  <2>10. SettledInv'
    BY <1>3, <2>8, <2>9 DEF SettledInv
  <2> QED BY <1>3, <2>7, <2>10 DEF OnceInv
<1> QED BY <1>4, <1>5, <1>6 DEF Use

\* A stream after what was read of it is taken in.
LEMMA ReadState ==
    ASSUME BasisInv, OnceInv, NEW s \in Requests, ~Exhausted(s), NEW items, NEW fin \in BOOLEAN
    PROVE  LET r == Advance([State(s) EXCEPT !.buffer = @ \o items, !.eof = @ \/ fin], inserted)
           IN  /\ Shape(r.state) /\ (r.state.eof => fin) /\ (r.ready => r.state.delivered)
               /\ s \in Passed => r.state.delivered /\ ~r.ready
<1> DEFINE old == State(s)
           eof == old.eof \/ fin
           buffer == old.buffer \o items
           x == [State(s) EXCEPT !.buffer = @ \o items, !.eof = @ \/ fin]
           r == Advance(x, inserted)
<1>1. H3Inv /\ StreamsInv /\ SettledInv
  BY DEF BasisInv, OnceInv
<1>2. Shape(old) /\ ~old.eof
  BY <1>1, FreshShape DEF State, StreamsInv, Held
<1>3. x = [old EXCEPT !.buffer = buffer, !.eof = eof] /\ eof \in BOOLEAN /\ (eof => fin)
  BY <1>2 DEF Shape
<1>4. s \in Passed => old.delivered
  BY <1>1 DEF SettledInv, Settled, State
<1> HIDE DEF old, eof, buffer, x, r
<1>5. x = [buffer |-> buffer, message |-> old.message, pending |-> old.pending, eof |-> eof,
           delivered |-> old.delivered, finished |-> old.finished, raw |-> old.raw, responded |-> old.responded]
  BY <1>2, <1>3 DEF Shape
<1>6. /\ x.buffer = buffer /\ x.message = old.message /\ x.pending = old.pending /\ x.eof = eof
      /\ x.delivered = old.delivered /\ x.finished = old.finished /\ x.raw = old.raw /\ x.responded = old.responded
  BY <1>5
<1>7. Shape(x) /\ (x.raw \/ ~x.delivered) /\ (x.eof => fin)
  <2>1. /\ {old.message, old.pending, old.delivered, old.finished, old.raw} \subseteq BOOLEAN
        /\ old.delivered => ~old.pending /\ old.raw
        /\ old.raw => old.delivered
    BY <1>2 DEF Shape
  <2>2. x = [buffer |-> x.buffer, message |-> x.message, pending |-> x.pending, eof |-> x.eof,
             delivered |-> x.delivered, finished |-> x.finished, raw |-> x.raw, responded |-> x.responded]
    BY <1>5, <1>6
  <2>3. Shape(x)
    BY <1>3, <1>6, <2>1, <2>2 DEF Shape
  <2> QED BY <1>3, <1>6, <2>1, <2>3
<1>8. /\ Shape(r.state) /\ r.state.eof = x.eof
      /\ x.raw => r.state = x /\ ~r.ready
      /\ ~x.raw => r.state.delivered = r.ready
  BY <1>7, AdvanceShape DEF r
<1> QED BY <1>4, <1>6, <1>7, <1>8 DEF r, x

\* A request is taken in: it is ready once, when its stream has given its message
\* for the first time, and until then it was nowhere.
LEMMA TakenInOnce ==
    ASSUME BasisInv, OnceInv, ExhaustedStays, NEW s \in Requests, NEW y, NEW told \in BOOLEAN,
           Shape(y), y.eof => Exhausted(s)', told => y.delivered, s \in Passed => y.delivered /\ ~told,
           NEW total, NEW highest, NEW goaway,
           session' = [session EXCEPT !.streams = Retired(Kept(@, s, y), s),
                                      !.ready = IF told THEN Append(@, s) ELSE @,
                                      !.total = total, !.highest = highest, !.goaway = goaway],
           UNCHANGED << channels, app >>
    PROVE  OnceInv'
<1> DEFINE ready == IF told THEN Append(session.ready, s) ELSE session.ready
<1>1. /\ H3Inv /\ StreamsInv /\ SettledInv /\ SessionOK(session) /\ session.ready \in Seq(Requests)
      /\ OneEach(session.ready, channels.events, app)
  BY DEF BasisInv, OnceInv, H3Inv, SessionOK, HandedOnce
<1>2. session'.streams = Retired(Kept(session.streams, s, y), s) /\ session'.ready = ready
  BY <1>1 DEF SessionOK
<1>3. StreamsInv' /\ (\A z \in Passed : Settled(z)') /\ (y.delivered => Settled(s)')
  BY <1>1, <1>2, PutStream
<1>4. CASE ~told
  <2>1. Passed' = Passed /\ ready = session.ready
    BY <1>2, <1>4 DEF Passed
  <2>2. SettledInv'
    BY <1>1, <1>3, <2>1 DEF SettledInv
  <2>3. HandedOnce'
    BY <1>1, <1>2, <2>1 DEF HandedOnce
  <2> QED BY <1>3, <2>2, <2>3 DEF OnceInv
<1>5. CASE told
  <2>1. y.delivered /\ s \notin Passed
    BY <1>5
  <2>2. ready = session.ready \o <<s>> /\ <<s>> \in Seq(Requests)
    BY <1>1, <1>5
  <2>3. \A i, j \in DOMAIN <<s>> : <<s>>[i] = <<s>>[j] => i = j
    OBVIOUS
  <2>4. Range(<<s>>) = {s}
    BY DEF Range
  <2>5. OneEach(ready, channels.events, app) /\ Range(ready) = Range(session.ready) \cup {s}
    <3> DEFINE list == <<s>>
    <3>1. \A z \in Range(list) : z \notin Range(session.ready) /\ z \notin Messages(channels.events) /\ app[z] = "none"
      BY <2>1, <2>4 DEF Passed
    <3>2. list \in Seq(Requests) /\ (\A i, j \in DOMAIN list : list[i] = list[j] => i = j)
      BY <2>2, <2>3
    <3>3. Range(list) = {s} /\ ready = session.ready \o list
      BY <2>2, <2>4
    <3> HIDE DEF list
    <3>4. /\ OneEach(session.ready \o list, channels.events, app)
          /\ Range(session.ready \o list) = Range(session.ready) \cup Range(list)
      BY <1>1, <3>1, <3>2, MoreOneEach
    <3> QED BY <3>3, <3>4
  <2> HIDE DEF ready
  <2>6. Passed' = Passed \cup {s}
    BY <1>2, <2>5 DEF Passed
  <2>7. SettledInv'
    BY <1>1, <1>3, <2>1, <2>6 DEF SettledInv
  <2>8. HandedOnce'
    BY <1>2, <2>5 DEF HandedOnce
  <2> QED BY <1>3, <2>7, <2>8 DEF OnceInv
<1> QED BY <1>4, <1>5

-----------------------------------------------------------------------------
(* Each request once: what is read.                                        *)

LEMMA AdvanceTells == \A x, unblocked : Advance(x, unblocked).ready \in BOOLEAN
<1> SUFFICES ASSUME NEW x, NEW unblocked PROVE Advance(x, unblocked).ready \in BOOLEAN
  OBVIOUS
<1> DEFINE all == Len(x.buffer)
           at == Min(Stops(x, unblocked) \cup {all + 1})
           frame == IF at > all THEN "none" ELSE x.buffer[at]
           message == x.message \/ \E i \in 1 .. at - 1 : x.buffer[i] \in Sections
           ended == x.eof /\ frame = "none" /\ ~x.delivered
           whole == frame = "connect" \/ (ended /\ message)
<1>1. Advance(x, unblocked).ready = FALSE \/ Advance(x, unblocked).ready = whole
  BY DEF Advance
<1>2. whole \in BOOLEAN
  OBVIOUS
<1> HIDE DEF whole
<1> QED BY <1>1, <1>2

\* A stream of which nothing more will be read is forgotten.
LEMMA DroppedOnce ==
    ASSUME BasisInv, OnceInv, ExhaustedStays, NEW s \in Requests, Exhausted(s)', Quiet,
           session'.streams = Without(session.streams, s)
    PROVE  OnceInv'
<1>1. H3Inv /\ StreamsInv /\ SettledInv
  BY DEF BasisInv, OnceInv
<1>2. StreamsInv' /\ \A y \in Passed : Settled(y)'
  BY <1>1, DropStream
<1> QED BY <1>1, <1>2, QuietKeeps

\* A stream that is forgotten, whether or not it was counted first, leaves the
\* rest of the session as it was.
LEMMA Forgotten ==
    ASSUME SessionOK(session), NEW s, NEW t, NEW h,
           ForgetStream(s, session) \/ ForgetStream(s, [session EXCEPT !.total = t, !.highest = h])
    PROVE  /\ session'.streams = Without(session.streams, s) /\ session'.ready = session.ready
           /\ session'.goaway = session.goaway /\ session'.leaving = session.leaving
           /\ session'.highest \in {session.highest, h}
<1> DEFINE counted == [session EXCEPT !.total = t, !.highest = h]
           without == Without(session.streams, s)
<1>1. session' = [session EXCEPT !.streams = without] \/ session' = [counted EXCEPT !.streams = without]
  <2>1. counted.streams = session.streams
    BY DEF SessionOK
  <2> QED BY <2>1 DEF ForgetStream
<1> HIDE DEF without
<1>2. \/ session' = [streams |-> without, ready |-> session.ready, goaway |-> session.goaway,
                     total |-> session.total, highest |-> session.highest, leaving |-> session.leaving]
      \/ session' = [streams |-> without, ready |-> session.ready, goaway |-> session.goaway,
                     total |-> t, highest |-> h, leaving |-> session.leaving]
  BY <1>1 DEF SessionOK
<1> QED BY <1>2 DEF without

LEMMA ForgetOnce ==
    ASSUME BasisInv, OnceInv, ExhaustedStays, NEW s \in Requests, UNCHANGED app, Exhausted(s)',
           session'.streams = Without(session.streams, s), session'.ready = session.ready,
           channels' = [channels EXCEPT !.events = Report([is |-> "failed", of |-> s])]
    PROVE  OnceInv'
<1> DEFINE e == Report([is |-> "failed", of |-> s])
<1>1. HasFields(channels) /\ channels' = [channels EXCEPT !.events = e]
  BY DEF BasisInv, H3Inv, ChannelsOK, HasFields
<1> HIDE DEF e
<1>2. channels'.events = e /\ channels'.commands = channels.commands
  BY <1>1 DEF HasFields
<1>3. Quiet
  BY <1>2 DEF Quiet, e
<1> QED BY <1>3, DroppedOnce

LEMMA FailOnce ==
    ASSUME BasisInv, OnceInv, ExhaustedStays, Fail, UNCHANGED << session, app >>
    PROVE  OnceInv'
<1> DEFINE e == Report([is |-> "failed", of |-> None])
<1>1. HasFields(channels)
  BY DEF BasisInv, H3Inv, ChannelsOK, HasFields
<1>2. channels' = [channels EXCEPT !.events = e]
  BY DEF Fail
<1> HIDE DEF e
<1>3. channels'.events = e /\ channels'.commands = channels.commands
  BY <1>1, <1>2 DEF HasFields
<1>4. Quiet
  BY <1>3 DEF Quiet, e
<1> QED BY <1>4, StillOnce

LEMMA TunnelOnce ==
    ASSUME BasisInv, OnceInv, ExhaustedStays, NEW s \in Requests, NEW items, NEW fin \in BOOLEAN,
           OnTunnel(s, items, fin), UNCHANGED app, fin => Exhausted(s)'
    PROVE  OnceInv'
<1> DEFINE q == Append(channels.sinks[s], [octets |-> items, fin |-> fin])
           streams == Without(session.streams, s)
<1>1. SessionOK(session) /\ HasFields(channels)
  BY DEF BasisInv, H3Inv, ChannelsOK, HasFields
<1>2. /\ channels' = [channels EXCEPT !.sinks[s] = q]
      /\ session' = IF fin THEN [session EXCEPT !.streams = streams] ELSE session
  BY DEF OnTunnel
<1> HIDE DEF q, streams
<1>3. channels'.events = channels.events /\ channels'.commands = channels.commands
  BY <1>1, <1>2 DEF HasFields
<1>4. CASE fin
  <2>1. session'.streams = streams /\ session'.ready = session.ready
    BY <1>1, <1>2, <1>4, SessionFields
  <2>2. Quiet
    BY <1>3, <2>1 DEF Quiet
  <2> QED BY <1>4, <2>1, <2>2, DroppedOnce DEF streams
<1>5. CASE ~fin
  <2>1. Quiet
    BY <1>2, <1>3, <1>5 DEF Quiet
  <2> QED BY <1>2, <1>5, <2>1, StillOnce
<1> QED BY <1>4, <1>5

LEMMA StreamOnce ==
    ASSUME BasisInv, OnceInv, ExhaustedStays, NEW s \in Requests, NEW items, NEW fin \in BOOLEAN,
           OnStreamBytes(s, items, fin), UNCHANGED app, ~Exhausted(s), fin => Exhausted(s)'
    PROVE  OnceInv'
<1> DEFINE created == ~Held(s)
           state == [State(s) EXCEPT !.buffer = @ \o items, !.eof = @ \/ fin]
           r == Advance(state, inserted)
           total == session.total + (IF created THEN 1 ELSE 0)
           highest == IF created /\ s > session.highest THEN s ELSE session.highest
           goaway == GoAway(total, highest)
           counted == [session EXCEPT !.total = total, !.highest = highest]
<1>1. \/ ResetStream(s, session) \/ ResetStream(s, counted)
      \/ Fail /\ UNCHANGED session
      \/ /\ session' = [session EXCEPT
                !.streams = Retired(Kept(@, s, r.state), s),
                !.ready = IF r.ready THEN Append(@, s) ELSE @,
                !.total = total, !.highest = highest, !.goaway = goaway]
         /\ UNCHANGED channels
  BY DEF OnStreamBytes
<1>2. r.ready \in BOOLEAN
  BY AdvanceTells
<1>3. /\ Shape(r.state) /\ (r.state.eof => fin) /\ (r.ready => r.state.delivered)
      /\ s \in Passed => r.state.delivered /\ ~r.ready
  BY ReadState
<1>4. CASE ResetStream(s, session) \/ ResetStream(s, counted)
  <2>1. Exhausted(s)'
    BY <1>4 DEF ResetStream, Exhausted
  <2>2. channels' = [channels EXCEPT !.events = Report([is |-> "failed", of |-> s])]
    BY <1>4 DEF ResetStream
  <2>3. SessionOK(session) /\ (ForgetStream(s, session) \/ ForgetStream(s, counted))
    BY <1>4 DEF ResetStream, BasisInv, H3Inv
  <2> HIDE DEF total, highest
  <2>4. session'.streams = Without(session.streams, s) /\ session'.ready = session.ready
    BY <2>3, Forgotten
  <2> QED BY <2>1, <2>2, <2>4, ForgetOnce
<1>5. CASE Fail /\ UNCHANGED session
  BY <1>5, FailOnce
<1> DEFINE y == r.state
           told == r.ready
<1> HIDE DEF r, total, highest, goaway
<1>6. CASE /\ session' = [session EXCEPT
                !.streams = Retired(Kept(@, s, y), s),
                !.ready = IF told THEN Append(@, s) ELSE @,
                !.total = total, !.highest = highest, !.goaway = goaway]
           /\ UNCHANGED channels
  <2>1. told \in BOOLEAN /\ Shape(y) /\ (y.eof => Exhausted(s)') /\ (told => y.delivered)
    BY <1>2, <1>3
  <2>2. s \in Passed => y.delivered /\ ~told
    BY <1>3
  <2> HIDE DEF y, told
  <2> QED BY <1>6, <2>1, <2>2, TakenInOnce
<1> QED BY <1>1, <1>4, <1>5, <1>6

\* SetToSeq lists each member once.
LEMMA SequenceOfSetOnce ==
    ASSUME NEW S, IsFiniteSet(S)
    PROVE  \A i, j \in DOMAIN SetToSeq(S) : SetToSeq(S)[i] = SetToSeq(S)[j] => i = j
<1> DEFINE n == Cardinality(S)
<1>1. n \in Nat /\ ExistsBijection(1 .. n, S)
  BY FS_CardinalityType
<1>2. \E f \in [1 .. n -> S] : IsInjective(f)
  BY <1>1 DEF ExistsBijection, Bijection, Injection
<1>3. SetToSeq(S) \in [1 .. n -> S] /\ IsInjective(SetToSeq(S))
  BY <1>2 DEF SetToSeq
<1> QED BY <1>3 DEF IsInjective

\* What the insertion unblocks was not ready before it, and is so once.
LEMMA EncoderOnce ==
    ASSUME BasisInv, OnceInv, ExhaustedStays, OnEncoderBytes, UNCHANGED app
    PROVE  OnceInv'
<1> DEFINE old == session.streams
           blocked == {s \in DOMAIN session.streams : session.streams[s].pending}
           r == [s \in blocked |-> Advance(session.streams[s], TRUE)]
           failed == {s \in blocked : r[s].error # "none"}
           After(done) == [s \in DOMAIN session.streams |->
                              IF s \in done THEN r[s].state ELSE session.streams[s]]
           streams(done) == [s \in {x \in DOMAIN session.streams : ~Spent(After(done)[x])} |-> After(done)[s]]
           told(done) == {s \in done : r[s].ready}
<1>1. PICK done \in SUBSET blocked :
        /\ failed # {} => done \cap failed # {}
        /\ session' = [session EXCEPT !.streams = streams(done), !.ready = @ \o SetToSeq(told(done))]
        /\ \/ UNCHANGED channels
           \/ failed # {} /\ channels' = [channels EXCEPT !.events =
                Report([is |-> "failed", of |-> CHOOSE s \in done \cap failed : TRUE])]
  <2>1. PICK done \in SUBSET blocked :
          /\ Cardinality(done \cap failed) = (IF failed = {} THEN 0 ELSE 1)
          /\ session' = [session EXCEPT !.streams = streams(done), !.ready = @ \o SetToSeq(told(done))]
          /\ IF failed = {} THEN UNCHANGED << reset, channels >>
             ELSE /\ reset' = reset \cup {encoder}
                  /\ channels' = [channels EXCEPT !.events =
                        Report([is |-> "failed", of |-> CHOOSE s \in done \cap failed : TRUE])]
    BY DEF OnEncoderBytes
  <2>2. failed # {} => done \cap failed # {}
    <3>1. Cardinality(done \cap failed) = (IF failed = {} THEN 0 ELSE 1)
      BY <2>1
    <3>2. Cardinality({}) = 0
      BY FS_EmptySet
    <3> HIDE DEF failed, streams, told
    <3> QED BY ONLY <3>1, <3>2
  <2> HIDE DEF failed, streams, told
  <2> QED BY <2>1, <2>2
<1>2. /\ H3Inv /\ StreamsInv /\ SettledInv /\ SessionOK(session) /\ HasFields(channels)
      /\ session.ready \in Seq(Requests) /\ channels.events \in Seq(AnyEvent)
      /\ DOMAIN old \subseteq Requests /\ Passed \subseteq Requests
      /\ OneEach(session.ready, channels.events, app)
  BY PassedAreRequests DEF BasisInv, OnceInv, H3Inv, SessionOK, ChannelsOK, HasFields, HandedOnce
<1> DEFINE list == SetToSeq(told(done))
           table == streams(done)
           after == After(done)
           some == told(done)
           first == CHOOSE s \in done \cap failed : TRUE
           ready == session.ready \o list
<1>3. \A s \in done : /\ Shape(after[s]) /\ after[s].eof = old[s].eof /\ (s \in some => after[s].delivered)
                      /\ s \in DOMAIN old /\ s \notin Passed
  <2> SUFFICES ASSUME NEW s \in done
               PROVE  /\ Shape(after[s]) /\ after[s].eof = old[s].eof /\ (s \in some => after[s].delivered)
                      /\ s \in DOMAIN old /\ s \notin Passed
    OBVIOUS
  <2>1. s \in DOMAIN old /\ old[s].pending /\ Shape(old[s])
    BY <1>2 DEF StreamsInv
  <2>2. ~old[s].delivered /\ ~old[s].raw
    BY <2>1 DEF Shape
  <2>3. s \notin Passed
    BY <1>2, <2>1, <2>2 DEF SettledInv, Settled, Held
  <2> DEFINE a == Advance(old[s], TRUE)
  <2>4. after[s] = a.state /\ (s \in some <=> a.ready)
    BY <2>1
  <2>5. Shape(a.state) /\ a.state.eof = old[s].eof /\ a.state.delivered = a.ready
    <3>1. PICK x : x = old[s]
      OBVIOUS
    <3>2. Shape(x) /\ ~x.raw /\ ~x.delivered
      BY <2>1, <2>2, <3>1
    <3> DEFINE yes == TRUE
               b == Advance(x, yes)
    <3>2a. a = b
      BY <3>1
    <3> HIDE DEF yes, old
    <3>3. /\ Shape(b.state) /\ b.state.eof = x.eof
          /\ x.raw => b.state = x /\ ~b.ready
          /\ ~x.raw => b.state.delivered = b.ready
      BY <3>2, AdvanceShape
    <3> HIDE DEF a, b
    <3> QED BY <3>1, <3>2, <3>2a, <3>3
  <2> HIDE DEF a, after, some, old
  <2> QED BY <2>1, <2>3, <2>4, <2>5
<1>4. /\ \A s \in DOMAIN old \ done : after[s] = old[s]
      /\ some \subseteq done /\ done \subseteq DOMAIN old
      /\ DOMAIN table \subseteq DOMAIN old /\ \A s \in DOMAIN table : table[s] = after[s]
      /\ \A s \in DOMAIN old : s \notin DOMAIN table => after[s].eof /\ after[s].delivered
  BY DEF Spent
<1>5. failed # {} => first \in Requests
  <2>1. failed # {} => first \in done
    BY <1>1
  <2> HIDE DEF first, failed
  <2> QED BY <1>2, <1>4, <2>1
<1>6. \/ UNCHANGED channels
      \/ failed # {} /\ channels' = [channels EXCEPT !.events = Report([is |-> "failed", of |-> first])]
  BY <1>1
<1>7. session' = [session EXCEPT !.streams = table, !.ready = ready]
  BY <1>1
<1> HIDE DEF table, after, some, first, failed, old, list
<1>8. IsFiniteSet(some) /\ list = SetToSeq(some)
  <2>1. some \subseteq Requests
    BY <1>2, <1>4
  <2> QED BY <2>1, RequestsAreCounted, FS_Subset DEF some, list
<1> HIDE DEF ready, told, streams, After, r, blocked
<1>9. session'.streams = table /\ session'.ready = ready
  BY <1>2, <1>7 DEF SessionOK
<1>10. list \in Seq(Requests) /\ Range(list) \subseteq some /\ \A i, j \in DOMAIN list : list[i] = list[j] => i = j
  <2>1. some \subseteq Requests
    BY <1>2, <1>4
  <2>2. list \in Seq(some)
    BY <1>8, SequenceOfSet
  <2>3. list \in Seq(Requests)
    BY <2>1, <2>2
  <2> QED BY <1>8, <2>3, SequenceOfSet, SequenceOfSetOnce
<1>11. OneEach(ready, channels.events, app) /\ Range(ready) \subseteq Range(session.ready) \cup some
  <2>1. \A s \in Range(list) : s \notin Range(session.ready) /\ s \notin Messages(channels.events) /\ app[s] = "none"
    <3> SUFFICES ASSUME NEW s \in Range(list)
                 PROVE  s \notin Range(session.ready) /\ s \notin Messages(channels.events) /\ app[s] = "none"
      OBVIOUS
    <3>1. s \notin Passed /\ s \in Requests
      BY <1>2, <1>3, <1>4, <1>10
    <3> QED BY <3>1 DEF Passed
  <2>2. OneEach(ready, channels.events, app) /\ Range(ready) = Range(session.ready) \cup Range(list)
    BY <1>2, <1>10, <2>1, MoreOneEach DEF ready
  <2> QED BY <1>10, <2>2
<1>12. /\ channels'.commands = channels.commands
       /\ OneEach(ready, channels'.events, app) /\ Messages(channels'.events) = Messages(channels.events)
  <2>1. CASE UNCHANGED channels
    BY <1>11, <2>1
  <2>2. CASE failed # {} /\ channels' = [channels EXCEPT !.events = Report([is |-> "failed", of |-> first])]
    <3> DEFINE report == Report([is |-> "failed", of |-> first])
    <3>1. channels' = [channels EXCEPT !.events = report]
      BY <2>2
    <3>2. report = channels.events \/ report = Append(channels.events, [is |-> "failed", of |-> first])
      BY DEF Report
    <3> HIDE DEF report
    <3>3. channels'.commands = channels.commands /\ channels'.events = report
      BY <1>2, <3>1 DEF HasFields
    <3>4. CASE report = channels.events
      BY <1>11, <3>3, <3>4
    <3>5. CASE report = Append(channels.events, [is |-> "failed", of |-> first])
      <4>1. PICK e : e = channels.events
        OBVIOUS
      <4>2. PICK x : x = first
        OBVIOUS
      <4>3. e \in Seq(AnyEvent) /\ x \in Requests \cup {None} /\ OneEach(ready, e, app)
        BY <1>2, <1>5, <1>11, <2>2, <4>1, <4>2
      <4>4. /\ OneEach(ready, Append(e, [is |-> "failed", of |-> x]), app)
            /\ Messages(Append(e, [is |-> "failed", of |-> x])) = Messages(e)
        BY <4>3, ReportOneEach
      <4> QED BY <3>3, <3>5, <4>1, <4>2, <4>4
    <3> QED BY <3>2, <3>4, <3>5
  <2> QED BY <1>6, <2>1, <2>2
<1>13. Passed' \subseteq Passed \cup some
  BY <1>9, <1>11, <1>12 DEF Passed
<1>14. StreamsInv'
  <2> SUFFICES ASSUME NEW s \in DOMAIN table
               PROVE  Shape(table[s]) /\ (table[s].eof => Exhausted(s)')
    BY <1>9 DEF StreamsInv
  <2>1. s \in DOMAIN old /\ table[s] = after[s] /\ s \in Requests
    BY <1>2, <1>4
  <2>2. Shape(old[s]) /\ (old[s].eof => Exhausted(s)')
    BY <1>2, <2>1 DEF StreamsInv, ExhaustedStays, old
  <2> QED BY <1>3, <1>4, <2>1, <2>2
<1>15. \A s \in Passed \cup some : Settled(s)'
  <2> SUFFICES ASSUME NEW s \in Passed \cup some PROVE Settled(s)'
    OBVIOUS
  <2>1. s \in Requests
    BY <1>2, <1>4
  <2>2. s \in DOMAIN old /\ old[s].eof => Exhausted(s)'
    BY <1>2, <2>1 DEF StreamsInv, ExhaustedStays, old
  <2>3. CASE s \in some
    <3>1. s \in done /\ s \in DOMAIN old
      BY <1>4, <2>3
    <3>2. after[s].delivered /\ after[s].eof = old[s].eof
      BY <1>3, <2>3, <3>1
    <3>3. CASE s \in DOMAIN table
      BY <1>4, <1>9, <3>2, <3>3 DEF Settled, Held
    <3>4. CASE s \notin DOMAIN table
      BY <1>4, <1>9, <2>2, <3>1, <3>2, <3>4 DEF Settled, Held
    <3> QED BY <3>3, <3>4
  <2>4. CASE s \in Passed
    <3>1. s \notin done /\ Settled(s) /\ (Exhausted(s) => Exhausted(s)')
      BY <1>2, <1>3, <2>1, <2>4 DEF SettledInv, ExhaustedStays
    <3>2. s \in DOMAIN table => s \in DOMAIN old /\ table[s] = old[s]
      BY <1>4, <3>1
    <3>3. s \in DOMAIN old /\ s \notin DOMAIN table => Exhausted(s)'
      BY <1>4, <2>2, <3>1
    <3> QED BY <1>9, <3>1, <3>2, <3>3 DEF Settled, Held, old
  <2> QED BY <2>3, <2>4
<1>16. SettledInv'
  BY <1>2, <1>12, <1>13, <1>15 DEF SettledInv
<1>17. HandedOnce'
  BY <1>9, <1>12 DEF HandedOnce
<1> QED BY <1>14, <1>16, <1>17 DEF OnceInv

LEMMA ReadOnce ==
    ASSUME BasisInv, OnceInv, ExhaustedStays, NEW s \in Requests \cup {encoder}, Read(s)
    PROVE  OnceInv'
<1> DEFINE items == inbox[s]
           fin == s # encoder /\ peer[s].fin
           full == s \in tunnels /\ Len(channels.sinks[s]) >= TunnelBacklog
<1>1. /\ UNCHANGED app
      /\ CASE full -> UNCHANGED << worker, channels >>
           [] ~full /\ s = encoder -> OnEncoderBytes
           [] ~full /\ s # encoder /\ peer[s].reset = "unread" ->
                  /\ ForgetStream(s, session)
                  /\ channels' = [channels EXCEPT !.events = Report([is |-> "failed", of |-> s])]
                  /\ UNCHANGED << inserted, reset, status >>
           [] ~full /\ s # encoder /\ peer[s].reset # "unread" ->
                  CASE s \in tunnels -> OnTunnel(s, items, fin)
                    [] s \notin tunnels /\ Disowned(s) ->
                          /\ reset' = reset \cup {s}
                          /\ UNCHANGED << inserted, session, outbound, held, tunnels, channels, status >>
                    [] OTHER -> OnStreamBytes(s, items, fin)
  BY DEF Read, application
<1>2. H3Inv /\ PeerInv
  BY DEF BasisInv
<1>3. reset \subseteq reset' /\ reset' \subseteq reset \cup {s}
  BY <1>2, ReadFrame
<1>4. s # encoder => s \in Requests
  OBVIOUS
<1>5. s \in Requests => fin \in BOOLEAN /\ ~Exhausted(s)
  <2>1. phase = "reads" /\ s \in todo
    BY DEF Read
  <2>2. s \in Requests => ~Exhausted(s)
    BY <1>2, <2>1, NotReadable DEF PeerInv
  <2> QED BY <2>2
<1>6. s \in Requests /\ ~full /\ (fin \/ peer[s].reset = "unread") => Exhausted(s)'
  BY <1>2, <1>3, ReadPeer
<1> HIDE DEF items, fin, full
<1>7. ASSUME UNCHANGED << session, channels >> PROVE OnceInv'
  <2>1. Quiet
    BY <1>1, <1>7 DEF Quiet
  <2> QED BY <1>7, <2>1, StillOnce
<1>8. CASE full
  BY <1>1, <1>7, <1>8 DEF worker
<1>9. CASE ~full /\ s = encoder
  BY <1>1, <1>9, EncoderOnce
<1>10. CASE ~full /\ s # encoder /\ peer[s].reset = "unread"
  <2>1. /\ ForgetStream(s, session)
        /\ channels' = [channels EXCEPT !.events = Report([is |-> "failed", of |-> s])]
    BY <1>1, <1>10
  <2>2. SessionOK(session)
    BY DEF BasisInv, H3Inv
  <2>3. session'.streams = Without(session.streams, s) /\ session'.ready = session.ready
    BY <2>1, <2>2, Forgotten
  <2> QED BY <1>1, <1>4, <1>6, <1>10, <2>1, <2>3, ForgetOnce
<1>11. CASE ~full /\ s # encoder /\ peer[s].reset # "unread"
  <2>1. \/ OnTunnel(s, items, fin)
        \/ UNCHANGED << session, channels >>
        \/ OnStreamBytes(s, items, fin)
    BY <1>1, <1>11
  <2>2. CASE OnTunnel(s, items, fin)
    BY <1>1, <1>4, <1>5, <1>6, <1>11, <2>2, TunnelOnce
  <2>3. CASE OnStreamBytes(s, items, fin)
    BY <1>1, <1>4, <1>5, <1>6, <1>11, <2>3, StreamOnce
  <2> QED BY <1>7, <2>1, <2>2, <2>3
<1> QED BY <1>8, <1>9, <1>10, <1>11

LEMMA OnceStep ==
    ASSUME BasisInv, OnceInv, ExhaustedStays, Next
    PROVE  OnceInv'
<1>1. CASE ReadsDone \/ FlushDone
  BY <1>1, EndHalfOnce DEF ReadsDone, FlushDone
<1>2. CASE Execute
  BY <1>2, ExecuteOnce
<1>3. ASSUME NEW s \in Requests \cup {encoder}, Read(s) PROVE OnceInv'
  BY <1>3, ReadOnce
<1>4. CASE Use \/ \E s \in Requests : ResetTunnel(s)
  BY <1>4, UseOnce
<1>5. CASE \/ Wake \/ CommandsDone \/ RawDone \/ TakeRaw \/ Expire \/ Leave \/ Insert
           \/ \E s \in Requests : Flush(s) \/ Arrive(s) \/ Finish(s) \/ Grant(s) \/ GiveUp(s) \/ Stop(s)
  BY <1>5, AsideOnce
<1> QED BY <1>1, <1>2, <1>3, <1>4, <1>5 DEF Next, Pass, Progress

LEMMA OnceHolds == Spec => [](BasisInv /\ OnceInv)
<1>1. Init => OnceInv
  <2> SUFFICES ASSUME Init PROVE OnceInv
    OBVIOUS
  <2>1. /\ session.streams = <<>> /\ session.ready = <<>> /\ channels.events = <<>> /\ channels.commands = <<>>
        /\ \A s \in Requests : app[s] = "none"
    BY DEF Init
  <2>2. DOMAIN <<>> = {}
    OBVIOUS
  <2>3. StreamsInv /\ Range(session.ready) = {} /\ Messages(channels.events) = {} /\ Targets(channels.commands) = {}
    BY <2>1, <2>2 DEF StreamsInv, Range, Messages, Targets
  <2>4. SettledInv
    BY <2>1, <2>3 DEF SettledInv, Passed
  <2>5. HandedOnce
    BY <2>1, <2>2, <2>3 DEF HandedOnce, OneEach
  <2> QED BY <2>3, <2>4, <2>5 DEF OnceInv
<1>2. BasisInv /\ OnceInv /\ [Next]_vars => OnceInv'
  <2> SUFFICES ASSUME BasisInv, OnceInv, [Next]_vars PROVE OnceInv'
    OBVIOUS
  <2>1. CASE UNCHANGED vars
    <3>1. UNCHANGED << session, channels, app, inbox, peer, reset >>
      BY <2>1 DEF vars
    <3>2. ExhaustedStays /\ Quiet
      BY <3>1 DEF ExhaustedStays, Exhausted, Quiet
    <3> QED BY <3>1, <3>2, StillOnce
  <2>2. CASE Next
    BY <2>2, BasisStep, OnceStep
  <2> QED BY <2>1, <2>2
<1> QED BY <1>1, <1>2, BasisHolds, PTL DEF Spec

\* A request is handed to the application once: it is never ready a second time,
\* nor on its way to the application again, nor anywhere once the application has it,
\* whatever its stream brings after the message and however often it is read.
THEOREM HandedOnceHolds == Spec => []HandedOnce
BY OnceHolds, PTL DEF OnceInv

-----------------------------------------------------------------------------
(* The types.                                                              *)

PlainOK(s) ==
    /\ s.highest <= Len(Script) /\ s.goaway \in 0 .. Len(Script) + 1
    /\ s.leaving \in {"no", "arrived", "read"}

PlainInv ==
    /\ inserted \in BOOLEAN /\ status \in {"open", "failed", "closed"}
    /\ reset \subseteq Requests \cup {encoder} /\ PlainOK(session)

\* What a step may do to these.
PlainStep ==
    /\ inserted' \in {inserted, TRUE} /\ status' \in {status, "failed", "closed"}
    /\ \E s \in Requests \cup {encoder} : reset' \subseteq reset \cup {s}
    /\ PlainOK(session')

LEMMA PlainKeeps == PlainInv /\ PlainStep => PlainInv'
BY DEF PlainInv, PlainStep, PlainOK

LEMMA PlainFields ==
    ASSUME SessionOK(session), PlainOK(session)
    PROVE  \A e, f :
        /\ PlainOK([session EXCEPT !.streams = e])
        /\ PlainOK([session EXCEPT !.streams = e, !.ready = f])
        /\ f \in {"no", "arrived", "read"} => PlainOK([session EXCEPT !.ready = e, !.leaving = f])
        /\ f \in {"no", "arrived", "read"} => PlainOK([session EXCEPT !.leaving = f])
BY DEF SessionOK, PlainOK

\* GOAWAY is drawn above the highest stream that was taken in.
LEMMA StreamPlain ==
    ASSUME H3Inv, PlainInv, NEW s \in Requests, NEW items, NEW fin, OnStreamBytes(s, items, fin)
    PROVE  PlainStep
<1> DEFINE created == ~Held(s)
           state == [State(s) EXCEPT !.buffer = @ \o items, !.eof = @ \/ fin]
           r == Advance(state, inserted)
           total == session.total + (IF created THEN 1 ELSE 0)
           highest == IF created /\ s > session.highest THEN s ELSE session.highest
           goaway == GoAway(total, highest)
           streams == Retired(Kept(session.streams, s, r.state), s)
           ready == IF r.ready THEN Append(session.ready, s) ELSE session.ready
           counted == [session EXCEPT !.total = total, !.highest = highest]
<1>1. SessionOK(session) /\ PlainOK(session) /\ s \in Nat /\ s <= Len(Script) /\ Len(Script) \in Nat
      /\ inserted \in BOOLEAN
  BY RequestsAreCounted DEF H3Inv, PlainInv
<1>2. \/ (ResetStream(s, session) \/ ResetStream(s, counted)) /\ UNCHANGED << inserted, status >>
      \/ Fail /\ UNCHANGED << inserted, session, reset >>
      \/ /\ session' = [session EXCEPT !.streams = streams, !.ready = ready, !.total = total,
                                       !.highest = highest, !.goaway = goaway]
         /\ UNCHANGED << inserted, reset, status >>
  BY DEF OnStreamBytes
<1>3. CASE (ResetStream(s, session) \/ ResetStream(s, counted)) /\ UNCHANGED << inserted, status >>
  <2>1. /\ ForgetStream(s, session) \/ ForgetStream(s, counted)
        /\ reset' = reset \cup {s}
    BY <1>3 DEF ResetStream
  <2>2. highest <= Len(Script)
    BY <1>1 DEF PlainOK, SessionOK
  <2> HIDE DEF total, highest
  <2>3. /\ session'.goaway = session.goaway /\ session'.leaving = session.leaving
        /\ session'.highest \in {session.highest, highest}
    BY <1>1, <2>1, Forgotten
  <2>4. PlainOK(session')
    BY <1>1, <2>2, <2>3 DEF PlainOK
  <2> QED BY <1>1, <1>3, <2>1, <2>4 DEF PlainStep
<1>4. CASE Fail /\ UNCHANGED << inserted, session, reset >>
  BY <1>1, <1>4 DEF Fail, PlainStep, PlainOK
<1>5. CASE /\ session' = [session EXCEPT !.streams = streams, !.ready = ready, !.total = total,
                                         !.highest = highest, !.goaway = goaway]
           /\ UNCHANGED << inserted, reset, status >>
  <2>1. highest \in Nat /\ highest <= Len(Script)
    BY <1>1 DEF PlainOK, SessionOK
  <2> HIDE DEF highest, total, ready, streams
  <2>2. goaway \in 0 .. Len(Script) + 1
    BY <1>1, <2>1 DEF PlainOK, GoAway
  <2> HIDE DEF goaway
  <2>3. session'.highest = highest /\ session'.goaway = goaway /\ session'.leaving = session.leaving
    BY <1>1, <1>5 DEF SessionOK
  <2>4. PlainOK(session')
    BY <1>1, <2>1, <2>2, <2>3 DEF PlainOK
  <2> QED BY <1>5, <2>4 DEF PlainStep
<1> QED BY <1>2, <1>3, <1>4, <1>5

LEMMA ReadPlain ==
    ASSUME H3Inv, PlainInv, NEW s \in Requests \cup {encoder}, Read(s)
    PROVE  PlainStep
<1> DEFINE items == inbox[s]
           fin == s # encoder /\ peer[s].fin
           full == s \in tunnels /\ Len(channels.sinks[s]) >= TunnelBacklog
<1>1. /\ UNCHANGED app
      /\ CASE full -> UNCHANGED << worker, channels >>
           [] ~full /\ s = encoder -> OnEncoderBytes
           [] ~full /\ s # encoder /\ peer[s].reset = "unread" ->
                  /\ ForgetStream(s, session)
                  /\ channels' = [channels EXCEPT !.events = Report([is |-> "failed", of |-> s])]
                  /\ UNCHANGED << inserted, reset, status >>
           [] ~full /\ s # encoder /\ peer[s].reset # "unread" ->
                  CASE s \in tunnels -> OnTunnel(s, items, fin)
                    [] s \notin tunnels /\ Disowned(s) ->
                          /\ reset' = reset \cup {s}
                          /\ UNCHANGED << inserted, session, outbound, held, tunnels, channels, status >>
                    [] OTHER -> OnStreamBytes(s, items, fin)
  BY DEF Read, application
<1>2. SessionOK(session) /\ PlainOK(session)
  BY DEF H3Inv, PlainInv
<1>3. \A e, f : PlainOK([session EXCEPT !.streams = e]) /\ PlainOK([session EXCEPT !.streams = e, !.ready = f])
  BY <1>2, PlainFields
<1> HIDE DEF items, fin, full
<1>4. ASSUME UNCHANGED << inserted, status >>, reset' \in {reset, reset \cup {s}},
             UNCHANGED session \/ \E e : session' = [session EXCEPT !.streams = e]
      PROVE  PlainStep
  <2>1. PlainOK(session')
    BY <1>2, <1>3, <1>4
  <2> QED BY <1>4, <2>1 DEF PlainStep
<1>5. CASE full
  BY <1>1, <1>4, <1>5 DEF worker
<1>6. CASE ~full /\ s = encoder
  <2>1. OnEncoderBytes
    BY <1>1, <1>6
  <2>2. /\ inserted' = TRUE /\ UNCHANGED status /\ reset' \in {reset, reset \cup {encoder}}
        /\ \E e, f : session' = [session EXCEPT !.streams = e, !.ready = f]
    BY <2>1 DEF OnEncoderBytes
  <2>3. PICK e, f : session' = [session EXCEPT !.streams = e, !.ready = f]
    BY <2>2
  <2>4. PlainOK([session EXCEPT !.streams = e, !.ready = f])
    BY <1>3
  <2>5. PlainOK(session')
    BY <2>3, <2>4
  <2> QED BY <2>2, <2>5 DEF PlainStep
<1>7. CASE ~full /\ s # encoder /\ peer[s].reset = "unread"
  BY <1>1, <1>4, <1>7 DEF ForgetStream
<1>8. CASE ~full /\ s # encoder /\ peer[s].reset # "unread"
  <2>1. \/ OnTunnel(s, items, fin)
        \/ reset' = reset \cup {s} /\ UNCHANGED << inserted, session, status >>
        \/ OnStreamBytes(s, items, fin)
    BY <1>1, <1>8
  <2>2. CASE OnTunnel(s, items, fin)
    BY <1>4, <2>2 DEF OnTunnel
  <2>3. CASE OnStreamBytes(s, items, fin)
    BY <1>8, <2>3, StreamPlain
  <2> QED BY <1>4, <2>1, <2>2, <2>3
<1> QED BY <1>5, <1>6, <1>7, <1>8

LEMMA PlainHolds ==
    ASSUME H3Inv, PlainInv, Next
    PROVE  PlainInv'
<1> SUFFICES PlainStep
  BY PlainKeeps
<1>1. SessionOK(session) /\ PlainOK(session) /\ session.leaving \in {"no", "arrived", "read"}
  BY DEF H3Inv, PlainInv, PlainOK
<1>2. \A e, f : /\ PlainOK([session EXCEPT !.streams = e])
                /\ f \in {"no", "arrived", "read"} => PlainOK([session EXCEPT !.ready = e, !.leaving = f])
                /\ f \in {"no", "arrived", "read"} => PlainOK([session EXCEPT !.leaving = f])
  BY <1>1, PlainFields
<1>3. ASSUME NEW s \in Requests \cup {encoder}, Read(s) PROVE PlainStep
  BY <1>3, ReadPlain
<1>4. CASE Execute
  <2>1. /\ UNCHANGED << inserted, status >> /\ channels.commands # <<>>
        /\ (Command.is = "send" => Send) /\ (Command.is = "tunnel" => MakeTunnel)
        /\ (Command.is = "reset" => Reset)
    BY <1>4 DEF Execute
  <2>2. Command.of \in Requests /\ Command.is \in {"send", "tunnel", "reset"}
    BY <2>1, TakenFields
  <2>3. Send => UNCHANGED reset /\ \E e : session' = [session EXCEPT !.streams = e]
    BY DEF Send
  <2>4. MakeTunnel => UNCHANGED reset /\ (UNCHANGED session \/ \E e : session' = [session EXCEPT !.streams = e])
    BY DEF MakeTunnel
  <2>5. Reset => reset' = reset \cup {Command.of} /\ \E e : session' = [session EXCEPT !.streams = e]
    BY DEF Reset
  <2>6. /\ reset' = reset \/ reset' = reset \cup {Command.of}
        /\ UNCHANGED session \/ \E e : session' = [session EXCEPT !.streams = e]
    BY <2>1, <2>2, <2>3, <2>4, <2>5
  <2>7. PlainOK(session')
    BY <1>1, <1>2, <2>6
  <2> QED BY <2>1, <2>2, <2>6, <2>7 DEF PlainStep
<1>5. CASE EndHalf
  <2> DEFINE leaving == IF phase = "reads" /\ session.leaving = "arrived" THEN "read" ELSE session.leaving
  <2>1. /\ UNCHANGED << inserted, reset >> /\ status' \in {status, "closed"}
        /\ \E e : session' = [session EXCEPT !.ready = e, !.leaving = leaving]
    BY <1>5 DEF EndHalf
  <2>2. leaving \in {"no", "arrived", "read"}
    BY <1>1
  <2> HIDE DEF leaving
  <2>3. PICK e : session' = [session EXCEPT !.ready = e, !.leaving = leaving]
    BY <2>1
  <2>4. PlainOK([session EXCEPT !.ready = e, !.leaving = leaving])
    BY <1>2, <2>2
  <2>5. PlainOK(session')
    BY <2>3, <2>4
  <2> QED BY <2>1, <2>5 DEF PlainStep
<1>6. CASE Leave
  <2>1. UNCHANGED << inserted, reset, status >> /\ session' = [session EXCEPT !.leaving = "arrived"]
    BY <1>6 DEF Leave
  <2>2. PlainOK(session')
    BY <1>2, <2>1
  <2> QED BY <2>1, <2>2 DEF PlainStep
<1>7. CASE \/ Wake \/ CommandsDone \/ RawDone \/ TakeRaw \/ Expire \/ Use \/ Insert
           \/ \E s \in Requests : \/ Flush(s) \/ Arrive(s) \/ Finish(s) \/ Grant(s) \/ GiveUp(s) \/ Stop(s)
                                  \/ ResetTunnel(s)
  <2>1. UNCHANGED << inserted, session, reset >> /\ status' \in {status, "failed"}
    BY <1>7 DEF Wake, CommandsDone, RawDone, TakeRaw, Expire, Fail, Flush, Insert, Arrive, Finish, Grant, GiveUp,
                Stop, Outside, ResetTunnel, Use, Receive, Respond, Accept, Tunnel, Write, ReadTunnel, Idle, worker
  <2> QED BY <1>1, <2>1 DEF PlainStep, PlainOK
<1> QED BY <1>3, <1>4, <1>5, <1>6, <1>7 DEF Next, Pass, Progress, ReadsDone, FlushDone

-----------------------------------------------------------------------------
(* Tunnels, and what they hold for the application.                        *)

IsQueue(q) == q \in Seq(Range(q))
IsTunnel(what) == what \in {"tunnel", "reset"}

\* A tunnel is asked for once, and has nothing before it is made.
TunnelsOK(commands, sinks, tuns, a) ==
    /\ sinks = [s \in Requests |-> sinks[s]] /\ tuns \subseteq Requests
    /\ \A s \in Requests :
         /\ IsQueue(sinks[s]) /\ Len(sinks[s]) <= TunnelBacklog
         /\ s \in tuns \/ sinks[s] # <<>> => IsTunnel(a[s])
    /\ \A i \in DOMAIN commands :
         /\ commands[i].is = "reset" => a[commands[i].of] = "reset"
         /\ commands[i].is = "tunnel" =>
              /\ IsTunnel(a[commands[i].of]) /\ commands[i].of \notin tuns
              /\ sinks[commands[i].of] = <<>>
    /\ \A i, j \in DOMAIN commands :
         commands[i].is = "tunnel" /\ commands[j].is = "tunnel" /\ commands[i].of = commands[j].of => i = j

TunnelInv == TunnelsOK(channels.commands, channels.sinks, tunnels, app)

LEMMA IsQueueMoves ==
    ASSUME NEW q, IsQueue(q), NEW x
    PROVE  /\ IsQueue(Append(q, x)) /\ Len(Append(q, x)) = Len(q) + 1 /\ Append(q, x) # <<>> /\ Len(q) \in Nat
           /\ q # <<>> => IsQueue(Tail(q)) /\ Len(Tail(q)) = Len(q) - 1
<1> DEFINE S == Range(q) \cup {x}
<1>1. ASSUME NEW T, NEW p \in Seq(T) PROVE IsQueue(p)
  <2>1. \A i \in 1 .. Len(p) : p[i] \in Range(p)
    BY DEF Range
  <2> QED BY <2>1 DEF IsQueue
<1>2. q \in Seq(S) /\ x \in S
  BY DEF IsQueue
<1> HIDE DEF S
<1>3. Append(q, x) \in Seq(S) /\ Len(Append(q, x)) = Len(q) + 1 /\ Append(q, x) # <<>> /\ Len(q) \in Nat
  BY <1>2
<1>4. q # <<>> => Tail(q) \in Seq(S) /\ Len(Tail(q)) = Len(q) - 1
  BY <1>2
<1> QED BY <1>1, <1>3, <1>4

\* The first command is taken.
LEMMA CommandTaken ==
    ASSUME NEW q \in Seq(AnyCommand), q # <<>>, NEW k, NEW t, NEW a, TunnelsOK(q, k, t, a)
    PROVE  /\ TunnelsOK(Tail(q), k, t, a)
           /\ Head(q).is = "reset" => a[Head(q).of] = "reset"
           /\ Head(q).is = "tunnel" =>
                /\ IsTunnel(a[Head(q).of]) /\ k[Head(q).of] = <<>>
                /\ \A i \in DOMAIN Tail(q) : Tail(q)[i].is = "tunnel" => Tail(q)[i].of # Head(q).of
<1> HIDE DEF AnyCommand
<1> DEFINE p == Tail(q)
<1>1. /\ 1 \in DOMAIN q /\ Head(q) = q[1]
      /\ \A i \in DOMAIN p : i \in Nat /\ i > 0 /\ i + 1 \in DOMAIN q /\ p[i] = q[i + 1]
  OBVIOUS
<1> HIDE DEF p
<1>2. \A i \in DOMAIN p : i + 1 # 1
  BY <1>1
<1>3. ASSUME NEW i \in DOMAIN p, NEW j \in DOMAIN p, p[i].is = "tunnel", p[j].is = "tunnel", p[i].of = p[j].of
      PROVE  i = j
  <2>1. i + 1 = j + 1
    BY <1>1, <1>3 DEF TunnelsOK
  <2> QED BY <1>1, <2>1
<1>4. TunnelsOK(p, k, t, a)
  BY <1>1, <1>3 DEF TunnelsOK
<1>5. ASSUME Head(q).is = "tunnel", NEW i \in DOMAIN p, p[i].is = "tunnel" PROVE p[i].of # Head(q).of
  BY <1>1, <1>2, <1>5 DEF TunnelsOK
<1> QED BY <1>1, <1>4, <1>5 DEF TunnelsOK, p

\* One is asked for.
LEMMA CommandAsked ==
    ASSUME NEW q \in Seq(AnyCommand), NEW k, NEW t, NEW a, TunnelsOK(q, k, t, a), NEW c \in AnyCommand,
           NEW b, \A s \in Requests : IsTunnel(a[s]) => b[s] = a[s] \/ b[s] = "reset",
           \A s \in Requests : a[s] = "reset" => b[s] = "reset",
           \A i \in DOMAIN q : q[i].of \in Requests,
           c.is = "reset" => b[c.of] = "reset",
           c.is = "tunnel" => c.of \in Requests /\ ~IsTunnel(a[c.of]) /\ IsTunnel(b[c.of])
    PROVE  TunnelsOK(Append(q, c), k, t, b)
<1> HIDE DEF AnyCommand
<1> DEFINE p == Append(q, c)
           n == Len(q) + 1
<1>1. /\ DOMAIN p = DOMAIN q \cup {n} /\ n \notin DOMAIN q
      /\ p[n] = c /\ \A i \in DOMAIN q : p[i] = q[i]
  OBVIOUS
<1> HIDE DEF p, n
<1>2. \A s \in Requests : IsTunnel(a[s]) => IsTunnel(b[s])
  BY DEF IsTunnel
<1>3. c.is = "tunnel" => /\ c.of \notin t /\ k[c.of] = <<>>
                         /\ \A i \in DOMAIN q : q[i].is = "tunnel" => q[i].of # c.of
  BY DEF TunnelsOK
<1>4. \A i \in DOMAIN p :
         /\ p[i].is = "reset" => b[p[i].of] = "reset"
         /\ p[i].is = "tunnel" => IsTunnel(b[p[i].of]) /\ p[i].of \notin t /\ k[p[i].of] = <<>>
  <2> SUFFICES ASSUME NEW i \in DOMAIN p
               PROVE  /\ p[i].is = "reset" => b[p[i].of] = "reset"
                      /\ p[i].is = "tunnel" => IsTunnel(b[p[i].of]) /\ p[i].of \notin t /\ k[p[i].of] = <<>>
    OBVIOUS
  <2>1. CASE i \in DOMAIN q
    BY <1>1, <1>2, <2>1 DEF TunnelsOK
  <2>2. CASE i = n
    BY <1>1, <1>3, <2>2
  <2> QED BY <1>1, <2>1, <2>2
<1>5. \A i, j \in DOMAIN p :
         p[i].is = "tunnel" /\ p[j].is = "tunnel" /\ p[i].of = p[j].of => i = j
  BY <1>1, <1>3 DEF TunnelsOK
<1> QED BY <1>2, <1>4, <1>5 DEF TunnelsOK, p

\* What a tunnel holds changes.
LEMMA SinkChanged ==
    ASSUME NEW q, NEW k, NEW t, NEW a, TunnelsOK(q, k, t, a), NEW s \in Requests, NEW items,
           IsQueue(items), Len(items) <= TunnelBacklog,
           items # <<>> => IsTunnel(a[s]) /\ \A i \in DOMAIN q : q[i].is = "tunnel" => q[i].of # s
    PROVE  TunnelsOK(q, [k EXCEPT ![s] = items], t, a)
<1> DEFINE m == [k EXCEPT ![s] = items]
<1>1. k = [x \in Requests |-> k[x]]
  BY DEF TunnelsOK
<1>2. m = [x \in Requests |-> m[x]] /\ m[s] = items /\ \A x \in Requests : x # s => m[x] = k[x]
  BY <1>1
<1>3. \A x : x # s /\ k[x] = <<>> => m[x] = <<>>
  BY <1>1
<1> HIDE DEF m
<1>4. \A x \in Requests : /\ IsQueue(m[x]) /\ Len(m[x]) <= TunnelBacklog
                          /\ x \in t \/ m[x] # <<>> => IsTunnel(a[x])
  BY <1>2 DEF TunnelsOK
<1>5. \A i \in DOMAIN q : q[i].is = "tunnel" => m[q[i].of] = <<>>
  <2> SUFFICES ASSUME NEW i \in DOMAIN q, q[i].is = "tunnel" PROVE m[q[i].of] = <<>>
    OBVIOUS
  <2>1. k[q[i].of] = <<>>
    BY DEF TunnelsOK
  <2>2. CASE q[i].of = s
    BY <1>2, <2>2
  <2> QED BY <1>3, <2>1, <2>2
<1> QED BY <1>2, <1>4, <1>5 DEF TunnelsOK, m

LEMMA TunnelSame ==
    ASSUME TunnelInv, channels'.commands = channels.commands, channels'.sinks = channels.sinks,
           tunnels' \subseteq tunnels, UNCHANGED app
    PROVE  TunnelInv'
BY DEF TunnelInv, TunnelsOK

\* Only a report changes the events; nothing else of the channels is touched.
LEMMA EventsAside ==
    ASSUME H3Inv, TunnelInv, NEW e, channels' = [channels EXCEPT !.events = e],
           tunnels' \subseteq tunnels, UNCHANGED app
    PROVE  TunnelInv'
<1>1. HasFields(channels)
  BY DEF H3Inv, ChannelsOK, HasFields
<1>2. channels'.commands = channels.commands /\ channels'.sinks = channels.sinks
  BY <1>1 DEF HasFields
<1> QED BY <1>2, TunnelSame

LEMMA ReadTunnels ==
    ASSUME H3Inv, TunnelInv, NEW s \in Requests \cup {encoder}, Read(s)
    PROVE  TunnelInv'
<1> DEFINE items == inbox[s]
           fin == s # encoder /\ peer[s].fin
           full == s \in tunnels /\ Len(channels.sinks[s]) >= TunnelBacklog
<1>1. /\ UNCHANGED app
      /\ CASE full -> UNCHANGED << worker, channels >>
           [] ~full /\ s = encoder -> OnEncoderBytes
           [] ~full /\ s # encoder /\ peer[s].reset = "unread" ->
                  /\ ForgetStream(s, session)
                  /\ channels' = [channels EXCEPT !.events = Report([is |-> "failed", of |-> s])]
                  /\ UNCHANGED << inserted, reset, status >>
           [] ~full /\ s # encoder /\ peer[s].reset # "unread" ->
                  CASE s \in tunnels -> OnTunnel(s, items, fin)
                    [] s \notin tunnels /\ Disowned(s) ->
                          /\ reset' = reset \cup {s}
                          /\ UNCHANGED << inserted, session, outbound, held, tunnels, channels, status >>
                    [] OTHER -> OnStreamBytes(s, items, fin)
  BY DEF Read, application
<1>2. HasFields(channels)
  BY DEF H3Inv, ChannelsOK, HasFields
<1>3. full <=> s \in tunnels /\ Len(channels.sinks[s]) >= TunnelBacklog
  OBVIOUS
<1> HIDE DEF items, fin, full
<1>4. ASSUME tunnels' \subseteq tunnels, channels' = channels \/ \E e : channels' = [channels EXCEPT !.events = e]
      PROVE  TunnelInv'
  BY <1>1, <1>4, EventsAside, TunnelSame
<1>5. CASE full
  BY <1>1, <1>4, <1>5 DEF worker
<1>6. CASE ~full /\ s = encoder
  <2>1. OnEncoderBytes
    BY <1>1, <1>6
  <2>2. UNCHANGED tunnels /\ (channels' = channels \/ \E e : channels' = [channels EXCEPT !.events = e])
    BY <2>1 DEF OnEncoderBytes
  <2> QED BY <1>4, <2>2
<1>7. CASE ~full /\ s # encoder /\ peer[s].reset = "unread"
  <2>1. /\ ForgetStream(s, session)
        /\ channels' = [channels EXCEPT !.events = Report([is |-> "failed", of |-> s])]
    BY <1>1, <1>7
  <2>2. tunnels' \subseteq tunnels
    BY <2>1 DEF ForgetStream
  <2> QED BY <1>4, <2>1, <2>2
<1>8. CASE ~full /\ s # encoder /\ peer[s].reset # "unread"
  <2>1. \/ s \in tunnels /\ OnTunnel(s, items, fin)
        \/ UNCHANGED << tunnels, channels >>
        \/ OnStreamBytes(s, items, fin)
    BY <1>1, <1>8
  <2>2. CASE s \in tunnels /\ OnTunnel(s, items, fin)
    <3> DEFINE old == channels.sinks[s]
               new == Append(old, [octets |-> items, fin |-> fin])
               sinks == [channels.sinks EXCEPT ![s] = new]
    <3>1. channels' = [channels EXCEPT !.sinks = sinks] /\ tunnels' \subseteq tunnels
      BY <2>2 DEF OnTunnel
    <3>2. /\ s \in Requests /\ IsTunnel(app[s]) /\ IsQueue(old) /\ Len(old) <= TunnelBacklog
          /\ \A i \in DOMAIN channels.commands :
               channels.commands[i].is = "tunnel" => channels.commands[i].of # s
      BY <2>2 DEF TunnelInv, TunnelsOK
    <3>3. IsQueue(new) /\ Len(new) = Len(old) + 1 /\ Len(old) \in Nat
      BY <3>2, IsQueueMoves
    <3>4. ~(Len(old) >= TunnelBacklog) /\ TunnelBacklog \in Nat
      BY <1>3, <1>8, <2>2, H3Assumption
    <3>5. Len(new) <= TunnelBacklog
      BY <3>3, <3>4
    <3> HIDE DEF new
    <3>6. TunnelsOK(channels.commands, sinks, tunnels, app)
      BY <3>2, <3>3, <3>5, SinkChanged DEF TunnelInv
    <3> HIDE DEF sinks
    <3>7. channels'.sinks = sinks /\ channels'.commands = channels.commands
      BY <1>2, <3>1, Fields DEF HasFields
    <3> QED BY <1>1, <3>1, <3>6, <3>7 DEF TunnelInv, TunnelsOK
  <2>3. CASE OnStreamBytes(s, items, fin)
    <3>1. /\ tunnels' = tunnels \/ tunnels' = tunnels \ {s}
          /\ channels' = channels \/ \E e : channels' = [channels EXCEPT !.events = e]
      BY <2>3 DEF OnStreamBytes, ResetStream, ForgetStream, Fail
    <3>2. tunnels' \subseteq tunnels
      BY <3>1
    <3> QED BY <1>4, <3>1, <3>2
  <2> QED BY <1>4, <2>1, <2>2, <2>3
<1> QED BY <1>5, <1>6, <1>7, <1>8

LEMMA ExecuteTunnels ==
    ASSUME H3Inv, TunnelInv, Execute
    PROVE  TunnelInv'
<1> PICK s : s = Command.of
  OBVIOUS
<1> DEFINE rest == Tail(channels.commands)
<1>1. channels.commands # <<>> /\ UNCHANGED app /\ channels.commands \in Seq(AnyCommand) /\ Command = Head(channels.commands)
  BY DEF Execute, application, H3Inv, ChannelsOK, Command
<1>2. /\ Taken = [commands |-> rest, events |-> channels.events, raw |-> channels.raw, sinks |-> channels.sinks]
      /\ s \in Requests /\ Command.is \in {"send", "tunnel", "reset"}
  BY <1>1, TakenFields
<1>3. \/ Command.is = "send" /\ Send
      \/ Command.is = "tunnel" /\ MakeTunnel
      \/ Command.is = "reset" /\ Reset
  BY <1>2 DEF Execute
<1>4. /\ TunnelsOK(rest, channels.sinks, tunnels, app)
      /\ Command.is = "tunnel" =>
           /\ IsTunnel(app[s]) /\ channels.sinks[s] = <<>>
           /\ \A i \in DOMAIN rest : rest[i].is = "tunnel" => rest[i].of # s
  BY <1>1, CommandTaken DEF TunnelInv
<1>5. Taken.commands = rest /\ Taken.sinks = channels.sinks /\ HasFields(Taken)
  BY <1>2 DEF HasFields
<1> HIDE DEF rest, AnyCommand
<1>6. CASE Command.is = "send" /\ Send
  <2>1. UNCHANGED tunnels /\ \E q, n : FlushStream(s, q, n, Taken)
    BY <1>6 DEF Send
  <2>2. channels'.commands = rest /\ channels'.sinks = channels.sinks
    <3>1. PICK q, n : FlushStream(s, q, n, Taken)
      BY <2>1
    <3>2. s \in Requests /\ HasFields(Taken)
      BY <1>2, <1>5
    <3>3. /\ channels'.commands = Taken.commands /\ channels'.raw = Taken.raw /\ channels'.sinks = Taken.sinks
          /\ channels'.events = Taken.events \/ channels'.events = Report([is |-> "failed", of |-> s])
      BY <3>1, <3>2, FlushQuiet
    <3> QED BY <1>5, <3>3
  <2> QED BY <1>1, <1>4, <2>1, <2>2 DEF TunnelInv
<1>7. CASE Command.is = "tunnel" /\ MakeTunnel
  <2> DEFINE handed == Handed(s)
             sinks == [channels.sinks EXCEPT ![s] = handed]
  <2>1. channels' = [Taken EXCEPT !.sinks[s] = @ \o handed] /\ tunnels' = tunnels \cup {s}
    BY <1>7 DEF MakeTunnel
  <2>2. IsQueue(handed) /\ Len(handed) <= 1
    <3>1. handed = <<>> \/ \E x : handed = <<x>>
      BY DEF Handed
    <3>2. ASSUME NEW x, handed = <<x>> PROVE IsQueue(handed) /\ Len(handed) <= 1
      <4>1. \A y : IsQueue(<<y>>) /\ Len(<<y>>) = 1
        BY DEF IsQueue, Range
      <4> QED BY <3>2, <4>1
    <3>3. IsQueue(<<>>) /\ Len(<<>>) = 0
      BY DEF IsQueue
    <3> QED BY <3>1, <3>2, <3>3
  <2> HIDE DEF handed
  <2>3. <<>> \o handed = handed
    BY <2>2 DEF IsQueue
  <2>4. channels'.commands = rest /\ channels'.sinks = sinks
    <3>1. Taken.sinks[s] \o handed = handed
      BY <1>4, <1>5, <1>7, <2>3
    <3>2. channels' = [Taken EXCEPT !.sinks = sinks]
      BY <1>5, <2>1, <3>1
    <3> HIDE DEF sinks
    <3> QED BY <1>5, <3>2, Fields DEF HasFields
  <2>5. TunnelBacklog \in Nat /\ TunnelBacklog >= 1 /\ Len(handed) \in Nat
    <3>1. TunnelBacklog \in Nat \ {0}
      BY H3Assumption
    <3> QED BY <2>2, <3>1 DEF IsQueue
  <2>6. TunnelsOK(rest, sinks, tunnels, app)
    BY <1>2, <1>4, <1>7, <2>2, <2>5, SinkChanged
  <2> HIDE DEF sinks
  <2>7. TunnelsOK(rest, sinks, tunnels \cup {s}, app)
    BY <1>2, <1>4, <1>7, <2>6 DEF TunnelsOK
  <2> QED BY <1>1, <2>1, <2>4, <2>7 DEF TunnelInv
<1>8. CASE Command.is = "reset" /\ Reset
  <2>1. channels' = Taken /\ tunnels' = tunnels \ {s}
    BY <1>8 DEF Reset
  <2>2. channels'.commands = rest /\ channels'.sinks = channels.sinks
    BY <1>5, <2>1
  <2> QED BY <1>1, <1>4, <2>1, <2>2 DEF TunnelInv, TunnelsOK
<1> QED BY <1>3, <1>6, <1>7, <1>8

\* The application asks for a tunnel when it has accepted it, and for no other then;
\* what it is handed is new to it.
LEMMA UseTunnels ==
    ASSUME H3Inv, HandedOnce, TunnelInv, Use \/ \E s \in Requests : ResetTunnel(s)
    PROVE  /\ TunnelInv' /\ \A s \in Requests : app[s] = "reset" => app'[s] = "reset"
<1>1. /\ app = [s \in Requests |-> app[s]] /\ HasFields(channels)
      /\ channels.events \in Seq(AnyEvent) /\ channels.commands \in Seq(AnyCommand)
      /\ OneEach(session.ready, channels.events, app)
      /\ \A i \in DOMAIN channels.commands : channels.commands[i].of \in Requests
  <2>1. Targets(channels.commands) \subseteq Requests
    BY DEF H3Inv, Lined, Touched
  <2> QED BY <2>1 DEF HandedOnce, H3Inv, ChannelsOK, AppOK, HasFields, Targets
<1>2. UNCHANGED tunnels
  BY DEF Use, Receive, Respond, Accept, Tunnel, Write, ReadTunnel, ResetTunnel, Idle, worker
<1> HIDE DEF AnyEvent, AnyCommand
<1>3. CASE Receive
  <2> DEFINE event == Head(channels.events)
             rest == Tail(channels.events)
  <2>1. /\ channels.events # <<>> /\ channels' = [channels EXCEPT !.events = rest]
        /\ \/ UNCHANGED app
           \/ event.is = "message" /\ \E what : app' = [app EXCEPT ![event.of] = what]
    <3>1. CASE Script[event.of][1] = "connect"
      BY <1>3, <3>1 DEF Receive, Becomes
    <3>2. CASE Script[event.of][1] # "connect"
      BY <1>3, <3>2 DEF Receive, Becomes
    <3> QED BY <3>1, <3>2
  <2>2. event.is = "message" => event.of \in Messages(channels.events)
    BY <1>1, <2>1, PoppedOneEach
  <2>3. channels'.sinks = channels.sinks /\ channels'.commands = channels.commands
    BY <1>1, <2>1, Fields DEF HasFields
  <2> HIDE DEF event, rest
  <2>4. event.is = "message" => app[event.of] = "none"
    BY <1>1, <2>2 DEF OneEach
  <2>5. \A s \in Requests : app[s] # "none" => app'[s] = app[s]
    BY <1>1, <2>1, <2>4
  <2>6. TunnelsOK(channels.commands, channels.sinks, tunnels, app')
    <3>1. \A s \in Requests : IsTunnel(app[s]) => app'[s] = app[s]
      BY <2>5 DEF IsTunnel
    <3> QED BY <1>1, <2>5, <3>1 DEF TunnelInv, TunnelsOK
  <2> QED BY <1>2, <2>3, <2>5, <2>6 DEF TunnelInv
<1>4. ASSUME NEW s \in Requests, Write(s)
      PROVE  TunnelInv' /\ \A x \in Requests : app[x] = "reset" => app'[x] = "reset"
  <2>1. UNCHANGED app /\ \E e : channels' = [channels EXCEPT !.raw = e]
    BY <1>4 DEF Write
  <2>2. channels'.sinks = channels.sinks /\ channels'.commands = channels.commands
    BY <1>1, <2>1 DEF HasFields
  <2> QED BY <1>2, <2>1, <2>2, TunnelSame
<1>5. ASSUME NEW s \in Requests, ReadTunnel(s)
      PROVE  TunnelInv' /\ \A x \in Requests : app[x] = "reset" => app'[x] = "reset"
  <2> DEFINE old == channels.sinks[s]
             sinks == [channels.sinks EXCEPT ![s] = Tail(old)]
  <2>1. UNCHANGED app /\ channels' = [channels EXCEPT !.sinks = sinks] /\ old # <<>>
    BY <1>5 DEF ReadTunnel
  <2>2. /\ IsTunnel(app[s]) /\ IsQueue(old) /\ Len(old) <= TunnelBacklog
        /\ \A i \in DOMAIN channels.commands :
             channels.commands[i].is = "tunnel" => channels.commands[i].of # s
    BY <2>1 DEF TunnelInv, TunnelsOK
  <2>3. IsQueue(Tail(old)) /\ Len(Tail(old)) = Len(old) - 1 /\ Len(old) \in Nat /\ TunnelBacklog \in Nat
    BY <2>1, <2>2, IsQueueMoves, H3Assumption
  <2>4. Len(Tail(old)) <= TunnelBacklog
    BY <2>2, <2>3
  <2>5. TunnelsOK(channels.commands, sinks, tunnels, app)
    BY <2>2, <2>3, <2>4, SinkChanged DEF TunnelInv
  <2> HIDE DEF sinks
  <2>6. channels'.sinks = sinks /\ channels'.commands = channels.commands
    BY <1>1, <2>1, Fields DEF HasFields
  <2> QED BY <1>2, <2>1, <2>5, <2>6 DEF TunnelInv
<1>6. ASSUME NEW s \in Requests, NEW c \in AnyCommand, NEW what,
             channels' = [channels EXCEPT !.commands = Append(@, c)], app' = [app EXCEPT ![s] = what],
             c.of = s, IsTunnel(app[s]) => what = "reset",
             c.is = "reset" => what = "reset", c.is = "tunnel" => ~IsTunnel(app[s]) /\ IsTunnel(what)
      PROVE  TunnelInv' /\ \A x \in Requests : app[x] = "reset" => app'[x] = "reset"
  <2>1. app'[s] = what /\ \A x \in Requests : x # s => app'[x] = app[x]
    BY <1>1, <1>6
  <2>2. channels'.sinks = channels.sinks /\ channels'.commands = Append(channels.commands, c)
    BY <1>1, <1>6, Fields DEF HasFields
  <2>3. /\ \A x \in Requests : IsTunnel(app[x]) => app'[x] = app[x] \/ app'[x] = "reset"
        /\ \A x \in Requests : app[x] = "reset" => app'[x] = "reset"
    BY <1>6, <2>1 DEF IsTunnel
  <2>4. TunnelsOK(Append(channels.commands, c), channels.sinks, tunnels, app')
    <3> DEFINE b == app'
    <3>1. /\ \A x \in Requests : IsTunnel(app[x]) => b[x] = app[x] \/ b[x] = "reset"
          /\ \A x \in Requests : app[x] = "reset" => b[x] = "reset"
          /\ b[s] = what
      BY <2>1, <2>3
    <3> HIDE DEF b
    <3>2. TunnelsOK(Append(channels.commands, c), channels.sinks, tunnels, b)
      BY <1>1, <1>6, <3>1, CommandAsked DEF TunnelInv
    <3> QED BY <3>2 DEF b
  <2> QED BY <1>2, <2>2, <2>3, <2>4 DEF TunnelInv
<1>7. ASSUME NEW s \in Requests, Respond(s) \/ Accept(s) \/ Tunnel(s) \/ ResetTunnel(s)
      PROVE  TunnelInv' /\ \A x \in Requests : app[x] = "reset" => app'[x] = "reset"
  <2>1. CASE Respond(s)
    <3> DEFINE c == [is |-> "send", of |-> s, octets |-> Answer]
    <3>1. c \in AnyCommand /\ c.of = s /\ c.is = "send"
      BY H3Assumption DEF AnyCommand
    <3>2. channels' = [channels EXCEPT !.commands = Append(@, c)] /\ app' = [app EXCEPT ![s] = "over"]
          /\ ~IsTunnel(app[s])
      BY <2>1 DEF Respond, Enqueue, Becomes, IsTunnel
    <3> HIDE DEF c
    <3> QED BY <1>6, <3>1, <3>2
  <2>2. CASE Accept(s)
    <3> DEFINE c == [is |-> "send", of |-> s, octets |-> <<0>>]
    <3>1. c \in AnyCommand /\ c.of = s /\ c.is = "send"
      <4>1. <<0>> \in Seq(0 .. 255)
        OBVIOUS
      <4> QED BY <4>1 DEF AnyCommand
    <3>2. channels' = [channels EXCEPT !.commands = Append(@, c)] /\ app' = [app EXCEPT ![s] = "accepted"]
          /\ ~IsTunnel(app[s])
      BY <2>2 DEF Accept, Enqueue, Becomes, IsTunnel
    <3> HIDE DEF c
    <3> QED BY <1>6, <3>1, <3>2
  <2>3. CASE Tunnel(s)
    <3> DEFINE c == [is |-> "tunnel", of |-> s]
    <3>1. c \in AnyCommand /\ c.of = s /\ c.is = "tunnel"
      BY DEF AnyCommand
    <3>2. channels' = [channels EXCEPT !.commands = Append(@, c)] /\ app' = [app EXCEPT ![s] = "tunnel"]
          /\ ~IsTunnel(app[s]) /\ IsTunnel("tunnel")
      BY <2>3 DEF Tunnel, Enqueue, Becomes, IsTunnel
    <3> HIDE DEF c
    <3> QED BY <1>6, <3>1, <3>2
  <2>4. CASE ResetTunnel(s)
    <3> DEFINE c == [is |-> "reset", of |-> s]
    <3>1. c \in AnyCommand /\ c.of = s /\ c.is = "reset"
      BY DEF AnyCommand
    <3>2. channels' = [channels EXCEPT !.commands = Append(@, c)] /\ app' = [app EXCEPT ![s] = "reset"]
      BY <2>4 DEF ResetTunnel, Enqueue, Becomes
    <3> HIDE DEF c
    <3> QED BY <1>6, <3>1, <3>2
  <2> QED BY <1>7, <2>1, <2>2, <2>3, <2>4
<1> QED BY <1>3, <1>4, <1>5, <1>7 DEF Use

LEMMA TunnelStep ==
    ASSUME H3Inv, HandedOnce, PeerInv, QueuesInv, TunnelInv, Next
    PROVE  TunnelInv'
<1>1. HasFields(channels) /\ RawOK(channels.raw)
  BY DEF H3Inv, ChannelsOK, HasFields
<1>2. ASSUME UNCHANGED << tunnels, app >>, channels' = channels \/ \E e : channels' = [channels EXCEPT !.events = e]
      PROVE  TunnelInv'
  BY <1>2, EventsAside, TunnelSame
<1>3. CASE ReadsDone \/ FlushDone \/ Expire
  <2>1. UNCHANGED << tunnels, app >> /\ \E e : channels' = [channels EXCEPT !.events = e]
    BY <1>3 DEF ReadsDone, FlushDone, EndHalf, Expire, Fail, application
  <2> QED BY <1>2, <2>1
<1>4. CASE \/ Wake \/ CommandsDone \/ RawDone \/ Leave \/ Insert
           \/ \E s \in Requests : Arrive(s) \/ Finish(s) \/ Grant(s) \/ GiveUp(s) \/ Stop(s)
  <2>1. UNCHANGED << tunnels, app, channels >>
    BY <1>4 DEF Wake, CommandsDone, RawDone, Leave, Insert, Arrive, Finish, Grant, GiveUp, Stop, Outside,
                application, worker
  <2> QED BY <1>2, <2>1
<1>5. ASSUME NEW s \in Requests, Flush(s) PROVE TunnelInv'
  <2>1. UNCHANGED << tunnels, app >> /\ FlushStream(s, outbound, held, channels)
    BY <1>5 DEF Flush, application
  <2>2. channels'.commands = channels.commands /\ channels'.sinks = channels.sinks
    BY <1>1, <2>1, FlushQuiet
  <2> QED BY <2>1, <2>2, TunnelSame
<1>6. CASE TakeRaw
  <2> DEFINE w == Head(channels.raw)
             after == [channels EXCEPT !.raw = Tail(@)]
             queued == Queued(w.of, w.octets, w.fin)
             count == held + Len(w.octets)
  <2>1. UNCHANGED << tunnels, app >> /\ channels.raw # <<>> /\ FlushStream(w.of, queued, count, after)
    BY <1>6 DEF TakeRaw, application
  <2>2. w.of \in Requests
    BY <1>1, <2>1, RawQueue
  <2>3. HasFields(after) /\ after.commands = channels.commands /\ after.sinks = channels.sinks
    <3> DEFINE e == Tail(channels.raw)
    <3>1. after = [channels EXCEPT !.raw = e]
      OBVIOUS
    <3> HIDE DEF after, e
    <3>2. after = [commands |-> channels.commands, events |-> channels.events, raw |-> e, sinks |-> channels.sinks]
      BY <1>1, <3>1 DEF HasFields
    <3> QED BY <3>2 DEF HasFields
  <2> HIDE DEF queued, count, after, w
  <2>4. /\ channels'.commands = after.commands /\ channels'.raw = after.raw /\ channels'.sinks = after.sinks
        /\ channels'.events = after.events \/ channels'.events = Report([is |-> "failed", of |-> w.of])
    BY <2>1, <2>2, <2>3, FlushQuiet
  <2> QED BY <2>1, <2>3, <2>4, TunnelSame
<1>7. ASSUME NEW s \in Requests \cup {encoder}, Read(s) PROVE TunnelInv'
  BY <1>7, ReadTunnels
<1>8. CASE Execute
  BY <1>8, ExecuteTunnels
<1>9. CASE Use \/ \E s \in Requests : ResetTunnel(s)
  BY <1>9, UseTunnels
<1> QED BY <1>3, <1>4, <1>5, <1>6, <1>7, <1>8, <1>9 DEF Next, Pass, Progress

-----------------------------------------------------------------------------
(* The count of the octets that wait.                                      *)

\* How many of them wait on a stream.
Owing(queues, s) == IF s \in DOMAIN queues THEN Len(queues[s].octets) ELSE 0

LEMMA WaitingFinite ==
    ASSUME NEW q, QueuesOK(q)
    PROVE  IsFiniteSet(Waiting(q)) /\ Cardinality(Waiting(q)) \in Nat
<1> DEFINE Of(s) == {s} \X DOMAIN q[s].octets
           parts == {Of(s) : s \in DOMAIN q}
           f == [s \in DOMAIN q |-> Of(s)]
<1>1. IsFiniteSet(DOMAIN q)
  BY RequestsAreCounted, FS_Subset DEF QueuesOK
<1>2. f \in Surjection(DOMAIN q, parts)
  BY DEF Surjection
<1>3. IsFiniteSet(parts)
  BY <1>1, <1>2, FS_Surjection
<1>4. \A s \in DOMAIN q : IsFiniteSet(Of(s))
  <2> SUFFICES ASSUME NEW s \in DOMAIN q PROVE IsFiniteSet(Of(s))
    OBVIOUS
  <2>1. q[s].octets \in Seq(0 .. 255)
    BY DEF QueuesOK, Queue
  <2>2. DOMAIN q[s].octets = 1 .. Len(q[s].octets) /\ Len(q[s].octets) \in Nat
    BY <2>1
  <2>3. IsFiniteSet(1 .. Len(q[s].octets))
    BY <2>2, FS_Interval
  <2>4. IsFiniteSet({s})
    BY FS_Singleton
  <2> QED BY <2>2, <2>3, <2>4, FS_Product
<1>5. \A T \in parts : IsFiniteSet(T)
  BY <1>4
<1>6. Waiting(q) = UNION parts
  BY DEF Waiting
<1> HIDE DEF parts
<1> QED BY <1>3, <1>5, <1>6, FS_UNION, FS_CardinalityType

\* The octets that wait are a stream's and the others'.
LEMMA WaitingSplit ==
    ASSUME NEW q, QueuesOK(q), NEW s
    PROVE  /\ QueuesOK(Without(q, s)) /\ Owing(q, s) \in Nat
           /\ Cardinality(Waiting(q)) = Cardinality(Waiting(Without(q, s))) + Owing(q, s)
<1> DEFINE rest == Without(q, s)
           own == {s} \X DOMAIN q[s].octets
<1>1. /\ DOMAIN rest = DOMAIN q \ {s} /\ \A x \in DOMAIN rest : rest[x] = q[x]
  BY DEF Without
<1>2. QueuesOK(rest)
  BY <1>1 DEF QueuesOK
<1> HIDE DEF rest
<1>3. CASE s \in DOMAIN q
  <2>1. q[s].octets \in Seq(0 .. 255)
    BY <1>3 DEF QueuesOK, Queue
  <2>2. DOMAIN q[s].octets = 1 .. Len(q[s].octets) /\ Len(q[s].octets) \in Nat /\ Owing(q, s) = Len(q[s].octets)
    BY <1>3, <2>1 DEF Owing
  <2>3. IsFiniteSet(DOMAIN q[s].octets) /\ Cardinality(DOMAIN q[s].octets) = Len(q[s].octets)
    <3>1. IsFiniteSet(1 .. Len(q[s].octets)) /\ Cardinality(1 .. Len(q[s].octets)) = Len(q[s].octets)
      BY <2>2, FS_Interval
    <3> QED BY <2>2, <3>1
  <2>4. IsFiniteSet(own) /\ Cardinality(own) = Len(q[s].octets)
    <3>1. IsFiniteSet({s}) /\ Cardinality({s}) = 1
      BY FS_Singleton
    <3>2. IsFiniteSet(own) /\ Cardinality(own) = 1 * Cardinality(DOMAIN q[s].octets)
      BY <2>3, <3>1, FS_Product
    <3> QED BY <2>2, <2>3, <3>2
  <2>5. Waiting(q) = Waiting(rest) \cup own
    BY <1>1, <1>3 DEF Waiting
  <2>6. Waiting(rest) \cap own = {}
    BY <1>1 DEF Waiting
  <2> HIDE DEF own
  <2>7. IsFiniteSet(Waiting(rest)) /\ Cardinality(Waiting(rest)) \in Nat
    BY <1>2, WaitingFinite
  <2>8. Cardinality(Waiting(q)) = Cardinality(Waiting(rest)) + Cardinality(own) - Cardinality({})
    BY <2>4, <2>5, <2>6, <2>7, FS_Union
  <2>9. Cardinality({}) = 0
    BY FS_EmptySet
  <2> QED BY <1>2, <2>2, <2>4, <2>7, <2>8, <2>9 DEF rest
<1>4. CASE s \notin DOMAIN q
  <2>1. Waiting(q) = Waiting(rest) /\ Owing(q, s) = 0
    BY <1>1, <1>4 DEF Waiting, Owing
  <2>2. Cardinality(Waiting(q)) \in Nat
    BY WaitingFinite
  <2> QED BY <1>2, <2>1, <2>2 DEF rest
<1> QED BY <1>3, <1>4

LEMMA WaitingKept ==
    ASSUME NEW q, QueuesOK(q), NEW s, NEW x, QueuesOK(Kept(q, s, x))
    PROVE  /\ Len(x.octets) \in Nat
           /\ Cardinality(Waiting(Kept(q, s, x))) = Cardinality(Waiting(q)) - Owing(q, s) + Len(x.octets)
<1> DEFINE p == Kept(q, s, x)
<1>1. /\ DOMAIN p = DOMAIN q \cup {s} /\ p[s] = x
      /\ \A y \in DOMAIN q : y # s => p[y] = q[y]
  BY DEF Kept
<1> HIDE DEF p
<1>2. Waiting(Without(p, s)) = Waiting(Without(q, s))
  BY <1>1 DEF Waiting, Without
<1>3. Owing(p, s) = Len(x.octets)
  BY <1>1 DEF Owing
<1>4. /\ Owing(p, s) \in Nat
      /\ Cardinality(Waiting(p)) = Cardinality(Waiting(Without(p, s))) + Owing(p, s)
  BY WaitingSplit DEF p
<1>5. /\ Owing(q, s) \in Nat
      /\ Cardinality(Waiting(q)) = Cardinality(Waiting(Without(q, s))) + Owing(q, s)
  BY WaitingSplit
<1>6. Cardinality(Waiting(Without(q, s))) \in Nat
  BY WaitingSplit, WaitingFinite
<1> QED BY <1>2, <1>3, <1>4, <1>5, <1>6 DEF p

LEMMA QueuedCount ==
    ASSUME QueuesOK(outbound), NEW s \in Requests, NEW octets \in Seq(0 .. 255), NEW fin \in BOOLEAN
    PROVE  Cardinality(Waiting(Queued(s, octets, fin))) = Cardinality(Waiting(outbound)) + Len(octets)
<1> DEFINE entry == IF s \in DOMAIN outbound THEN outbound[s] ELSE [octets |-> <<>>, fin |-> FALSE]
           new == [octets |-> entry.octets \o octets, fin |-> entry.fin \/ fin]
<1>1. Queued(s, octets, fin) = Kept(outbound, s, new)
  BY DEF Queued
<1>2. entry.octets \in Seq(0 .. 255) /\ Len(entry.octets) = Owing(outbound, s)
  <2>1. CASE s \in DOMAIN outbound
    BY <2>1 DEF QueuesOK, Queue, Owing
  <2>2. CASE s \notin DOMAIN outbound
    <3>1. entry.octets = <<>> /\ Owing(outbound, s) = 0
      BY <2>2 DEF Owing
    <3>2. <<>> \in Seq(0 .. 255) /\ Len(<<>>) = 0
      OBVIOUS
    <3> QED BY <3>1, <3>2
  <2> QED BY <2>1, <2>2
<1> HIDE DEF entry
<1>3. new.octets = entry.octets \o octets
  OBVIOUS
<1> HIDE DEF new
<1>4. Len(new.octets) = Owing(outbound, s) + Len(octets) /\ Len(octets) \in Nat /\ Owing(outbound, s) \in Nat
  <2>1. \A e \in Seq(0 .. 255) : Len(e \o octets) = Len(e) + Len(octets) /\ Len(e) \in Nat /\ Len(octets) \in Nat
    OBVIOUS
  <2> QED BY <1>2, <1>3, <2>1
<1>5. QueuesOK(Kept(outbound, s, new))
  <2>1. QueuesOK(Queued(s, octets, fin))
    BY QueuedOK
  <2> QED BY <1>1, <2>1
<1>6. Cardinality(Waiting(Kept(outbound, s, new)))
        = Cardinality(Waiting(outbound)) - Owing(outbound, s) + Len(new.octets)
  BY <1>5, WaitingKept
<1>7. Cardinality(Waiting(outbound)) \in Nat
  BY WaitingFinite
<1> QED BY <1>1, <1>4, <1>6, <1>7

\* What a stream is flushed of leaves the count with it.
LEMMA FlushedCount ==
    ASSUME peer \in [Requests -> AnyPeer], NEW streams, QueuesOK(streams), NEW s \in DOMAIN streams,
           NEW after, FlushStream(s, streams, Cardinality(Waiting(streams)), after)
    PROVE  held' = Cardinality(Waiting(outbound'))
<1> DEFINE count == Cardinality(Waiting(streams))
           old == streams[s].octets
           Rest(n) == SubSeq(old, n + 1, Len(old))
           New(n) == [streams[s] EXCEPT !.octets = Rest(n)]
<1>1. PICK n \in 0 .. Len(old) :
        /\ held' = count - n
        /\ \/ outbound' = Kept(streams, s, New(n))
           \/ outbound' = Without(streams, s) /\ n = Len(old)
  BY Flushed
<1>2. QueuesOK(outbound')
  BY Flushed
<1>3. /\ old \in Seq(0 .. 255) /\ Owing(streams, s) = Len(old) /\ count \in Nat
      /\ streams[s] = [octets |-> old, fin |-> streams[s].fin]
  BY WaitingFinite DEF QueuesOK, Queue, Owing
<1>4. CASE outbound' = Kept(streams, s, New(n))
  <2>1. New(n).octets = Rest(n)
    BY <1>3
  <2> HIDE DEF New
  <2>2. QueuesOK(Kept(streams, s, New(n)))
    BY <1>2, <1>4
  <2>3. Cardinality(Waiting(Kept(streams, s, New(n)))) = count - Owing(streams, s) + Len(New(n).octets)
    BY <2>2, WaitingKept
  <2>4. Len(Rest(n)) = Len(old) - n /\ Len(old) \in Nat /\ n \in Nat
    BY <1>3, RestOf
  <2> HIDE DEF count, Rest, old
  <2> QED BY <1>1, <1>3, <1>4, <2>1, <2>3, <2>4
<1>5. CASE outbound' = Without(streams, s) /\ n = Len(old)
  <2>1. count = Cardinality(Waiting(Without(streams, s))) + Owing(streams, s)
    BY WaitingSplit
  <2>2. Cardinality(Waiting(Without(streams, s))) \in Nat /\ Len(old) \in Nat
    BY <1>3, WaitingSplit, WaitingFinite
  <2> HIDE DEF count, old
  <2> QED BY <1>1, <1>3, <1>5, <2>1, <2>2
<1> QED BY <1>1, <1>4, <1>5

CountInv == Unreset => held = Cardinality(Waiting(outbound))

\* What the worker counts, while no stream was reset by the application, is every
\* octet that waits: a step adds to the count what it adds to a buffer, and takes off
\* what it sends, drops or forgets.
LEMMA CountSame ==
    ASSUME CountInv, UNCHANGED << outbound, held >>, Unreset' => Unreset
    PROVE  CountInv'
BY DEF CountInv

\* A reset is asked for by the application, and only then done.
LEMMA ResetIsKnown ==
    ASSUME H3Inv, TunnelInv, channels.commands # <<>>, Command.is = "reset"
    PROVE  ~Unreset
<1>1. channels.commands \in Seq(AnyCommand) /\ Command = Head(channels.commands)
  BY DEF H3Inv, ChannelsOK, Command
<1>2. app[Command.of] = "reset"
  BY <1>1, CommandTaken DEF TunnelInv
<1>3. Command.of \in Requests
  BY TakenFields
<1> QED BY <1>2, <1>3 DEF Unreset

LEMMA ForgetCount ==
    ASSUME QueuesOK(outbound), held = Cardinality(Waiting(outbound)), NEW s, NEW now, ForgetStream(s, now)
    PROVE  held' = Cardinality(Waiting(outbound'))
<1>1. /\ QueuesOK(Without(outbound, s)) /\ Owing(outbound, s) \in Nat
      /\ Cardinality(Waiting(outbound)) = Cardinality(Waiting(Without(outbound, s))) + Owing(outbound, s)
  BY WaitingSplit
<1>2. Cardinality(Waiting(Without(outbound, s))) \in Nat
  BY <1>1, WaitingFinite
<1>3. outbound' = Without(outbound, s) /\ held' = held - Owing(outbound, s)
  <2>1. held \in Nat
    BY <1>1, <1>2
  <2> QED BY <2>1 DEF ForgetStream, Owing
<1> QED BY <1>1, <1>2, <1>3

LEMMA ReadCount ==
    ASSUME H3Inv, QueuesInv, CountInv, NEW s \in Requests \cup {encoder}, Read(s)
    PROVE  CountInv'
<1> DEFINE items == inbox[s]
           fin == s # encoder /\ peer[s].fin
           full == s \in tunnels /\ Len(channels.sinks[s]) >= TunnelBacklog
<1>1. /\ UNCHANGED app
      /\ CASE full -> UNCHANGED << worker, channels >>
           [] ~full /\ s = encoder -> OnEncoderBytes
           [] ~full /\ s # encoder /\ peer[s].reset = "unread" ->
                  /\ ForgetStream(s, session)
                  /\ channels' = [channels EXCEPT !.events = Report([is |-> "failed", of |-> s])]
                  /\ UNCHANGED << inserted, reset, status >>
           [] ~full /\ s # encoder /\ peer[s].reset # "unread" ->
                  CASE s \in tunnels -> OnTunnel(s, items, fin)
                    [] s \notin tunnels /\ Disowned(s) ->
                          /\ reset' = reset \cup {s}
                          /\ UNCHANGED << inserted, session, outbound, held, tunnels, channels, status >>
                    [] OTHER -> OnStreamBytes(s, items, fin)
  BY DEF Read, application
<1>2. Unreset' => Unreset
  BY <1>1 DEF Unreset
<1> HIDE DEF items, fin, full
<1>3. UNCHANGED << outbound, held >> \/ \E now : ForgetStream(s, now)
  <2>1. CASE full
    BY <1>1, <2>1 DEF worker
  <2>2. CASE ~full /\ s = encoder
    BY <1>1, <2>2 DEF OnEncoderBytes
  <2>3. CASE ~full /\ s # encoder /\ peer[s].reset = "unread"
    BY <1>1, <2>3
  <2>4. CASE ~full /\ s # encoder /\ peer[s].reset # "unread"
    <3>1. \/ OnTunnel(s, items, fin)
          \/ UNCHANGED << outbound, held >>
          \/ OnStreamBytes(s, items, fin)
      BY <1>1, <2>4
    <3>2. OnTunnel(s, items, fin) => UNCHANGED << outbound, held >>
      BY DEF OnTunnel
    <3>3. OnStreamBytes(s, items, fin) => UNCHANGED << outbound, held >> \/ \E now : ForgetStream(s, now)
      BY DEF OnStreamBytes, ResetStream
    <3> QED BY <3>1, <3>2, <3>3
  <2> QED BY <2>1, <2>2, <2>3, <2>4
<1>4. CASE UNCHANGED << outbound, held >>
  BY <1>2, <1>4, CountSame
<1>5. CASE \E now : ForgetStream(s, now)
  BY <1>2, <1>5, ForgetCount DEF CountInv, QueuesInv
<1> QED BY <1>3, <1>4, <1>5

LEMMA CountStep ==
    ASSUME H3Inv, HandedOnce, PeerInv, QueuesInv, TunnelInv, CountInv, Next
    PROVE  CountInv'
<1>1. QueuesOK(outbound) /\ peer \in [Requests -> AnyPeer] /\ RawOK(channels.raw)
  BY DEF QueuesInv, PeerInv, H3Inv, ChannelsOK
<1>2. ASSUME UNCHANGED << outbound, held, app >> PROVE CountInv'
  BY <1>2 DEF CountInv, Unreset
<1> HIDE DEF AnyPeer
<1>3. ASSUME UNCHANGED app, NEW s \in Requests, NEW octets \in Seq(0 .. 255), NEW fin \in BOOLEAN, NEW after,
             FlushStream(s, Queued(s, octets, fin), held + Len(octets), after)
      PROVE  CountInv'
  <2> DEFINE queued == Queued(s, octets, fin)
  <2>1. QueuesOK(queued) /\ s \in DOMAIN queued
    BY <1>1, QueuedOK
  <2>2. Cardinality(Waiting(queued)) = Cardinality(Waiting(outbound)) + Len(octets)
    BY <1>1, QueuedCount
  <2> HIDE DEF queued
  <2>3. Unreset' => Unreset
    BY <1>3 DEF Unreset
  <2>4. FlushStream(s, queued, held + Len(octets), after)
    BY <1>3 DEF queued
  <2>5. ASSUME held = Cardinality(Waiting(outbound)) PROVE held' = Cardinality(Waiting(outbound'))
    <3>1. FlushStream(s, queued, Cardinality(Waiting(queued)), after)
      BY <2>2, <2>4, <2>5
    <3> QED BY <1>1, <2>1, <3>1, FlushedCount
  <2> QED BY <2>3, <2>5 DEF CountInv
<1>4. ASSUME NEW s \in Requests, Flush(s) PROVE CountInv'
  <2>1. UNCHANGED app /\ FlushStream(s, outbound, held, channels) /\ s \in todo /\ phase = "flush"
    BY <1>4 DEF Flush, application
  <2>2. s \in DOMAIN outbound
    BY <2>1 DEF QueuesInv
  <2>3. Unreset' => Unreset
    BY <2>1 DEF Unreset
  <2>4. ASSUME held = Cardinality(Waiting(outbound)) PROVE held' = Cardinality(Waiting(outbound'))
    <3>1. FlushStream(s, outbound, Cardinality(Waiting(outbound)), channels)
      BY <2>1, <2>4
    <3> QED BY <1>1, <2>2, <3>1, FlushedCount
  <2> QED BY <2>3, <2>4 DEF CountInv
<1>5. CASE TakeRaw
  <2> DEFINE w == Head(channels.raw)
             after == [channels EXCEPT !.raw = Tail(@)]
  <2>1. UNCHANGED app /\ channels.raw # <<>>
        /\ FlushStream(w.of, Queued(w.of, w.octets, w.fin), held + Len(w.octets), after)
    BY <1>5 DEF TakeRaw, application
  <2>2. w.of \in Requests /\ w = channels.raw[1] /\ 1 \in DOMAIN channels.raw
    <3> DEFINE S == Range(channels.raw)
    <3>1. channels.raw \in Seq(S)
      BY <1>1 DEF RawOK
    <3> HIDE DEF S
    <3>2. w = channels.raw[1] /\ 1 \in DOMAIN channels.raw
      BY <2>1, <3>1, Popped
    <3> QED BY <1>1, <3>2 DEF RawOK
  <2>3. w.octets \in Seq(0 .. 255) /\ w.fin \in BOOLEAN
    BY <2>2 DEF QueuesInv
  <2> HIDE DEF w, after
  <2> QED BY <1>3, <2>1, <2>2, <2>3
<1>6. CASE Execute
  <2> PICK s : s = Command.of
    OBVIOUS
  <2>1. channels.commands # <<>> /\ UNCHANGED app
    BY <1>6 DEF Execute, application
  <2>2. /\ s \in Requests /\ Command.is \in {"send", "tunnel", "reset"}
        /\ Command.is = "send" => Command.octets \in Seq(0 .. 255)
    BY <2>1, TakenFields
  <2>3. \/ Command.is = "send" /\ Send
        \/ Command.is = "tunnel" /\ MakeTunnel
        \/ Command.is = "reset" /\ Reset
    BY <1>6, <2>2 DEF Execute
  <2>4. CASE Command.is = "send" /\ Send
    <3>1. FlushStream(s, Queued(s, Command.octets, ~State(s).raw), held + Len(Command.octets), Taken)
      BY <2>4 DEF Send
    <3> QED BY <1>3, <2>1, <2>2, <2>4, <3>1
  <2>5. CASE Command.is = "tunnel" /\ MakeTunnel
    BY <1>2, <2>1, <2>5 DEF MakeTunnel
  <2>6. CASE Command.is = "reset" /\ Reset
    <3>1. ~Unreset
      BY <2>1, <2>6, ResetIsKnown
    <3> QED BY <2>1, <3>1 DEF CountInv, Unreset
  <2> QED BY <2>3, <2>4, <2>5, <2>6
<1>7. ASSUME NEW s \in Requests \cup {encoder}, Read(s) PROVE CountInv'
  BY <1>7, ReadCount
<1>8. CASE Use \/ \E s \in Requests : ResetTunnel(s)
  <2>1. UNCHANGED << outbound, held >>
    BY <1>8 DEF Use, Receive, Respond, Accept, Tunnel, Write, ReadTunnel, ResetTunnel, Idle, worker
  <2>2. Unreset' => Unreset
    BY <1>8, UseTunnels DEF Unreset
  <2> QED BY <2>1, <2>2, CountSame
<1>9. CASE \/ ReadsDone \/ FlushDone \/ Expire \/ Wake \/ CommandsDone \/ RawDone \/ Leave \/ Insert
           \/ \E s \in Requests : Arrive(s) \/ Finish(s) \/ Grant(s) \/ GiveUp(s) \/ Stop(s)
  BY <1>2, <1>9 DEF ReadsDone, FlushDone, EndHalf, Expire, Wake, CommandsDone, RawDone, Leave, Insert, Arrive,
                    Finish, Grant, GiveUp, Stop, Outside, application, worker
<1> QED BY <1>4, <1>5, <1>6, <1>7, <1>8, <1>9 DEF Next, Pass, Progress

-----------------------------------------------------------------------------

WorkerInv == BasisInv /\ OnceInv /\ PlainInv /\ TunnelInv /\ CountInv

\* What was lined up, typed, handed over once and counted stays so.
LEMMA WorkerHolds == Spec => []WorkerInv
<1>1. Init => PlainInv /\ TunnelInv /\ CountInv
  <2> SUFFICES ASSUME Init PROVE PlainInv /\ TunnelInv /\ CountInv
    OBVIOUS
  <2>1. PlainInv
    <3>1. Len(Script) \in Nat
      BY RequestsAreCounted, H3Assumption
    <3>2. /\ inserted = FALSE /\ status = "open" /\ reset = {} /\ session.highest = 0
          /\ session.goaway = 0 /\ session.leaving = "no"
      BY DEF Init, None
    <3>3. session.highest <= Len(Script) /\ session.goaway \in 0 .. Len(Script) + 1
      BY <3>1, <3>2
    <3> QED BY <3>2, <3>3 DEF PlainInv, PlainOK
  <2>2. TunnelInv
    <3>1. /\ channels.commands = <<>> /\ channels.sinks = [s \in Requests |-> <<>>] /\ tunnels = {}
          /\ DOMAIN <<>> = {} /\ TunnelBacklog \in Nat
      BY H3Assumption DEF Init
    <3>2. IsQueue(<<>>) /\ Len(<<>>) = 0
      BY DEF IsQueue
    <3> QED BY <3>1, <3>2 DEF TunnelInv, TunnelsOK
  <2>3. CountInv
    <3>1. Waiting(<<>>) = {} /\ outbound = <<>> /\ held = 0
      BY DEF Init, Waiting
    <3> QED BY <3>1, FS_EmptySet DEF CountInv
  <2> QED BY <2>1, <2>2, <2>3
<1>2. BasisInv /\ OnceInv /\ PlainInv /\ TunnelInv /\ CountInv /\ [Next]_vars
        => PlainInv' /\ TunnelInv' /\ CountInv'
  <2> SUFFICES ASSUME BasisInv, OnceInv, PlainInv, TunnelInv, CountInv, [Next]_vars
               PROVE  PlainInv' /\ TunnelInv' /\ CountInv'
    OBVIOUS
  <2>1. CASE UNCHANGED vars
    BY <2>1 DEF vars, PlainInv, PlainOK, TunnelInv, TunnelsOK, CountInv, Unreset
  <2>2. CASE Next
    BY <2>2, PlainHolds, TunnelStep, CountStep DEF BasisInv, OnceInv
  <2> QED BY <2>1, <2>2
<1> QED BY <1>1, <1>2, OnceHolds, PTL DEF Spec, WorkerInv

\* outbound_bytes counts every octet that waits to be sent on any stream, and no
\* other, whatever is queued, flushed, stopped or forgotten, as long as no stream was
\* reset by the application; and what the channels hold keeps to their bounds.
THEOREM CountedHolds == Spec => []Counted
<1>1. WorkerInv => Counted
  <2> SUFFICES ASSUME WorkerInv PROVE Counted
    OBVIOUS
  <2>1. H3Inv /\ PlainInv /\ TunnelInv /\ CountInv
    BY DEF WorkerInv, BasisInv
  <2>2. /\ DOMAIN session.streams \subseteq Requests /\ session.ready \in Seq(Requests)
        /\ Len(channels.commands) <= Backlog /\ Len(channels.events) <= Backlog
    BY <2>1 DEF H3Inv, SessionOK, ChannelsOK
  <2>3. Range(session.ready) \subseteq Requests
    BY <2>2 DEF Range
  <2>4. TypeOK
    BY <2>1, <2>2, <2>3 DEF TypeOK, PlainInv, PlainOK, TunnelInv, TunnelsOK
  <2> QED BY <2>1, <2>4 DEF Counted, CountInv
<1> QED BY <1>1, WorkerHolds, PTL

=============================================================================
