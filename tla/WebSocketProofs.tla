--------------------------- MODULE WebSocketProofs --------------------------
(***************************************************************************)
(* What holds of two WebSocketConnections whatever they send, at any size  *)
(* of message and transport: each sends one close and nothing after it,    *)
(* and what is being reassembled keeps to its limits.                      *)
(***************************************************************************)
EXTENDS WebSocket, SequenceTheorems, TLAPS

-----------------------------------------------------------------------------
(* The invariant.                                                          *)

AnyFrame ==
    [op : {"text", "binary", "continuation", "ping", "pong", "close",
           "upgrade", "malformed", "switching", "refusal"},
     fin : BOOLEAN, of : Nat, size : Nat, valid : BOOLEAN]

\* What an application sends: closing it leaves to close.
Spoken == {f \in AnyFrame : f.op # "close"}
ClosesByClose == Plans \subseteq [Ends -> Seq(Spoken)]

AnyFragments ==
    [op : {"none", "text", "binary", "continuation", "ping", "pong", "close",
           "upgrade", "malformed", "switching", "refusal"},
     of : Nat, size : Nat, count : Nat]

AnyEnd ==
    [pc : {"start", "accepting", "confirming", "refused", "ready", "writing",
           "receiving", "lingering", "shut"},
     buffer : Seq(AnyFrame), fragments : AnyFragments, closing : BOOLEAN, out : AnyFrame,
     next : {"ready", "receiving", "lingering", "confirming", "refused"},
     told : {"nothing", "close", "failure"}]

\* Once an end has begun to close it writes the close it has in hand, and then only
\* lingers, or has told its application to stop.
Closes(end) ==
    /\ end.closing => \/ end.pc \in {"writing", "lingering", "shut"}
                      \/ end.pc = "ready" /\ end.told # "nothing"
    /\ end.pc = "writing" =>
        IF end.closing
        THEN end.out.op = "close" /\ (end.next = "lingering" \/ (end.next = "ready" /\ end.told = "close"))
        ELSE end.out.op # "close"

Bounded(end) ==
    end.told = "nothing" => end.fragments.size <= MaxMessage /\ end.fragments.count <= MaxFragments

EndOK(end) == end \in AnyEnd /\ Closes(end) /\ Bounded(end)

\* No close is among the frames until the end has written the one it closes with,
\* and then it is the last.
NoClose(frames) == \A i \in DOMAIN frames : frames[i].op # "close"
Past(end) == end.closing /\ end.pc # "writing"
LastClose(frames) == \A i \in DOMAIN frames : frames[i].op = "close" => i = Len(frames)

WSInv ==
    /\ ends = [e \in Ends |-> ends[e]] /\ \A e \in Ends : EndOK(ends[e])
    /\ plan \in [Ends -> Seq(Spoken)]
    /\ pipes \in [Ends -> Seq(AnyFrame)] /\ \A e \in Ends : Len(pipes[e]) <= Room
    /\ written \in [Ends -> Seq(AnyFrame)]
    /\ \A e \in Ends : LastClose(written[e]) /\ (Past(ends[e]) \/ NoClose(written[e]))

\* A step of one end that writes nothing: it stays past its close if it was.
LEMMA QuietStep ==
    ASSUME WSInv, NEW e \in Ends, NEW end, EndOK(end), Set(e, end), UNCHANGED written,
           Past(ends[e]) => Past(end),
           plan' \in [Ends -> Seq(Spoken)], pipes' \in [Ends -> Seq(AnyFrame)],
           \A x \in Ends : Len(pipes'[x]) <= Room
    PROVE  WSInv'
<1>1. ends' = [x \in Ends |-> IF x = e THEN end ELSE ends[x]]
  BY DEF WSInv, Set
<1>2. \A x \in Ends : ends'[x] = IF x = e THEN end ELSE ends[x]
  BY <1>1
<1>3. ends' = [x \in Ends |-> ends'[x]]
  BY <1>1
<1>4. \A x \in Ends : EndOK(ends'[x]) /\ (Past(ends[x]) => Past(ends'[x]))
  BY <1>2 DEF WSInv
<1>5. \A x \in Ends : LastClose(written'[x]) /\ (Past(ends'[x]) \/ NoClose(written'[x]))
  BY <1>4 DEF WSInv
<1>6. written' \in [Ends -> Seq(AnyFrame)]
  BY DEF WSInv
<1> QED BY <1>3, <1>4, <1>5, <1>6 DEF WSInv

\* The same of a step that leaves plans and pipes alone too.
LEMMA InnerStep ==
    ASSUME WSInv, NEW e \in Ends, NEW end, EndOK(end), Set(e, end),
           UNCHANGED << plan, pipes, written >>, Past(ends[e]) => Past(end)
    PROVE  WSInv'
<1>1. /\ plan' \in [Ends -> Seq(Spoken)] /\ pipes' \in [Ends -> Seq(AnyFrame)]
      /\ \A x \in Ends : Len(pipes'[x]) <= Room
  BY DEF WSInv
<1> QED BY <1>1, QuietStep

-----------------------------------------------------------------------------
(* What becomes of an end.                                                 *)

\* To read a frame is to have it no more.
LEMMA ReadFrame ==
    ASSUME NEW end, EndOK(end), end.buffer # <<>>
    PROVE  LET rest == [end EXCEPT !.buffer = Tail(@)] IN
           /\ EndOK(rest) /\ Head(end.buffer) \in AnyFrame
           /\ rest.pc = end.pc /\ rest.closing = end.closing /\ rest.told = end.told
           /\ rest.fragments = end.fragments
<1> DEFINE buffer == Tail(end.buffer)
           rest == [end EXCEPT !.buffer = buffer]
<1>1. end \in AnyEnd /\ end.buffer \in Seq(AnyFrame)
  BY DEF EndOK, AnyEnd
<1>2. buffer \in Seq(AnyFrame) /\ Head(end.buffer) \in AnyFrame
  BY <1>1
<1> HIDE DEF buffer
<1>3. rest \in AnyEnd
  BY <1>1, <1>2 DEF AnyEnd
<1>4. /\ rest.pc = end.pc /\ rest.closing = end.closing /\ rest.told = end.told
      /\ rest.fragments = end.fragments /\ rest.out = end.out /\ rest.next = end.next
  BY <1>1 DEF AnyEnd
<1>5. [end EXCEPT !.buffer = Tail(@)] = rest
  BY DEF buffer
<1> HIDE DEF rest
<1>6. EndOK(rest)
  BY <1>3, <1>4 DEF EndOK, Closes, Bounded
<1> QED BY <1>2, <1>4, <1>5, <1>6

LEMMA WritesFrame ==
    ASSUME NEW end, EndOK(end), ~end.closing, NEW frame \in AnyFrame, frame.op # "close",
           NEW next \in {"ready", "receiving", "confirming", "refused"}
    PROVE  EndOK(Writes(end, frame, next))
<1> DEFINE new == Writes(end, frame, next)
<1>1. end \in AnyEnd
  BY DEF EndOK
<1>2. new \in AnyEnd
  BY <1>1 DEF Writes, AnyEnd
<1>3. /\ new.pc = "writing" /\ new.out = frame /\ new.next = next /\ new.closing = end.closing
      /\ new.told = end.told /\ new.fragments = end.fragments
  BY <1>1 DEF Writes, AnyEnd
<1> HIDE DEF new
<1>4. EndOK(new)
  BY <1>2, <1>3 DEF EndOK, Closes, Bounded
<1> QED BY <1>4 DEF new

LEMMA WritesClose ==
    ASSUME NEW end, EndOK(end)
    PROVE  EndOK(Writes([end EXCEPT !.closing = TRUE], Close, "lingering"))
<1> DEFINE new == Writes([end EXCEPT !.closing = TRUE], Close, "lingering")
<1>1. end \in AnyEnd /\ Close \in AnyFrame /\ Close.op = "close"
  BY DEF EndOK, AnyFrame, Close, Frame
<1>2. new \in AnyEnd
  BY <1>1 DEF Writes, AnyEnd
<1>3. /\ new.pc = "writing" /\ new.out = Close /\ new.next = "lingering" /\ new.closing
      /\ new.told = end.told /\ new.fragments = end.fragments
  BY <1>1 DEF Writes, AnyEnd
<1> HIDE DEF new
<1>4. EndOK(new)
  BY <1>1, <1>2, <1>3 DEF EndOK, Closes, Bounded
<1> QED BY <1>4 DEF new

\* An end that is told to stop may be closing or not.
LEMMA ToldEnd ==
    ASSUME NEW end, EndOK(end), NEW what \in {"close", "failure"}
    PROVE  EndOK(Told(end, what)) /\ (end.closing => Past(Told(end, what)))
<1> DEFINE new == Told(end, what)
<1>1. end \in AnyEnd
  BY DEF EndOK
<1>2. new \in AnyEnd
  BY <1>1 DEF Told, AnyEnd
<1>3. new.pc = "ready" /\ new.told = what /\ new.closing = end.closing
  BY <1>1 DEF Told, AnyEnd
<1> HIDE DEF new
<1>4. EndOK(new) /\ (end.closing => Past(new))
  BY <1>2, <1>3 DEF EndOK, Closes, Bounded, Past
<1> QED BY <1>4 DEF new

\* An end that goes where nothing is written.
LEMMA MovedEnd ==
    ASSUME NEW end, EndOK(end),
           NEW pc \in {"refused", "ready", "receiving", "lingering", "shut"},
           end.closing => pc \in {"lingering", "shut"} \/ (pc = "ready" /\ end.told # "nothing")
    PROVE  EndOK([end EXCEPT !.pc = pc]) /\ (end.closing => Past([end EXCEPT !.pc = pc]))
<1> DEFINE new == [end EXCEPT !.pc = pc]
<1>1. end \in AnyEnd
  BY DEF EndOK
<1>2. new \in AnyEnd
  BY <1>1 DEF AnyEnd
<1>3. new.pc = pc /\ new.told = end.told /\ new.closing = end.closing /\ new.fragments = end.fragments
  BY <1>1 DEF AnyEnd
<1> HIDE DEF new
<1>4. EndOK(new) /\ (end.closing => Past(new))
  BY <1>2, <1>3 DEF EndOK, Closes, Bounded, Past
<1> QED BY <1>4 DEF new
-----------------------------------------------------------------------------
(* The steps.                                                              *)

LEMMA HandshakeKeeps ==
    ASSUME WSInv, (\E kind \in {"upgrade", "malformed"} : Ask(kind)) \/ Answer \/ Confirm
    PROVE  WSInv'
<1>1. ASSUME NEW kind \in {"upgrade", "malformed", "switching", "refusal"}
      PROVE  Handshake(kind) \in AnyFrame /\ Handshake(kind).op # "close"
  BY <1>1 DEF Handshake, Frame, AnyFrame
<1>2. ASSUME NEW kind \in {"upgrade", "malformed"}, Ask(kind) PROVE WSInv'
  <2> DEFINE end == ends["client"]
             new == Writes(end, Handshake(kind), "confirming")
  <2>1. EndOK(end) /\ end.pc = "start" /\ "client" \in Ends
    BY <1>2 DEF Ask, At, WSInv, Ends
  <2>2. ~end.closing
    BY <2>1 DEF EndOK, Closes
  <2>3. EndOK(new)
    BY <1>1, <2>1, <2>2, WritesFrame
  <2>4. Set("client", new) /\ UNCHANGED << plan, pipes, written >>
    BY <1>2 DEF Ask
  <2>5. ~Past(end)
    BY <2>2 DEF Past
  <2> HIDE DEF new
  <2> QED BY <2>1, <2>3, <2>4, <2>5, InnerStep
<1>3. CASE Answer
  <2> DEFINE end == ends["server"]
             read == [end EXCEPT !.buffer = Tail(@)]
             new == IF Head(end.buffer).op = "upgrade" THEN Writes(read, Handshake("switching"), "ready")
                    ELSE Writes(read, Handshake("refusal"), "refused")
  <2>1. EndOK(end) /\ end.pc = "accepting" /\ end.buffer # <<>> /\ "server" \in Ends
    BY <1>3 DEF Answer, At, WSInv, Ends
  <2>2. EndOK(read) /\ read.closing = end.closing
    BY <2>1, ReadFrame
  <2>3. ~end.closing
    BY <2>1 DEF EndOK, Closes
  <2>4. Set("server", new) /\ UNCHANGED << plan, pipes, written >>
    BY <1>3 DEF Answer
  <2>5. ~Past(end)
    BY <2>3 DEF Past
  <2> HIDE DEF read
  <2>6. EndOK(Writes(read, Handshake("switching"), "ready")) /\ EndOK(Writes(read, Handshake("refusal"), "refused"))
    BY <1>1, <2>2, <2>3, WritesFrame
  <2>7. EndOK(new)
    BY <2>6
  <2> HIDE DEF new
  <2> QED BY <2>1, <2>4, <2>5, <2>7, InnerStep
<1>4. CASE Confirm
  <2> DEFINE end == ends["client"]
             read == [end EXCEPT !.buffer = Tail(@)]
             new == IF Head(end.buffer).op = "switching" THEN [read EXCEPT !.pc = "ready"]
                    ELSE [end EXCEPT !.pc = "refused"]
  <2>1. EndOK(end) /\ end.pc = "confirming" /\ end.buffer # <<>> /\ "client" \in Ends
    BY <1>4 DEF Confirm, At, WSInv, Ends
  <2>2. EndOK(read) /\ read.closing = end.closing
    BY <2>1, ReadFrame
  <2>3. ~end.closing
    BY <2>1 DEF EndOK, Closes
  <2>4. Set("client", new) /\ UNCHANGED << plan, pipes, written >>
    BY <1>4 DEF Confirm, Resumed
  <2>5. ~Past(end)
    BY <2>3 DEF Past
  <2> HIDE DEF read
  <2>6. EndOK([read EXCEPT !.pc = "ready"]) /\ EndOK([end EXCEPT !.pc = "refused"])
    BY <2>1, <2>2, <2>3, MovedEnd
  <2>7. EndOK(new)
    BY <2>6
  <2> HIDE DEF new
  <2> QED BY <2>1, <2>4, <2>5, <2>7, InnerStep
<1> QED BY <1>2, <1>3, <1>4

\* An end that is told nothing and is ready has not begun to close.
LEMMA ReadyEnds ==
    ASSUME WSInv, NEW e \in Ends
    PROVE  /\ EndOK(ends[e])
           /\ ends[e].pc \in {"receiving", "accepting", "confirming", "start"} => ~ends[e].closing
           /\ ends[e].pc = "ready" /\ ends[e].told = "nothing" => ~ends[e].closing
           /\ ~ends[e].closing => ~Past(ends[e])
<1>1. EndOK(ends[e])
  BY DEF WSInv
<1> QED BY <1>1 DEF EndOK, Closes, Past

LEMMA SendKeeps ==
    ASSUME WSInv, NEW e \in Ends, Send(e)
    PROVE  WSInv'
<1> DEFINE frame == Head(plan[e])
           new == Writes(ends[e], frame, "ready")
<1>1. /\ ends[e].pc = "ready" /\ ends[e].told = "nothing" /\ plan[e] # <<>>
      /\ Set(e, new) /\ plan' = [plan EXCEPT ![e] = Tail(plan[e])] /\ UNCHANGED << pipes, written >>
  BY DEF Send, At
<1>2. plan[e] \in Seq(Spoken)
  BY DEF WSInv
<1>3. frame \in Spoken /\ Tail(plan[e]) \in Seq(Spoken)
  BY <1>1, <1>2
<1>4. frame \in AnyFrame /\ frame.op # "close"
  BY <1>3 DEF Spoken
<1>5. plan' \in [Ends -> Seq(Spoken)]
  BY <1>1, <1>3 DEF WSInv
<1>6. pipes' \in [Ends -> Seq(AnyFrame)] /\ \A x \in Ends : Len(pipes'[x]) <= Room
  BY <1>1 DEF WSInv
<1> HIDE DEF frame
<1>7. EndOK(new) /\ ~Past(ends[e])
  BY <1>1, <1>4, ReadyEnds, WritesFrame
<1> HIDE DEF new
<1> QED BY <1>1, <1>5, <1>6, <1>7, QuietStep

\* close, and receive_message that is given text which is none.
LEMMA BeginsClose ==
    ASSUME NEW end, EndOK(end)
    PROVE  LET new == IF end.closing THEN [end EXCEPT !.pc = "shut"]
                      ELSE Writes([end EXCEPT !.closing = TRUE], Close, "lingering")
           IN  EndOK(new) /\ (end.closing => Past(new))
<1>1. EndOK([end EXCEPT !.pc = "shut"]) /\ (end.closing => Past([end EXCEPT !.pc = "shut"]))
  BY MovedEnd
<1>2. EndOK(Writes([end EXCEPT !.closing = TRUE], Close, "lingering"))
  BY WritesClose
<1> QED BY <1>1, <1>2

LEMMA StartCloseKeeps ==
    ASSUME WSInv, NEW e \in Ends, StartClose(e)
    PROVE  WSInv'
<1> DEFINE end == ends[e]
           new == IF end.closing THEN [end EXCEPT !.pc = "shut"]
                  ELSE Writes([end EXCEPT !.closing = TRUE], Close, "lingering")
<1>1. Set(e, new) /\ UNCHANGED << plan, pipes, written >>
  BY DEF StartClose
<1>2. EndOK(end) /\ (~end.closing => ~Past(end))
  BY ReadyEnds
<1> HIDE DEF end
<1>3. EndOK(new) /\ (end.closing => Past(new))
  BY <1>2, BeginsClose
<1> HIDE DEF new
<1> QED BY <1>1, <1>2, <1>3, InnerStep DEF end

\* The one step that writes: what is written after no close is a close at most.
LEMMA WriteKeeps ==
    ASSUME WSInv, NEW e \in Ends, Write(e)
    PROVE  WSInv'
<1> DEFINE end == ends[e]
           o == Other(e)
           done == [end EXCEPT !.pc = end.next]
<1>1. EndOK(end) /\ end.pc = "writing" /\ o \in Ends /\ o # e
  BY ReadyEnds DEF Write, At, Other, Ends
<1>2. /\ end.next \in {"ready", "receiving", "lingering", "confirming", "refused"} /\ end.out \in AnyFrame
      /\ end.closing => end.out.op = "close"
                        /\ (end.next = "lingering" \/ (end.next = "ready" /\ end.told = "close"))
      /\ ~end.closing => end.out.op # "close"
  BY <1>1 DEF EndOK, AnyEnd, Closes
<1>3. CASE /\ Len(pipes[o]) < Room
           /\ pipes' = [pipes EXCEPT ![o] = Append(pipes[o], end.out)]
           /\ written' = [written EXCEPT ![e] = Append(written[e], end.out)]
           /\ Set(e, done) /\ UNCHANGED plan
  <2>1. EndOK(done) /\ (end.closing => Past(done))
    <3>1. end \in AnyEnd
      BY <1>1 DEF EndOK
    <3>2. done \in AnyEnd
      BY <1>2, <3>1 DEF AnyEnd
    <3>3. done.pc = end.next /\ done.told = end.told /\ done.closing = end.closing /\ done.fragments = end.fragments
      BY <3>1 DEF AnyEnd
    <3>4. Bounded(end)
      BY <1>1 DEF EndOK
    <3> HIDE DEF done
    <3> QED BY <1>2, <3>2, <3>3, <3>4 DEF EndOK, Closes, Bounded, Past
  <2>2. ends' = [x \in Ends |-> IF x = e THEN done ELSE ends[x]]
    BY <1>3 DEF WSInv, Set
  <2> HIDE DEF done
  <2>3. ends' = [x \in Ends |-> ends'[x]] /\ \A x \in Ends : EndOK(ends'[x])
    BY <2>1, <2>2 DEF WSInv
  <2>4. plan' \in [Ends -> Seq(Spoken)]
    BY <1>3 DEF WSInv
  <2>5. pipes' \in [Ends -> Seq(AnyFrame)] /\ \A x \in Ends : Len(pipes'[x]) <= Room
    <3>1. pipes[o] \in Seq(AnyFrame) /\ Room \in Nat
      BY <1>1, WebSocketAssumption DEF WSInv
    <3>2. Append(pipes[o], end.out) \in Seq(AnyFrame) /\ Len(Append(pipes[o], end.out)) <= Room
      BY <1>2, <1>3, <3>1
    <3>3. pipes' = [x \in Ends |-> IF x = o THEN Append(pipes[o], end.out) ELSE pipes[x]]
      BY <1>3 DEF WSInv
    <3> QED BY <3>2, <3>3 DEF WSInv
  <2> DEFINE w == written[e]
             v == Append(w, end.out)
  <2>6. w \in Seq(AnyFrame) /\ LastClose(w) /\ NoClose(w)
    <3>1. ~Past(end)
      BY <1>1 DEF Past
    <3> QED BY <3>1 DEF WSInv
  <2>7. /\ v \in Seq(AnyFrame) /\ Len(v) = Len(w) + 1 /\ Len(w) \in Nat /\ DOMAIN v = 1 .. Len(v)
        /\ v[Len(v)] = end.out /\ \A i \in DOMAIN v : i # Len(v) => i \in DOMAIN w /\ v[i] = w[i]
    <3> HIDE DEF w
    <3> QED BY <1>2, <2>6
  <2>8. written' = [x \in Ends |-> IF x = e THEN v ELSE written[x]]
    BY <1>3 DEF WSInv
  <2> HIDE DEF w, v
  <2>9. LastClose(v) /\ (~end.closing => NoClose(v))
    <3>1. \A i \in DOMAIN v : v[i].op = "close" => i = Len(v)
      BY <2>6, <2>7 DEF NoClose
    <3>2. ASSUME ~end.closing, NEW i \in DOMAIN v PROVE v[i].op # "close"
      BY <1>2, <2>6, <2>7, <3>2 DEF NoClose
    <3> QED BY <3>1, <3>2 DEF NoClose, LastClose
  <2>10. \A x \in Ends : LastClose(written'[x]) /\ (Past(ends'[x]) \/ NoClose(written'[x]))
    <3>1. LastClose(written'[e]) /\ (Past(ends'[e]) \/ NoClose(written'[e]))
      BY <2>1, <2>2, <2>8, <2>9
    <3>2. ASSUME NEW x \in Ends, x # e
          PROVE  LastClose(written'[x]) /\ (Past(ends'[x]) \/ NoClose(written'[x]))
      BY <2>2, <2>8, <3>2 DEF WSInv
    <3> QED BY <3>1, <3>2
  <2>11. written' \in [Ends -> Seq(AnyFrame)]
    BY <2>7, <2>8 DEF WSInv
  <2> QED BY <2>3, <2>4, <2>5, <2>10, <2>11 DEF WSInv
<1>4. CASE /\ Set(e, IF end.next = "lingering" THEN [end EXCEPT !.pc = "shut"] ELSE Told(end, "failure"))
           /\ UNCHANGED << plan, pipes, written >>
  <2> DEFINE new == IF end.next = "lingering" THEN [end EXCEPT !.pc = "shut"] ELSE Told(end, "failure")
  <2>1. /\ EndOK([end EXCEPT !.pc = "shut"])
        /\ EndOK(Told(end, "failure"))
    BY <1>1, MovedEnd, ToldEnd
  <2>2. EndOK(new)
    BY <2>1
  <2>3. ~Past(end)
    BY <1>1 DEF Past
  <2>4. Set(e, new) /\ UNCHANGED << plan, pipes, written >>
    BY <1>4
  <2> HIDE DEF new
  <2> QED BY <2>2, <2>3, <2>4, InnerStep
<1> QED BY <1>3, <1>4 DEF Write

\* An end whose buffer is what was read into it.
LEMMA FillKeeps ==
    ASSUME WSInv, NEW e \in Ends, Fill(e)
    PROVE  WSInv'
<1>1. PICK n \in 1 .. Len(pipes[e]) :
        /\ Set(e, [ends[e] EXCEPT !.buffer = SubSeq(pipes[e], 1, n)])
        /\ pipes' = [pipes EXCEPT ![e] = SubSeq(pipes[e], n + 1, Len(pipes[e]))]
  BY DEF Fill
<1> DEFINE p == pipes[e]
           buffer == SubSeq(p, 1, n)
           rest == SubSeq(p, n + 1, Len(p))
           new == [ends[e] EXCEPT !.buffer = buffer]
<1>2. p \in Seq(AnyFrame) /\ Len(p) <= Room /\ n \in 1 .. Len(p) /\ Room \in Nat
  BY WebSocketAssumption DEF WSInv
<1>3. buffer \in Seq(AnyFrame) /\ rest \in Seq(AnyFrame) /\ Len(rest) <= Room
  <2> HIDE DEF p
  <2>1. Len(p) \in Nat
    BY <1>2
  <2>2. /\ \A i \in 1 .. n : p[i] \in AnyFrame
        /\ \A i \in n + 1 .. Len(p) : p[i] \in AnyFrame
    BY <1>2
  <2>3. buffer \in Seq(AnyFrame)
    BY <1>2, <2>1, <2>2, SubSeqProperties
  <2>4. rest \in Seq(AnyFrame) /\ Len(rest) = Len(p) - n
    BY <1>2, <2>1, <2>2, SubSeqProperties
  <2> QED BY ONLY <1>2, <2>1, <2>3, <2>4
<1>4. pipes' = [x \in Ends |-> IF x = e THEN rest ELSE pipes[x]]
  BY <1>1 DEF WSInv
<1> HIDE DEF rest
<1>5. pipes' \in [Ends -> Seq(AnyFrame)] /\ \A x \in Ends : Len(pipes'[x]) <= Room
  BY <1>3, <1>4 DEF WSInv
<1>6. plan' \in [Ends -> Seq(Spoken)] /\ UNCHANGED written
  BY DEF WSInv, Fill
<1>7. Set(e, new)
  BY <1>1
<1> HIDE DEF buffer
<1>8. ends[e] \in AnyEnd
  BY ReadyEnds DEF EndOK
<1>9. /\ new \in AnyEnd /\ new.pc = ends[e].pc /\ new.closing = ends[e].closing /\ new.told = ends[e].told
      /\ new.fragments = ends[e].fragments /\ new.out = ends[e].out /\ new.next = ends[e].next
  BY <1>3, <1>8 DEF AnyEnd
<1> HIDE DEF new
<1>10. EndOK(new) /\ (Past(ends[e]) => Past(new))
  BY <1>9, ReadyEnds DEF EndOK, Closes, Bounded, Past
<1> QED BY <1>5, <1>6, <1>7, <1>10, QuietStep

LEMMA ReceiveKeeps ==
    ASSUME WSInv, NEW e \in Ends, Receive(e)
    PROVE  WSInv'
<1> DEFINE new == [ends[e] EXCEPT !.pc = "receiving"]
<1>1. /\ ends[e].pc = "ready" /\ ends[e].told = "nothing" /\ Set(e, new)
      /\ UNCHANGED << plan, pipes, written >>
  BY DEF Receive, At
<1>2. EndOK(ends[e]) /\ ~ends[e].closing /\ ~Past(ends[e])
  BY <1>1, ReadyEnds
<1>3. EndOK(new)
  BY <1>2, MovedEnd
<1> HIDE DEF new
<1> QED BY <1>1, <1>2, <1>3, InnerStep

\* close that waits for its echo, and a deadline that passes.
LEMMA WaitKeeps ==
    ASSUME WSInv, NEW e \in Ends, Linger(e) \/ Expire(e)
    PROVE  WSInv'
<1>1. CASE Linger(e)
  <2> DEFINE end == [ends[e] EXCEPT !.buffer = Tail(@)]
             new == Lingered(end, Head(ends[e].buffer))
  <2>1. /\ ends[e].pc = "lingering" /\ ends[e].buffer # <<>> /\ Set(e, new)
        /\ UNCHANGED << plan, pipes, written >>
    BY <1>1 DEF Linger, At
  <2>2. EndOK(end) /\ end.pc = "lingering" /\ end.closing = ends[e].closing
    BY <2>1, ReadyEnds, ReadFrame
  <2> HIDE DEF end
  <2>3. EndOK([end EXCEPT !.pc = "shut"]) /\ (end.closing => Past([end EXCEPT !.pc = "shut"]))
    BY <2>2, MovedEnd
  <2>4. end.closing => Past(end)
    BY <2>2 DEF Past
  <2>5. EndOK(new) /\ (end.closing => Past(new))
    BY <2>2, <2>3, <2>4 DEF Lingered
  <2>6. Past(ends[e]) => Past(new)
    BY <2>2, <2>5 DEF Past
  <2> HIDE DEF new
  <2> QED BY <2>1, <2>5, <2>6, InnerStep
<1>2. CASE Expire(e)
  <2> DEFINE end == ends[e]
             new == Expired(end)
  <2>1. Reads(e) /\ Set(e, new) /\ UNCHANGED << plan, pipes, written >>
    BY <1>2 DEF Expire
  <2>2. /\ EndOK(end) /\ end.pc \in {"accepting", "confirming", "receiving", "lingering"}
        /\ end.pc # "lingering" => ~end.closing
    BY <2>1, ReadyEnds DEF Reads
  <2> HIDE DEF end
  <2>3. EndOK([end EXCEPT !.pc = "shut"]) /\ (end.closing => Past([end EXCEPT !.pc = "shut"]))
    BY <2>2, MovedEnd
  <2>4. EndOK(Told(end, "failure")) /\ (end.closing => Past(Told(end, "failure")))
    BY <2>2, ToldEnd
  <2>5. ~end.closing => EndOK([end EXCEPT !.pc = "refused"])
    BY <2>2, MovedEnd
  <2>6. CASE end.pc = "lingering"
    <3>1. new = [end EXCEPT !.pc = "shut"]
      BY <2>6 DEF Expired
    <3> QED BY <2>1, <2>3, <3>1, InnerStep DEF end, Past
  <2>7. CASE end.pc = "receiving"
    <3>1. new = Told(end, "failure")
      BY <2>7 DEF Expired
    <3> QED BY <2>1, <2>4, <3>1, InnerStep DEF end, Past
  <2>8. CASE end.pc \in {"accepting", "confirming"}
    <3>1. new = [end EXCEPT !.pc = "refused"]
      BY <2>8 DEF Expired
    <3>2. ~Past(end)
      BY <2>2, <2>8 DEF Past
    <3> QED BY <2>1, <2>2, <2>5, <2>8, <3>1, <3>2, InnerStep DEF end
  <2> QED BY <2>2, <2>6, <2>7, <2>8
<1> QED BY <1>1, <1>2

\* What is kept of a message in fragments, and what is given up with it.
LEMMA FragmentsSet ==
    ASSUME NEW end, EndOK(end), NEW f \in AnyFragments, f.size <= MaxMessage, f.count <= MaxFragments
    PROVE  LET new == [end EXCEPT !.fragments = f] IN
           /\ EndOK(new) /\ new.pc = end.pc /\ new.closing = end.closing /\ new.told = end.told
<1> DEFINE new == [end EXCEPT !.fragments = f]
<1>1. end \in AnyEnd
  BY DEF EndOK
<1>2. new \in AnyEnd
  BY <1>1 DEF AnyEnd
<1>3. /\ new.pc = end.pc /\ new.told = end.told /\ new.closing = end.closing /\ new.fragments = f
      /\ new.out = end.out /\ new.next = end.next
  BY <1>1 DEF AnyEnd
<1> HIDE DEF new
<1>4. EndOK(new)
  BY <1>2, <1>3 DEF EndOK, Closes, Bounded
<1> QED BY <1>3, <1>4 DEF new

LEMMA JoinedFragments ==
    ASSUME NEW f \in AnyFragments, NEW frame \in AnyFrame
    PROVE  /\ Joined(f, frame) \in AnyFragments
           /\ ~frame.fin /\ ~Misused(f, frame) =>
                Joined(f, frame).size <= MaxMessage /\ Joined(f, frame).count <= MaxFragments
<1> DEFINE j == Joined(f, frame)
<1>1. /\ f.size \in Nat /\ f.count \in Nat /\ frame.size \in Nat /\ frame.of \in Nat
      /\ frame.op \in {"text", "binary", "continuation", "ping", "pong", "close",
                       "upgrade", "malformed", "switching", "refusal"}
  BY DEF AnyFragments, AnyFrame
<1>2. j \in AnyFragments
  <2>1. CASE frame.op = "continuation"
    <3> DEFINE size == f.size + frame.size
               count == f.count + 1
    <3>1. size \in Nat /\ count \in Nat
      BY <1>1
    <3>2. j = [f EXCEPT !.size = size, !.count = count]
      BY <2>1 DEF Joined
    <3> HIDE DEF size, count, j
    <3> QED BY <3>1, <3>2 DEF AnyFragments
  <2>2. CASE frame.op # "continuation"
    <3>1. j = [op |-> frame.op, of |-> frame.of, size |-> frame.size, count |-> 1]
      BY <2>2 DEF Joined
    <3> HIDE DEF j
    <3> QED BY <1>1, <3>1 DEF AnyFragments
  <2> QED BY <2>1, <2>2
<1>3. j.size \in Nat /\ j.count \in Nat /\ {MaxMessage, MaxFragments} \subseteq Nat
  BY <1>2, WebSocketAssumption DEF AnyFragments
<1>4. ~frame.fin /\ ~Misused(f, frame) => ~(j.size > MaxMessage) /\ ~(j.count > MaxFragments)
  BY DEF Misused
<1> HIDE DEF j
<1>5. ~frame.fin /\ ~Misused(f, frame) => j.size <= MaxMessage /\ j.count <= MaxFragments
  BY <1>3, <1>4
<1> QED BY <1>2, <1>5 DEF j

LEMMA NoFragmentsFit ==
    NoFragments \in AnyFragments /\ NoFragments.size <= MaxMessage /\ NoFragments.count <= MaxFragments
<1>1. NoFragments \in AnyFragments /\ NoFragments.size = 0 /\ NoFragments.count = 0
  BY DEF NoFragments, AnyFragments
<1>2. MaxMessage \in Nat /\ MaxFragments \in Nat
  BY WebSocketAssumption
<1> QED BY <1>1, <1>2

\* A data frame moves the end that reads it: it has not begun to close, and what it
\* keeps of the message stays within its limits.
LEMMA DataKeeps ==
    ASSUME WSInv, NEW e \in Ends, ~Past(ends[e]), NEW end, EndOK(end), end.pc = "receiving", ~end.closing,
           NEW frame \in AnyFrame, OnData(e, end, frame), UNCHANGED << plan, pipes, written >>
    PROVE  WSInv'
<1> DEFINE f == Joined(end.fragments, frame)
<1>1. end.fragments \in AnyFragments
  BY DEF EndOK, AnyEnd
<1>2. f \in AnyFragments /\ (~frame.fin /\ ~Misused(end.fragments, frame) => f.size <= MaxMessage /\ f.count <= MaxFragments)
  BY <1>1, JoinedFragments
<1>3. EndOK(Told(end, "failure"))
  BY ToldEnd
<1>4. ~frame.fin /\ ~Misused(end.fragments, frame) => EndOK([end EXCEPT !.fragments = f])
  BY <1>2, FragmentsSet
<1>5. EndOK(Writes([end EXCEPT !.closing = TRUE], Close, "lingering"))
  BY WritesClose
<1>6. EndOK([end EXCEPT !.pc = "ready", !.fragments = NoFragments])
  <2> DEFINE kept == [end EXCEPT !.fragments = NoFragments]
             new == [kept EXCEPT !.pc = "ready"]
  <2>1. EndOK(kept) /\ kept.closing = end.closing
    BY NoFragmentsFit, FragmentsSet
  <2>2. [end EXCEPT !.pc = "ready", !.fragments = NoFragments] = new
    BY DEF EndOK, AnyEnd
  <2> HIDE DEF kept
  <2>3. EndOK(new)
    BY <2>1, MovedEnd
  <2> QED BY <2>2, <2>3
<1>7. CASE Misused(end.fragments, frame)
  <2>1. Set(e, Told(end, "failure"))
    BY <1>7 DEF OnData
  <2> QED BY <1>3, <2>1, InnerStep
<1>8. CASE ~Misused(end.fragments, frame) /\ ~frame.fin
  <2>1. Set(e, [end EXCEPT !.fragments = f])
    BY <1>8 DEF OnData
  <2> HIDE DEF f
  <2> QED BY <1>4, <1>8, <2>1, InnerStep
<1>9. CASE ~Misused(end.fragments, frame) /\ frame.fin /\ f.op = "text" /\ ~frame.valid
  <2>1. Set(e, Writes([end EXCEPT !.closing = TRUE], Close, "lingering"))
    BY <1>9 DEF OnData
  <2> QED BY <1>5, <2>1, InnerStep
<1>10. CASE ~Misused(end.fragments, frame) /\ frame.fin /\ ~(f.op = "text" /\ ~frame.valid)
  <2>1. Set(e, [end EXCEPT !.pc = "ready", !.fragments = NoFragments])
    BY <1>10 DEF OnData
  <2> QED BY <1>6, <2>1, InnerStep
<1>11. frame.fin \in BOOLEAN /\ frame.valid \in BOOLEAN
  BY DEF AnyFrame
<1> HIDE DEF f
<1> QED BY <1>7, <1>8, <1>9, <1>10, <1>11

\* The echo of a close is the one close this end sends.
LEMMA EchoedEnd ==
    ASSUME NEW end, EndOK(end), ~end.closing, NEW frame \in AnyFrame, frame.op = "close"
    PROVE  EndOK(Echoed(end, frame))
<1> DEFINE new == Writes([end EXCEPT !.closing = TRUE, !.told = "close"], frame, "ready")
<1>1. end \in AnyEnd
  BY DEF EndOK
<1>2. new \in AnyEnd
  BY <1>1 DEF Writes, AnyEnd
<1>3. /\ new.pc = "writing" /\ new.out = frame /\ new.next = "ready" /\ new.closing
      /\ new.told = "close"
  BY <1>1 DEF Writes, AnyEnd
<1>4. Echoed(end, frame) = new
  BY DEF Echoed
<1> HIDE DEF new
<1> QED BY <1>2, <1>3, <1>4 DEF EndOK, Closes, Bounded

LEMMA TakeKeeps ==
    ASSUME WSInv, NEW e \in Ends, Take(e)
    PROVE  WSInv'
<1> DEFINE frame == Head(ends[e].buffer)
           end == [ends[e] EXCEPT !.buffer = Tail(@)]
<1>1. /\ ends[e].pc = "receiving" /\ ends[e].buffer # <<>> /\ UNCHANGED << plan, pipes, written >>
      /\ Data(frame) => OnData(e, end, frame)
      /\ ~Data(frame) => Set(e, CASE frame.op = "close" /\ frame.valid -> Echoed(end, frame)
                                  [] frame.op = "close" /\ ~frame.valid -> Told(end, "failure")
                                  [] frame.op = "ping" -> Writes(end, Pong(frame), "receiving")
                                  [] OTHER -> end)
  BY DEF Take, At
<1>2. ~ends[e].closing /\ ~Past(ends[e]) /\ EndOK(ends[e])
  BY <1>1, ReadyEnds
<1>3. EndOK(end) /\ end.pc = "receiving" /\ ~end.closing /\ frame \in AnyFrame
  BY <1>1, <1>2, ReadFrame
<1> HIDE DEF frame, end
<1>4. CASE Data(frame)
  BY <1>1, <1>2, <1>3, <1>4, DataKeeps
<1>5. CASE ~Data(frame) /\ frame.op = "close" /\ frame.valid
  <2>1. Set(e, Echoed(end, frame))
    BY <1>1, <1>5
  <2>2. EndOK(Echoed(end, frame))
    BY <1>3, <1>5, EchoedEnd
  <2> QED BY <1>1, <1>2, <2>1, <2>2, InnerStep
<1>6. CASE ~Data(frame) /\ frame.op = "close" /\ ~frame.valid
  <2>1. Set(e, Told(end, "failure"))
    BY <1>1, <1>6
  <2>2. EndOK(Told(end, "failure"))
    BY <1>3, ToldEnd
  <2> QED BY <1>1, <1>2, <2>1, <2>2, InnerStep
<1>7. CASE ~Data(frame) /\ frame.op = "ping"
  <2>1. Set(e, Writes(end, Pong(frame), "receiving"))
    BY <1>1, <1>7
  <2>2. Pong(frame) \in AnyFrame /\ Pong(frame).op # "close"
    BY <1>3 DEF Pong, AnyFrame
  <2>3. EndOK(Writes(end, Pong(frame), "receiving"))
    BY <1>3, <2>2, WritesFrame
  <2> QED BY <1>1, <1>2, <2>1, <2>3, InnerStep
<1>8. CASE ~Data(frame) /\ frame.op # "close" /\ frame.op # "ping"
  <2>1. Set(e, end)
    BY <1>1, <1>8
  <2> QED BY <1>1, <1>2, <1>3, <2>1, InnerStep
<1>9. frame.valid \in BOOLEAN
  BY <1>3 DEF AnyFrame
<1> QED BY <1>4, <1>5, <1>6, <1>7, <1>8, <1>9

-----------------------------------------------------------------------------
(* The specification.                                                      *)

LEMMA BeginsOK ==
    ASSUME ClosesByClose, Init
    PROVE  WSInv
<1>1. ASSUME NEW pc \in {"start", "accepting"} PROVE EndOK(Begun(pc)) /\ ~Past(Begun(pc))
  <2> DEFINE new == Begun(pc)
  <2>1. Close \in AnyFrame /\ NoFragments \in AnyFragments /\ << >> \in Seq(AnyFrame)
    BY NoFragmentsFit DEF Close, Frame, AnyFrame
  <2>2. new \in AnyEnd
    BY <1>1, <2>1 DEF Begun, AnyEnd
  <2>3. new.pc = pc /\ ~new.closing /\ new.fragments = NoFragments
    BY DEF Begun
  <2> HIDE DEF new
  <2>4. EndOK(new) /\ ~Past(new)
    BY <1>1, <2>2, <2>3, NoFragmentsFit DEF EndOK, Closes, Bounded, Past
  <2> QED BY <2>4 DEF new
<1>2. ends = [e \in Ends |-> Begun(IF e = "client" THEN "start" ELSE "accepting")]
  BY DEF Init
<1>3. ends = [e \in Ends |-> ends[e]] /\ \A e \in Ends : EndOK(ends[e])
  BY <1>1, <1>2
<1>4. plan \in [Ends -> Seq(Spoken)]
  BY DEF Init, ClosesByClose
<1>5. /\ pipes \in [Ends -> Seq(AnyFrame)] /\ written \in [Ends -> Seq(AnyFrame)]
      /\ \A e \in Ends : pipes[e] = << >> /\ written[e] = << >>
  BY DEF Init
<1>6. \A e \in Ends : Len(pipes[e]) <= Room
  BY <1>5, WebSocketAssumption
<1>7. \A e \in Ends : LastClose(written[e]) /\ NoClose(written[e])
  BY <1>5 DEF LastClose, NoClose
<1> QED BY <1>3, <1>4, <1>5, <1>6, <1>7 DEF WSInv

LEMMA NextKeeps ==
    ASSUME WSInv, [Next]_vars
    PROVE  WSInv'
<1>1. CASE UNCHANGED vars
  BY <1>1 DEF vars, WSInv
<1>2. CASE (\E kind \in {"upgrade", "malformed"} : Ask(kind)) \/ Answer \/ Confirm
  BY <1>2, HandshakeKeeps
<1>3. ASSUME NEW e \in Ends, Step(e) \/ Send(e) \/ Receive(e) \/ StartClose(e) PROVE WSInv'
  BY <1>3, WriteKeeps, FillKeeps, TakeKeeps, WaitKeeps, SendKeeps, ReceiveKeeps, StartCloseKeeps DEF Step
<1> QED BY <1>1, <1>2, <1>3 DEF Next

\* An end of a WebSocketConnection that close and receive_message close sends one
\* close and nothing after it, even as two closes cross (CloseIsLast), and what
\* receive_message reassembles keeps within max_message_size and ws_max_fragments
\* until it fails (TypeOK), whatever either end sends and however it is cut.
THEOREM ClosesOnce ==
    ASSUME ClosesByClose
    PROVE  Spec => [](TypeOK /\ CloseIsLast)
<1>1. Init => WSInv
  BY BeginsOK
<1>2. WSInv /\ [Next]_vars => WSInv'
  BY NextKeeps
<1>3. WSInv => TypeOK /\ CloseIsLast
  <2> SUFFICES ASSUME WSInv PROVE TypeOK /\ CloseIsLast
    OBVIOUS
  <2>1. CloseIsLast
    BY DEF WSInv, CloseIsLast, LastClose
  <2>2. \A e \in Ends : ends[e] \in AnyEnd /\ Bounded(ends[e]) /\ Len(pipes[e]) <= Room
    BY DEF WSInv, EndOK
  <2>3. \A e \in Ends :
          /\ ends[e].pc \in {"start", "accepting", "confirming", "refused", "ready", "writing",
                             "receiving", "lingering", "shut"}
          /\ ends[e].told \in {"nothing", "close", "failure"} /\ ends[e].closing \in BOOLEAN
    BY <2>2 DEF AnyEnd
  <2>4. TypeOK
    BY <2>2, <2>3 DEF TypeOK, Bounded
  <2> QED BY <2>1, <2>4
<1> QED BY <1>1, <1>2, <1>3, PTL DEF Spec

=============================================================================
