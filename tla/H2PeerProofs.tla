---------------------------- MODULE H2PeerProofs ----------------------------
(***************************************************************************)
(* Proofs about one end of an HTTP/2 connection against an arbitrary peer, *)
(* for every set of frames the peer may send, of messages the caller may   *)
(* send and every limit.                                                   *)
(***************************************************************************)
EXTENDS H2Peer, H2ConnectionProofs

\* What is remembered of a stream that is gone: its number was begun by
\* whichever side begins such numbers, and the stream is not there.
Forgotten(e) ==
    \A id \in gone[e] :
        /\ id > 0 /\ id \notin DOMAIN conn[e].streams
        /\ IF PeerOpens(e, id) THEN id <= conn[e].highest ELSE id < conn[e].nextId

PeerInv ==
    /\ H2Inv
    /\ gone \in [Endpoints -> SUBSET Nat]
    /\ \A e \in Endpoints : Forgotten(e)

\* Both ends begin within the invariant (H2Connection::new).
THEOREM PeerInit == Init => PeerInv
<1> SUFFICES ASSUME Init PROVE PeerInv
  OBVIOUS
<1>1. H2Inv
  BY H2InitInv DEF Init
<1>2. gone = [e \in Endpoints |-> {}] /\ conn = [e \in Endpoints |-> NewConnection(e)]
  BY DEF Init, H2Init
<1>3. ASSUME NEW e \in Endpoints PROVE Forgotten(e)
  BY <1>2 DEF Forgotten
<1> QED BY <1>1, <1>2, <1>3 DEF PeerInv

\* Every step, of the peer, the caller or the connection, is a lawful step of one
\* end.
LEMMA PeerSteps ==
    ASSUME PeerInv, Next
    PROVE  \E e \in Endpoints : Lawful(e) /\ Remember
<1>1. PICK e \in Endpoints : CallerActs(e) \/ Writes(e) \/ \E f \in Frames[e] : PeerSends(e, f)
  BY DEF Next
<1>2. H2Inv /\ Frames[e] \subseteq AnyFrame /\ Messages[e] \subseteq AnyMessage
  BY PeerAssumption DEF PeerInv
<1> HIDE DEF AnyFrame, AnyMessage
<1>3. CASE CallerActs(e)
  <2>1. Remember
    BY <1>3 DEF CallerActs
  <2>2. CASE StartClient(e) \/ BeginReceive(e) \/ TimeOut(e) \/ Close(e)
    BY <1>2, <2>1, <2>2, StartClientLawful, BeginReceiveLawful, TimeOutLawful, CloseLawful
  <2>3. ASSUME NEW m \in Messages[e], SendOnGoneStream(e, m) \/ SendPastCeiling(e, m) PROVE Lawful(e)
    BY <1>2, <2>3, SendRefusedLawful
  <2>4. ASSUME NEW m \in Messages[e], NEW more \in BOOLEAN, SendHead(e, m, more) PROVE Lawful(e)
    BY <1>2, <2>4, SendHeadLawful
  <2>5. ASSUME NEW id \in DOMAIN conn[e].streams, AbandonStream(e, id) \/ ResetStream(e, id)
        PROVE  Lawful(e)
    BY <1>2, <2>5, AbandonStreamLawful, ResetStreamLawful
  <2> QED BY <1>3, <2>1, <2>2, <2>3, <2>4, <2>5 DEF CallerActs
<1>4. CASE Writes(e)
  BY <1>2, <1>4, SendDataLawful, SendInterruptedLawful DEF Writes
<1>5. ASSUME NEW f \in Frames[e], PeerSends(e, f) PROVE Lawful(e) /\ Remember
  BY <1>2, <1>5, StartServerLawful, HandleLawful DEF PeerSends
<1> QED BY <1>1, <1>3, <1>4, <1>5

\* The streams dropped by a step are those that were there and are not, and no
\* reset says otherwise.
LEMMA DroppedMeaning ==
    ASSUME PeerInv, NEW e \in Endpoints, Lawful(e), NEW x \in Endpoints
    PROVE  Dropped(x) \subseteq DOMAIN conn[x].streams \ DOMAIN conn'[x].streams
<1>1. CASE x = e
  <2>1. \A i \in DOMAIN out'[e] : Truthful(e, conn'[e], out'[e][i])
    BY DEF Lawful, AllTruthful
  <2> QED BY <1>1, <2>1 DEF Dropped, Truthful
<1>2. CASE x # e
  <2>1. out' = [y \in Endpoints |-> IF y = e THEN out'[e] ELSE <<>>]
    BY DEF Lawful
  <2>2. out'[x] = <<>>
    BY <1>2, <2>1
  <2> QED BY <2>2 DEF Dropped
<1> QED BY <1>1, <1>2

\* And no step leaves the invariant: a number once used is not used again.
THEOREM PeerNext == PeerInv /\ [Next]_vars => PeerInv'
<1> SUFFICES ASSUME PeerInv, [Next]_vars PROVE PeerInv'
  OBVIOUS
<1>1. CASE UNCHANGED vars
  BY <1>1 DEF vars, PeerInv, H2Inv, Forgotten, Ids, PeerOpens, Steady, Window
<1>2. CASE Next
  <2>1. PICK e \in Endpoints : Lawful(e) /\ Remember
    BY <1>2, PeerSteps
  <2>2. H2Inv /\ H2Inv'
    BY <2>1, LawfulKeeps DEF PeerInv
  <2>3. ASSUME NEW x \in Endpoints
        PROVE  /\ conn[x].highest \in Nat /\ conn'[x].highest \in Nat
               /\ conn[x].nextId \in Nat /\ conn'[x].nextId \in Nat
               /\ conn[x].highest <= conn'[x].highest /\ conn[x].nextId <= conn'[x].nextId
               /\ DOMAIN conn[x].streams \subseteq Nat
               /\ \A id \in DOMAIN conn'[x].streams \ DOMAIN conn[x].streams : Newly(x, conn'[x], id)
    <3>1. /\ conn[x].highest \in Nat /\ conn'[x].highest \in Nat
          /\ conn[x].nextId \in Nat /\ conn'[x].nextId \in Nat
          /\ DOMAIN conn[x].streams \subseteq Nat
      BY <2>2, StreamsMeaning DEF H2Inv, Connection
    <3>2. CASE x = e
      BY <2>1, <3>1, <3>2 DEF Lawful, Onward, Growing
    <3>3. CASE x # e
      <4>1. conn' = [conn EXCEPT ![e] = conn'[e]]
        BY <2>1 DEF Lawful
      <4>2. conn'[x] = conn[x]
        BY <2>2, <3>3, <4>1 DEF H2Inv
      <4> QED BY <3>1, <4>2
    <3> QED BY <3>1, <3>2, <3>3
  <2>4. gone' = [x \in Endpoints |-> gone[x] \cup Dropped(x)]
    BY <2>1 DEF Remember
  <2>5. \A x \in Endpoints : Dropped(x) \subseteq DOMAIN conn[x].streams \ DOMAIN conn'[x].streams
    BY <2>1, DroppedMeaning
  <2>6. gone' \in [Endpoints -> SUBSET Nat]
    BY <2>3, <2>4, <2>5 DEF PeerInv
  <2>7. ASSUME NEW x \in Endpoints PROVE Forgotten(x)'
    <3>1. SUFFICES ASSUME NEW id \in gone'[x]
                   PROVE  /\ id > 0 /\ id \notin DOMAIN conn'[x].streams
                          /\ IF PeerOpens(x, id) THEN id <= conn'[x].highest
                             ELSE id < conn'[x].nextId
      BY DEF Forgotten, PeerOpens
    <3>2. id \in Nat
      BY <2>6
    <3>3. CASE id \in gone[x]
      <4>1. /\ id > 0 /\ id \notin DOMAIN conn[x].streams
            /\ IF PeerOpens(x, id) THEN id <= conn[x].highest ELSE id < conn[x].nextId
        BY <3>3 DEF PeerInv, Forgotten
      <4>2. id \notin DOMAIN conn'[x].streams
        BY <2>3, <3>2, <4>1 DEF Newly
      <4> QED BY <2>3, <3>2, <4>1, <4>2
    <3>4. CASE id \in Dropped(x)
      <4>1. id \in DOMAIN conn[x].streams \ DOMAIN conn'[x].streams
        BY <2>5, <3>4
      <4>2. Ids(x)
        BY <2>2 DEF H2Inv
      <4> QED BY <2>3, <3>2, <4>1, <4>2 DEF Ids
    <3> QED BY <2>4, <3>1, <3>3, <3>4
  <2> QED BY <2>2, <2>6, <2>7 DEF PeerInv
<1> QED BY <1>1, <1>2

\* Whatever the peer sends and the caller does, every field of an end keeps its
\* type, a failed operation is over, and every stream has a number its side had
\* counted (highest_peer_stream_id, next_stream_id).
THEOREM EndsKeepTheirType == Spec => []H2Inv
<1>1. PeerInv => H2Inv
  BY DEF PeerInv
<1> QED BY PeerInit, PeerNext, <1>1, PTL DEF Spec

\* A stream that was dropped or reset never comes back, whatever the peer and
\* the caller do (begin_stream, send_message).
THEOREM NeverReopenedHolds == Spec => []NeverReopened
<1>1. PeerInv => NeverReopened
  BY DEF PeerInv, Forgotten, NeverReopened
<1> QED BY PeerInit, PeerNext, <1>1, PTL DEF Spec

\* Nothing is said on a stream that is gone: no body is written on after a
\* reset, no answer sent, no credit given back (write_data, send_message,
\* handle).
THEOREM SilentOnceGoneHolds == Spec => SilentOnceGone
<1> DEFINE Silent == \A e \in Endpoints : \A i \in DOMAIN out'[e] :
               out'[e][i].type \in {"HEADERS", "CONTINUATION", "DATA", "WINDOW"} =>
                   out'[e][i].id \notin gone[e]
<1>1. PeerInv /\ [Next]_vars => [Silent]_vars
  <2> SUFFICES ASSUME PeerInv, Next PROVE Silent
    BY DEF vars
  <2>1. PICK e \in Endpoints : Lawful(e)
    BY PeerSteps
  <2>2. ASSUME NEW x \in Endpoints, NEW i \in DOMAIN out'[x], Speaks(out'[x][i])
        PROVE  out'[x][i].id \notin gone[x]
    <3>1. x = e
      <4>1. out' = [y \in Endpoints |-> IF y = e THEN out'[e] ELSE <<>>]
        BY <2>1 DEF Lawful
      <4>2. x # e => out'[x] = <<>>
        BY <4>1
      <4> QED BY <2>2, <4>2
    <3> DEFINE id == out'[e][i].id
    <3>2. \/ id \in DOMAIN conn[e].streams
          \/ id = 0
          \/ conn[e].nextId <= id /\ ~PeerOpens(e, id)
      BY <2>1, <2>2, <3>1 DEF Lawful, AllTruthful, Truthful
    <3>3. conn[e].nextId \in Nat /\ gone[e] \subseteq Nat
      BY EndFields DEF PeerInv
    <3>4. Forgotten(e)
      BY DEF PeerInv
    <3> HIDE DEF id
    <3>5. id \notin gone[e]
      BY <3>2, <3>3, <3>4 DEF Forgotten
    <3> QED BY <3>1, <3>5 DEF id
  <2> QED BY <2>2 DEF Speaks
<1>2. SilentOnceGone <=> [][Silent]_vars
  BY DEF SilentOnceGone
<1> HIDE DEF Silent
<1> QED BY PeerInit, PeerNext, <1>1, <1>2, PTL DEF Spec
=============================================================================
